------------------------------ MODULE CanBoot -------------------------------
(***************************************************************************)
(* Loading the housekeeping application over CAN: the bootloader session   *)
(* (libs/hkc_proto/src/canboot.c) in the bootloader's main loop            *)
(* (firmware/hkc/bootloader/main.c), and the Linux client that downloads   *)
(* an image with retries (linux/hkc/src/hkc_client.cpp).                   *)
(*                                                                         *)
(* The bus keeps the order of frames and may lose any of them.  An image   *)
(* is a sequence of chunks, chunk k of image i is <<i, k>>, the first one  *)
(* holds the header; a CRC stands for the contents it was computed over.   *)
(*                                                                         *)
(* Definitions named Faulty_ are plausible mistakes in the definition that *)
(* follows; no specification uses them.                                    *)
(***************************************************************************)
EXTENDS Naturals, Sequences

CONSTANTS
  Images,     \* images Linux has files of
  Chunks,     \* [Images -> chunks of SATLINK_CANBOOT_CHUNK bytes]
  Window,     \* chunks of the application window; Flash() refuses an image
              \* that does not fit before it sends anything
  SeqMod,     \* 256: DATA frames are counted in a uint8_t
  Retries,    \* ClientOptions::retries
  UseAbort,   \* the caller answers failures with Abort() in the end
  OwnSocket,  \* the caller is satlink-hkc: it opens a socket for each download,
              \* and none of its earlier requests waits for the bus any more
  MaxFaults   \* bound of the model: lost frames, slow answers, resets

ASSUME CanBootAssumption ==
  /\ Window \in Nat /\ Chunks \in [Images -> 1 .. Window]
  /\ SeqMod \in Nat /\ SeqMod > 1
  /\ Retries \in Nat /\ MaxFaults \in Nat /\ UseAbort \in BOOLEAN
  /\ OwnSocket \in BOOLEAN

VARIABLES
  doing,      \* the client's call, or how the last one ended
  image,      \* the image of the last Flash()
  offset,     \* chunks of it acknowledged
  want,       \* the request Transact() waits for an answer to
  attempt,
  toTarget, toClient,    \* frames on the bus and in the CAN controllers
  state, image_size, received, next_seq, have_last_seq, image_valid,
  region,     \* the application window
  running,    \* "bootloader" or "app"
  stay,       \* the mailbox kept the bootloader from starting by itself
  talked,
  faults

client == <<doing, image, offset, want, attempt>>
session == <<state, image_size, received, next_seq, have_last_seq>>
target == <<session, image_valid, region, running, stay, talked>>
vars == <<client, toTarget, toClient, target, faults>>

-----------------------------------------------------------------------------
Blank == <<"blank", 0>>
NoRequest == [op |-> "none"]
StartRequest(i) == [op |-> "START", size |-> Chunks[i]]
DataRequest(i, k) == [op |-> "DATA", seq |-> k % SeqMod, chunk |-> <<i, k>>]
EndRequest(i) == [op |-> "END", crc |-> i]
Request(op) == [op |-> op]

(* Chunks 0 .. n-1 of the window are those of image i. *)
Holds(i, n) == \A k \in 0 .. n - 1 : region[k] = <<i, k>>

(* satlink_hkc_image_verify of the first len chunks: the header there and  *)
(* its payload complete.                                                   *)
Verified(len) == \E i \in Images : Chunks[i] <= len /\ Holds(i, Chunks[i])

Init ==
  /\ doing = "none" /\ image \in Images /\ offset = 0
  /\ want = NoRequest /\ attempt = 0
  /\ toTarget = <<>> /\ toClient = <<>>
  /\ state = "IDLE" /\ image_size = 0 /\ received = 0
  /\ next_seq = 0 /\ have_last_seq = FALSE /\ image_valid = FALSE
  /\ region = [k \in 0 .. Window - 1 |-> Blank]
  /\ running = "bootloader" /\ stay = FALSE /\ talked = FALSE
  /\ faults = 0

-----------------------------------------------------------------------------
(* The bootloader's loop: one received frame, one answer. *)
Request1 == Head(toTarget)

Answer(status) ==
  toClient' = Append(toClient,
    [op |-> Request1.op, status |-> status,
     seq |-> IF Request1.op = "DATA" THEN Request1.seq ELSE 0])

Handles(op) ==
  /\ running = "bootloader" /\ toTarget # <<>> /\ Request1.op = op
  /\ toTarget' = Tail(toTarget) /\ talked' = TRUE
  /\ UNCHANGED <<client, stay, faults>>

HandlePing ==
  /\ Handles("PING") /\ Answer("OK")
  /\ UNCHANGED <<session, image_valid, region, running>>

Faulty_HandleStartKeepsValid ==
  /\ Handles("START")
  /\ IF state = "RECEIVING"
     THEN Answer("BAD_STATE") /\ UNCHANGED <<session, image_valid>>
     ELSE /\ Answer("OK")
          /\ state' = "RECEIVING" /\ image_size' = Request1.size
          /\ received' = 0 /\ next_seq' = 0 /\ have_last_seq' = FALSE
          /\ UNCHANGED image_valid
  /\ UNCHANGED <<region, running>>

HandleStart ==
  /\ Handles("START")
  /\ IF state = "RECEIVING"
     THEN Answer("BAD_STATE") /\ UNCHANGED <<session, image_valid>>
     ELSE /\ Answer("OK")
          /\ state' = "RECEIVING" /\ image_size' = Request1.size
          /\ received' = 0 /\ next_seq' = 0 /\ have_last_seq' = FALSE
          /\ image_valid' = FALSE
  /\ UNCHANGED <<region, running>>

Repeated == have_last_seq /\ (Request1.seq + 1) % SeqMod = next_seq

Write ==
  /\ region' = [region EXCEPT ![received] = Request1.chunk]
  /\ received' = received + 1
  /\ next_seq' = (Request1.seq + 1) % SeqMod
  /\ have_last_seq' = TRUE

HandleData ==
  /\ Handles("DATA")
  /\ IF state = "RECEIVING" /\ ~Repeated /\ Request1.seq = next_seq
        /\ received < image_size
     THEN Answer("OK") /\ Write
     ELSE /\ Answer(IF state # "RECEIVING" THEN "BAD_STATE"
                    ELSE IF Repeated THEN "OK"
                    ELSE IF Request1.seq # next_seq THEN "BAD_SEQ"
                    ELSE "BAD_LENGTH")
          /\ UNCHANGED <<region, received, next_seq, have_last_seq>>
  /\ UNCHANGED <<state, image_size, image_valid, running>>

Faulty_HandleEndUnverified ==
  /\ Handles("END")
  /\ IF state # "RECEIVING" \/ received # image_size
     THEN /\ Answer(IF state # "RECEIVING" THEN "BAD_STATE" ELSE "BAD_LENGTH")
          /\ UNCHANGED state
     ELSE IF Chunks[Request1.crc] # received \/ ~Holds(Request1.crc, received)
     THEN Answer("CRC") /\ state' = "IDLE"
     ELSE Answer("OK") /\ state' = "COMPLETE"
  /\ UNCHANGED <<image_size, received, next_seq, have_last_seq, image_valid,
                 region, running>>

HandleEnd ==
  /\ Handles("END")
  /\ IF state # "RECEIVING" \/ received # image_size
     THEN /\ Answer(IF state # "RECEIVING" THEN "BAD_STATE" ELSE "BAD_LENGTH")
          /\ UNCHANGED <<state, image_valid>>
     ELSE IF Chunks[Request1.crc] # received \/ ~Holds(Request1.crc, received)
     THEN Answer("CRC") /\ state' = "IDLE" /\ UNCHANGED image_valid
     ELSE /\ Answer(IF Verified(received) THEN "OK" ELSE "BAD_IMAGE")
          /\ image_valid' = Verified(received)
          /\ state' = IF Verified(received) THEN "COMPLETE" ELSE "IDLE"
  /\ UNCHANGED <<image_size, received, next_seq, have_last_seq, region,
                 running>>

(* An accepted BOOT: the main loop jumps to the application. *)
HandleBoot ==
  /\ Handles("BOOT")
  /\ IF image_valid /\ state # "RECEIVING"
     THEN Answer("OK") /\ running' = "app"
     ELSE Answer("BAD_IMAGE") /\ UNCHANGED running
  /\ UNCHANGED <<session, image_valid, region>>

Faulty_HandleAbortAnswersOnly ==
  /\ Handles("ABORT") /\ Answer("OK")
  /\ UNCHANGED <<session, image_valid, region, running>>

HandleAbort ==
  /\ Handles("ABORT") /\ Answer("OK")
  /\ state' = IF state = "RECEIVING" THEN "IDLE" ELSE state
  /\ UNCHANGED <<image_size, received, next_seq, have_last_seq, image_valid,
                 region, running>>

Handle ==
  \/ HandlePing \/ HandleStart \/ HandleData \/ HandleEnd \/ HandleBoot
  \/ HandleAbort

(* Nobody talked to the bootloader for 2 s. *)
Autoboot ==
  /\ running = "bootloader" /\ toTarget = <<>>
  /\ ~stay /\ ~talked /\ image_valid
  /\ running' = "app"
  /\ UNCHANGED <<client, toTarget, toClient, session, image_valid, region,
                 stay, talked, faults>>

(* The application does not answer bootloader requests. *)
AppIgnores ==
  /\ running = "app" /\ toTarget # <<>>
  /\ toTarget' = Tail(toTarget)
  /\ UNCHANGED <<client, toClient, target, faults>>

(* The target starts over: BRAM keeps its contents, the CAN controller     *)
(* loses what it has received, and the bootloader announces itself.        *)
Restart(ask) ==
  /\ running' = "bootloader" /\ stay' = ask /\ talked' = FALSE
  /\ state' = "IDLE" /\ image_size' = 0 /\ received' = 0
  /\ next_seq' = 0 /\ have_last_seq' = FALSE
  /\ image_valid' = Verified(Window)
  /\ toTarget' = <<>>
  /\ UNCHANGED <<client, region>>

Announcement == [op |-> "PING", status |-> "OK", seq |-> 0]

-----------------------------------------------------------------------------
(* The client. *)
Resting == doing \in {"none", "flashed", "failed"}

Send(request) ==
  /\ want' = request /\ attempt' = 0
  /\ toTarget' = Append(toTarget, request)

Begin(call, request) ==
  /\ Resting
  /\ doing' = call /\ Send(request)
  /\ UNCHANGED <<target, faults>>

(* A socket that is new has received nothing. *)
Flash(i) ==
  /\ OwnSocket => toTarget = <<>>
  /\ Begin("flash", StartRequest(i))
  /\ image' = i /\ offset' = 0
  /\ toClient' = IF OwnSocket THEN <<>> ELSE toClient

Boot == Begin("boot", Request("BOOT")) /\ UNCHANGED <<image, offset, toClient>>
Ping == Begin("ping", Request("PING")) /\ UNCHANGED <<image, offset, toClient>>
Abort == Begin("abort", Request("ABORT")) /\ UNCHANGED <<image, offset, toClient>>

(* match(): the opcode, and the sequence number of DATA. *)
Matches(r) == r.op = want.op /\ (want.op = "DATA" => r.seq = want.seq)

End(how) ==
  /\ doing' = how /\ want' = NoRequest /\ attempt' = 0
  /\ UNCHANGED <<image, offset, toTarget>>

(* The next chunk that is not acknowledged, or END after the last one. *)
SendChunk(k) ==
  /\ offset' = k
  /\ Send(IF k < Chunks[image] THEN DataRequest(image, k)
                                ELSE EndRequest(image))
  /\ UNCHANGED <<doing, image>>

Receive ==
  /\ want # NoRequest /\ toClient # <<>>
  /\ toClient' = Tail(toClient)
  /\ LET r == Head(toClient) IN
       IF ~Matches(r) THEN UNCHANGED <<client, toTarget>>
       ELSE IF r.status # "OK" THEN End("failed")
       ELSE CASE want.op = "START" -> SendChunk(0)
              [] want.op = "DATA" -> SendChunk(offset + 1)
              [] want.op = "END" -> End("flashed")
              [] OTHER -> End("none")
  /\ UNCHANGED <<target, faults>>

Retry ==
  /\ IF attempt < Retries
     THEN /\ attempt' = attempt + 1 /\ toTarget' = Append(toTarget, want)
          /\ UNCHANGED <<doing, image, offset, want>>
     ELSE End("failed")
  /\ UNCHANGED <<toClient, target>>

(* Nothing is on its way any more. *)
Timeout ==
  /\ want # NoRequest /\ toTarget = <<>> /\ toClient = <<>>
  /\ Retry /\ UNCHANGED faults

(* The keyed command to the application, which restarts in the bootloader. *)
(* Waiting for its acknowledgement, Command() skips what came before.      *)
EnterBoot ==
  /\ Resting /\ running = "app"
  /\ Restart(TRUE) /\ toClient' = <<Announcement>>
  /\ UNCHANGED faults

-----------------------------------------------------------------------------
Fault == faults < MaxFaults /\ faults' = faults + 1

LoseRequest ==
  /\ Fault /\ toTarget # <<>> /\ toTarget' = Tail(toTarget)
  /\ UNCHANGED <<client, toClient, target>>

LoseResponse ==
  /\ Fault /\ toClient # <<>> /\ toClient' = Tail(toClient)
  /\ UNCHANGED <<client, toTarget, target>>

(* A request or its answer takes longer than response_timeout. *)
EarlyTimeout ==
  /\ Fault /\ want # NoRequest /\ (toTarget # <<>> \/ toClient # <<>>)
  /\ Retry

Reset ==
  /\ Fault /\ Restart(FALSE)
  /\ toClient' = Append(toClient, Announcement)

Client ==
  \/ \E i \in Images : Flash(i)
  \/ Boot \/ Ping \/ Abort \/ Receive \/ Timeout \/ EnterBoot

Next ==
  \/ Client \/ Handle \/ Autoboot \/ AppIgnores
  \/ LoseRequest \/ LoseResponse \/ EarlyTimeout \/ Reset

Spec == Init /\ [][Next]_vars

(* The target serves what it receives, the client answers and times out,   *)
(* and whoever calls it goes on trying to load an image, out of the        *)
(* application when it runs (satlink-hkc-loader.service).                  *)
Fairness ==
  /\ WF_vars(Handle) /\ WF_vars(AppIgnores)
  /\ WF_vars(Receive) /\ WF_vars(Timeout)
  /\ SF_vars(EnterBoot)
  /\ SF_vars(running = "bootloader" /\ \E i \in Images : Flash(i))
  /\ SF_vars(UseAbort /\ doing = "failed" /\ Abort)

FairSpec == Spec /\ Fairness

-----------------------------------------------------------------------------
(* What may be started is a whole image: neither a download cut short nor  *)
(* two downloads mixed is ever marked valid, and the application that runs *)
(* was started from such a window.                                         *)
OnlyWholeImages ==
  /\ image_valid => Verified(Window)
  /\ running = "app" => image_valid

(* A Flash() that returned left its image in the target, verified. *)
FlashedIsSent ==
  doing = "flashed" => Holds(image, Chunks[image]) /\ image_valid

(* SRS-HKC-002: the bootloader shall "tolerate lost frames and responses". *)
(* A caller who keeps trying gets an image into the target, again and      *)
(* again, whatever was lost before.                                        *)
Reflashable == []<>(doing = "flashed")
=============================================================================
