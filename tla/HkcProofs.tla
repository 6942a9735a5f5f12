------------------------------ MODULE HkcProofs ------------------------------
(***************************************************************************)
(* Proofs about the two programs of the HKC.  Its bootloader (CanBoot),    *)
(* for any images, any width of the sequence number, any number of retries *)
(* and any number of faults: the application that is started is whole, and *)
(* a download that satlink-hkc reports as done is in the target.  Its      *)
(* application (Hkc), for any width of the clock and any set of periods:   *)
(* STATUS goes out on the schedule that was last set.  The bit timing      *)
(* (BitTiming), for all oscillators and bit rates: it is right.            *)
(***************************************************************************)
EXTENDS CanBoot, Hkc, WellFoundedInduction, TLAPS

Requests ==
  [op : {"START"}, size : 1 .. Window]
    \cup [op : {"DATA"}, seq : 0 .. SeqMod - 1, chunk : Images \X (0 .. Window - 1)]
    \cup [op : {"END"}, crc : Images]
    \cup [op : {"PING", "BOOT", "ABORT"}]

(* Types: what the bus carries to the target, and what the target keeps.   *)
ClientTypes ==
  /\ image \in Images /\ offset \in 0 .. Chunks[image]
  /\ want \in Requests \cup {NoRequest}
  /\ want.op = "DATA" => offset < Chunks[image]
  /\ toTarget \in Seq(Requests)

TargetTypes ==
  /\ state \in {"IDLE", "RECEIVING", "COMPLETE"}
  /\ image_size \in 0 .. Window /\ received \in 0 .. image_size
  /\ image_valid \in BOOLEAN
  /\ running \in {"bootloader", "app"}

(* The window changes only under a session that marked it invalid.         *)
Whole ==
  /\ state = "RECEIVING" => ~image_valid
  /\ OnlyWholeImages

Inv == ClientTypes /\ TargetTypes /\ Whole

-----------------------------------------------------------------------------
LEMMA StartShape == \A r \in Requests : r.op = "START" => r.size \in 1 .. Window
BY DEF Requests

(* What the client sends are requests. *)
LEMMA SentAreRequests ==
  /\ \A i \in Images : StartRequest(i) \in Requests /\ EndRequest(i) \in Requests
  /\ \A i \in Images, k \in Nat : k < Chunks[i] => DataRequest(i, k) \in Requests
  /\ \A op \in {"PING", "BOOT", "ABORT"} : Request(op) \in Requests /\ Request(op).op # "DATA"
  /\ \A i \in Images : StartRequest(i).op # "DATA" /\ EndRequest(i).op # "DATA"
  /\ NoRequest.op # "DATA"
<1> USE CanBootAssumption
<1>1. ASSUME NEW i \in Images
      PROVE  StartRequest(i) \in Requests /\ EndRequest(i) \in Requests
  BY DEF StartRequest, EndRequest, Requests
<1>2. ASSUME NEW i \in Images, NEW k \in Nat, k < Chunks[i]
      PROVE  DataRequest(i, k) \in Requests
  <2>1. k % SeqMod \in 0 .. SeqMod - 1 /\ k \in 0 .. Window - 1
    BY <1>2
  <2> QED
    BY <2>1 DEF DataRequest, Requests
<1>3. ASSUME NEW op \in {"PING", "BOOT", "ABORT"}
      PROVE  Request(op) \in Requests /\ Request(op).op # "DATA"
  BY DEF Request, Requests
<1> QED
  BY <1>1, <1>2, <1>3 DEF StartRequest, EndRequest, NoRequest

(* An image that is complete in the chunks received is complete in the     *)
(* window.                                                                 *)
LEMMA VerifiedGrows ==
  \A m \in 0 .. Window : Verified(m) => Verified(Window)
BY CanBootAssumption DEF Verified

-----------------------------------------------------------------------------
(* A frame handled keeps the types of the bus. *)
LEMMA HandledTypes ==
  ASSUME ClientTypes, toTarget # <<>>, toTarget' = Tail(toTarget), UNCHANGED client
  PROVE  ClientTypes' /\ Request1 \in Requests
BY DEF ClientTypes, client, Request1

LEMMA HandleStep ==
  ASSUME Inv, Handle
  PROVE  Inv'
<1> USE DEF Inv
<1>1. CASE HandlePing
  <2>1. ClientTypes'
    BY <1>1, HandledTypes DEF HandlePing, Handles
  <2> QED
    BY <1>1, <2>1 DEF HandlePing, Handles, session, TargetTypes, Whole, OnlyWholeImages, Verified, Holds
<1>2. CASE HandleStart
  <2>1. ClientTypes' /\ Request1 \in Requests /\ Request1.op = "START"
    BY <1>2, HandledTypes DEF HandleStart, Handles
  <2>2. Request1.size \in 1 .. Window
    BY <2>1, StartShape
  <2>3. CASE state = "RECEIVING"
    BY <1>2, <2>1, <2>3
       DEF HandleStart, Handles, session, TargetTypes, Whole, OnlyWholeImages, Verified, Holds
  <2>4. CASE state # "RECEIVING"
    <3>1. TargetTypes'
      <4>1. /\ state' = "RECEIVING" /\ image_size' = Request1.size /\ received' = 0
            /\ image_valid' = FALSE /\ running' = running
        BY <1>2, <2>4 DEF HandleStart
      <4>2. image_size' \in 0 .. Window /\ received' \in 0 .. image_size'
        BY <4>1, <2>2, CanBootAssumption
      <4> QED
        BY <4>1, <4>2 DEF TargetTypes
    <3>2. running = "bootloader" /\ UNCHANGED running /\ ~image_valid'
      BY <1>2, <2>4 DEF HandleStart, Handles
    <3> QED
      BY <2>1, <3>1, <3>2 DEF Whole, OnlyWholeImages
  <2> QED
    BY <2>3, <2>4
<1>3. CASE HandleData
  <2>1. ClientTypes'
    BY <1>3, HandledTypes DEF HandleData, Handles
  <2>2. CASE state = "RECEIVING" /\ received < image_size /\ Write
    <3>1. running = "bootloader" /\ UNCHANGED <<state, image_size, image_valid, running>>
      BY <1>3 DEF HandleData, Handles
    <3>2. TargetTypes'
      BY <2>2, <3>1, CanBootAssumption DEF TargetTypes, Write
    <3> QED
      BY <2>1, <2>2, <3>1, <3>2 DEF Whole, OnlyWholeImages
  <2>3. CASE UNCHANGED <<region, received>>
    BY <1>3, <2>1, <2>3
       DEF HandleData, TargetTypes, Whole, OnlyWholeImages, Verified, Holds
  <2> QED
    BY <1>3, <2>2, <2>3 DEF HandleData
<1>4. CASE HandleEnd
  <2>1. ClientTypes'
    BY <1>4, HandledTypes DEF HandleEnd, Handles
  <2>2. /\ running = "bootloader"
        /\ UNCHANGED <<image_size, received, region, running>>
    BY <1>4 DEF HandleEnd, Handles
  <2>3. CASE UNCHANGED <<state, image_valid>>
    BY <2>1, <2>2, <2>3 DEF TargetTypes, Whole, OnlyWholeImages, Verified, Holds
  <2>4. CASE state = "RECEIVING" /\ state' = "IDLE" /\ UNCHANGED image_valid
    BY <2>1, <2>2, <2>4 DEF TargetTypes, Whole, OnlyWholeImages
  <2>5. CASE /\ image_valid' = Verified(received)
             /\ state' = IF Verified(received) THEN "COMPLETE" ELSE "IDLE"
    <3>1. Verified(received) => Verified(Window)
      BY VerifiedGrows, CanBootAssumption DEF TargetTypes
    <3>2. Verified(Window)' = Verified(Window)
      BY <2>2 DEF Verified, Holds
    <3>3. state' # "RECEIVING" /\ state' \in {"IDLE", "COMPLETE"}
      BY <2>5
    <3>4. image_valid' \in BOOLEAN
      BY <2>5 DEF Verified
    <3>5. TargetTypes'
      BY <2>2, <3>3, <3>4 DEF TargetTypes
    <3>6. Whole'
      BY <2>2, <2>5, <3>1, <3>2, <3>3 DEF Whole, OnlyWholeImages
    <3> QED
      BY <2>1, <3>5, <3>6
  <2> QED
    BY <1>4, <2>3, <2>4, <2>5 DEF HandleEnd
<1>5. CASE HandleBoot
  <2>1. ClientTypes'
    BY <1>5, HandledTypes DEF HandleBoot, Handles
  <2> QED
    BY <1>5, <2>1
       DEF HandleBoot, Handles, session, TargetTypes, Whole, OnlyWholeImages, Verified, Holds
<1>6. CASE HandleAbort
  <2>1. ClientTypes'
    BY <1>6, HandledTypes DEF HandleAbort, Handles
  <2> QED
    BY <1>6, <2>1
       DEF HandleAbort, Handles, TargetTypes, Whole, OnlyWholeImages, Verified, Holds
<1> QED
  BY <1>1, <1>2, <1>3, <1>4, <1>5, <1>6 DEF Handle

(* What the client does leaves the target alone and sends only requests.   *)
LEMMA ClientStep ==
  ASSUME ClientTypes,
         \/ \E i \in Images : Flash(i)
         \/ Boot \/ Ping \/ Abort \/ Receive \/ Timeout \/ EarlyTimeout
  PROVE  ClientTypes' /\ UNCHANGED target
<1> USE DEF ClientTypes
<1>1. ASSUME NEW i \in Images, Flash(i)
      PROVE  ClientTypes' /\ UNCHANGED target
  BY <1>1, SentAreRequests, CanBootAssumption DEF Flash, Begin, Send
<1>2. CASE Boot \/ Ping \/ Abort
  <2>1. PICK call \in {"boot", "ping", "abort"}, op \in {"BOOT", "PING", "ABORT"} :
          Begin(call, Request(op)) /\ UNCHANGED <<image, offset, toClient>>
    BY <1>2 DEF Boot, Ping, Abort
  <2>2. Request(op) \in Requests
    BY SentAreRequests
  <2> QED
    BY <2>1, <2>2, SentAreRequests DEF Begin, Send
<1>3. CASE Timeout \/ EarlyTimeout
  <2>1. want # NoRequest /\ Retry
    BY <1>3 DEF Timeout, EarlyTimeout
  <2> QED
    BY <2>1, SentAreRequests DEF Retry, End
<1>4. CASE Receive
  <2>1. UNCHANGED target
    BY <1>4 DEF Receive
  <2>2. CASE UNCHANGED <<client, toTarget>>
    BY <2>1, <2>2 DEF client
  <2>3. CASE End("failed") \/ End("flashed") \/ End("none")
    BY <2>1, <2>3, SentAreRequests DEF End
  <2>4. ASSUME NEW k \in Nat, k <= Chunks[image], SendChunk(k)
        PROVE  ClientTypes'
    <3>1. CASE k < Chunks[image]
      BY <2>4, <3>1, SentAreRequests, CanBootAssumption DEF SendChunk, Send, DataRequest
    <3>2. CASE ~(k < Chunks[image])
      BY <2>4, <3>2, SentAreRequests, CanBootAssumption DEF SendChunk, Send
    <3> QED
      BY <3>1, <3>2
  <2>5. 0 \in Nat /\ 0 <= Chunks[image] /\ offset + 1 \in Nat
    BY CanBootAssumption
  <2>6. want.op = "DATA" => offset + 1 <= Chunks[image]
    BY CanBootAssumption
  <2>7. \/ UNCHANGED <<client, toTarget>>
        \/ End("failed") \/ End("flashed") \/ End("none")
        \/ SendChunk(0)
        \/ want.op = "DATA" /\ SendChunk(offset + 1)
    BY <1>4, Zenon DEF Receive
  <2> QED
    BY <2>1, <2>2, <2>3, <2>4, <2>5, <2>6, <2>7
<1> QED
  BY <1>1, <1>2, <1>3, <1>4

(* A reset of the target: the window keeps what it holds.                  *)
LEMMA RestartStep ==
  ASSUME Inv, NEW ask, Restart(ask)
  PROVE  Inv'
<1>1. ClientTypes'
  BY DEF Inv, ClientTypes, Restart, client
<1>2. Verified(Window)' = Verified(Window)
  BY DEF Restart, Verified, Holds
<1>3. TargetTypes'
  <2>1. image_valid' \in BOOLEAN
    BY DEF Restart, Verified
  <2> QED
    BY <2>1, CanBootAssumption DEF Inv, TargetTypes, Restart
<1>4. Whole'
  BY <1>2 DEF Inv, Whole, OnlyWholeImages, Restart
<1> QED
  BY <1>1, <1>3, <1>4 DEF Inv

-----------------------------------------------------------------------------
THEOREM Invariant == Spec => []Inv
<1> USE CanBootAssumption
<1>1. Init => Inv
  <2> SUFFICES ASSUME Init PROVE Inv
    OBVIOUS
  <2>1. ClientTypes
    <3>1. \A i \in Images : 0 \in 0 .. Chunks[i]
      OBVIOUS
    <3>2. <<>> \in Seq(Requests)
      OBVIOUS
    <3> QED
      BY <3>1, <3>2, SentAreRequests DEF Init, ClientTypes
  <2>2. TargetTypes
    BY DEF Init, TargetTypes
  <2>3. Whole
    BY DEF Init, Whole, OnlyWholeImages
  <2> QED
    BY <2>1, <2>2, <2>3 DEF Inv
<1>2. Inv /\ [Next]_vars => Inv'
  <2> SUFFICES ASSUME Inv, [Next]_vars PROVE Inv'
    OBVIOUS
  <2>1. CASE Handle
    BY <2>1, HandleStep
  <2>2. CASE \/ \E i \in Images : Flash(i)
             \/ Boot \/ Ping \/ Abort \/ Receive \/ Timeout \/ EarlyTimeout
    BY <2>2, ClientStep
       DEF Inv, target, session, TargetTypes, Whole, OnlyWholeImages, Verified, Holds
  <2>3. CASE EnterBoot \/ Reset
    BY <2>3, RestartStep DEF EnterBoot, Reset
  <2>4. CASE Autoboot
    BY <2>4 DEF Autoboot, Inv, ClientTypes, TargetTypes, Whole, OnlyWholeImages, Verified, Holds,
                client, session
  <2>5. CASE AppIgnores \/ LoseRequest
    <3>1. ClientTypes'
      BY <2>5, HandledTypes DEF AppIgnores, LoseRequest, Inv
    <3>2. UNCHANGED target
      BY <2>5 DEF AppIgnores, LoseRequest
    <3> QED
      BY <3>1, <3>2 DEF Inv, target, session, TargetTypes, Whole, OnlyWholeImages, Verified, Holds
  <2>6. CASE LoseResponse \/ UNCHANGED vars
    <3>1. UNCHANGED <<client, toTarget, target>>
      BY <2>6 DEF LoseResponse, vars, client, target
    <3> QED
      BY <3>1 DEF Inv, ClientTypes, TargetTypes, Whole, OnlyWholeImages, Verified, Holds,
                  client, target, session
  <2> QED
    BY <2>1, <2>2, <2>3, <2>4, <2>5, <2>6 DEF Next, Client
<1> QED
  BY <1>1, <1>2, PTL DEF Spec

(* Only a whole image is ever marked valid, started by hand or started by  *)
(* itself: not one cut short, not a mixture of two, after any losses and   *)
(* resets and whatever order Linux makes its calls in.                     *)
THEOREM OnlyWholeImagesRun == Spec => []OnlyWholeImages
<1>1. Inv => OnlyWholeImages
  BY DEF Inv, Whole
<1> QED
  BY <1>1, Invariant, PTL

-----------------------------------------------------------------------------
(* A download that has returned.  Its END is the last of its frames in     *)
(* each direction: what the target has answered OK stays as it is until    *)
(* the next download.                                                      *)
Loading == {"START", "DATA"}

Carries(c, ops) == \E n \in DOMAIN c : c[n].op \in ops

Ended == \E n \in DOMAIN toClient : toClient[n].op = "END" /\ toClient[n].status = "OK"

Asked ==
  /\ want.op \in Loading => doing = "flash"
  /\ want.op = "END" => doing = "flash" /\ want.crc = image
  /\ doing = "flash" => want.op \in Loading \cup {"END"}

EndsLast ==
  \A n \in DOMAIN toTarget : toTarget[n].op = "END" =>
    /\ toTarget[n].crc = image
    /\ \A m \in DOMAIN toTarget : m > n => toTarget[m].op \notin Loading

NotYetEnded ==
  doing = "flash" /\ want.op # "END" => ~Carries(toTarget, {"END"}) /\ ~Ended

Loaded ==
  Ended \/ doing = "flashed" =>
    /\ Holds(image, Chunks[image]) /\ image_valid /\ state # "RECEIVING"
    /\ ~Carries(toTarget, Loading)

Statuses == {"OK", "BAD_STATE", "BAD_SEQ", "BAD_LENGTH", "CRC", "BAD_IMAGE"}
Responses ==
  [op : {"START", "DATA", "END", "PING", "BOOT", "ABORT"}, status : Statuses, seq : Nat]

Download ==
  /\ toClient \in Seq(Responses)
  /\ Asked /\ EndsLast /\ NotYetEnded /\ Loaded

(* What is left of a sequence after its head, and after one more element.  *)
LEMMA TailElements ==
  ASSUME NEW S, NEW s \in Seq(S), s # <<>>
  PROVE  /\ Tail(s) \in Seq(S) /\ Head(s) \in S /\ 1 \in DOMAIN s /\ Head(s) = s[1]
         /\ \A n \in DOMAIN Tail(s) : n \in Nat /\ n + 1 \in DOMAIN s /\ Tail(s)[n] = s[n + 1]
OBVIOUS

LEMMA AppendElements ==
  ASSUME NEW S, NEW s \in Seq(S), NEW x \in S
  PROVE  /\ Append(s, x) \in Seq(S) /\ Len(s) \in Nat
         /\ \A n \in DOMAIN s : n \in Nat /\ n <= Len(s)
         /\ \A n \in DOMAIN Append(s, x) :
              \/ n \in DOMAIN s /\ Append(s, x)[n] = s[n]
              \/ n = Len(s) + 1 /\ Append(s, x)[n] = x
OBVIOUS

(* Every request has an operation that an answer repeats. *)
LEMMA Operations ==
  /\ \A r \in Requests : r.op \in {"START", "DATA", "END", "PING", "BOOT", "ABORT"}
  /\ \A r \in Requests : r.op = "DATA" => r.seq \in Nat
BY CanBootAssumption DEF Requests

-----------------------------------------------------------------------------
(* A frame that leaves the bus on its way to the target disturbs nothing.  *)
LEMMA RequestGone ==
  ASSUME ClientTypes, EndsLast, toTarget # <<>>, toTarget' = Tail(toTarget), UNCHANGED client
  PROVE  /\ EndsLast'
         /\ \A ops : Carries(toTarget', ops) => Carries(toTarget, ops)
<1>1. \A n \in DOMAIN toTarget' :
        n \in Nat /\ n + 1 \in DOMAIN toTarget /\ toTarget'[n] = toTarget[n + 1]
  BY TailElements DEF ClientTypes
<1>2. ASSUME NEW ops, Carries(toTarget', ops)
      PROVE  Carries(toTarget, ops)
  BY <1>1, <1>2 DEF Carries
<1>3. ASSUME NEW n \in DOMAIN toTarget', toTarget'[n].op = "END"
      PROVE  /\ toTarget'[n].crc = image
             /\ \A m \in DOMAIN toTarget' : m > n => toTarget'[m].op \notin Loading
  <2>1. /\ toTarget[n + 1].crc = image
        /\ \A m \in DOMAIN toTarget : m > n + 1 => toTarget[m].op \notin Loading
    BY <1>1, <1>3 DEF EndsLast
  <2>2. ASSUME NEW m \in DOMAIN toTarget', m > n
        PROVE  toTarget'[m].op \notin Loading
    <3>1. m + 1 \in DOMAIN toTarget /\ m + 1 > n + 1 /\ toTarget'[m] = toTarget[m + 1]
      BY <1>1, <2>2
    <3> QED
      BY <2>1, <3>1
  <2> QED
    BY <1>1, <2>1, <2>2
<1>4. image' = image
  BY DEF client
<1> QED
  BY <1>2, <1>3, <1>4 DEF EndsLast

(* What handling any frame does to the bus. *)
LEMMA HandledBus ==
  ASSUME ClientTypes, Download, NEW op, Handles(op),
         NEW status \in Statuses, Answer(status)
  PROVE  /\ toClient' \in Seq(Responses) /\ Asked' /\ EndsLast' /\ NotYetEnded'
         /\ ~Carries(toTarget, Loading) => ~Carries(toTarget', Loading) /\ op \notin Loading
         /\ op = "END" => Request1.crc = image /\ ~Carries(toTarget', Loading)
         /\ Ended' => Ended \/ (op = "END" /\ status = "OK")
<1> DEFINE a == [op |-> Request1.op, status |-> status,
                 seq |-> IF Request1.op = "DATA" THEN Request1.seq ELSE 0]
<1>1. /\ toTarget # <<>> /\ toTarget' = Tail(toTarget) /\ UNCHANGED client
      /\ Request1.op = op /\ toClient' = Append(toClient, a)
  BY DEF Handles, Answer
<1>2. Request1 \in Requests /\ 1 \in DOMAIN toTarget /\ Request1 = toTarget[1]
  BY <1>1, TailElements DEF ClientTypes, Request1
<1>3. a \in Responses
  <2>1. Request1.op \in {"START", "DATA", "END", "PING", "BOOT", "ABORT"}
    BY <1>2, Operations
  <2>2. (IF Request1.op = "DATA" THEN Request1.seq ELSE 0) \in Nat
    BY <1>2, Operations
  <2> QED
    BY <2>1, <2>2 DEF Responses
<1>4. /\ toClient' \in Seq(Responses)
      /\ \A n \in DOMAIN toClient' :
           \/ n \in DOMAIN toClient /\ toClient'[n] = toClient[n]
           \/ toClient'[n] = a
  <2> HIDE DEF a
  <2> QED
    BY <1>1, <1>3, AppendElements DEF Download
<1>5. Ended' => Ended \/ (op = "END" /\ status = "OK")
  BY <1>1, <1>4 DEF Ended
<1>6. EndsLast' /\ \A ops : Carries(toTarget', ops) => Carries(toTarget, ops)
  BY <1>1, RequestGone DEF Download
<1>7. Carries(toTarget, {op})
  BY <1>1, <1>2 DEF Carries
<1>8. Asked'
  BY <1>1 DEF Download, Asked, client
<1>9. NotYetEnded'
  BY <1>1, <1>5, <1>6, <1>7 DEF Download, NotYetEnded, client
<1>10. op = "END" => Request1.crc = image /\ ~Carries(toTarget', Loading)
  <2> SUFFICES ASSUME op = "END"
               PROVE  Request1.crc = image /\ ~Carries(toTarget', Loading)
    OBVIOUS
  <2>1. /\ Request1.crc = image
        /\ \A m \in DOMAIN toTarget : m > 1 => toTarget[m].op \notin Loading
    BY <1>1, <1>2 DEF Download, EndsLast
  <2>2. \A n \in DOMAIN toTarget' :
          n \in Nat /\ n \in 1 .. Len(toTarget') /\ n + 1 \in DOMAIN toTarget /\ toTarget'[n] = toTarget[n + 1]
    BY <1>1, TailElements DEF ClientTypes
  <2>3. \A n \in DOMAIN toTarget' : n + 1 > 1
    BY <2>2
  <2> QED
    BY <2>1, <2>2, <2>3 DEF Carries
<1>11. ~Carries(toTarget, Loading) => ~Carries(toTarget', Loading) /\ op \notin Loading
  BY <1>6, <1>1, <1>2 DEF Carries
<1> QED
  BY <1>4, <1>5, <1>6, <1>8, <1>9, <1>10, <1>11

LEMMA HandleDownload ==
  ASSUME Inv, Download, Handle
  PROVE  Download'
<1>0. ClientTypes
  BY DEF Inv
<1>1. CASE HandlePing \/ HandleBoot \/ HandleAbort
  <2>1. PICK op \in {"PING", "BOOT", "ABORT"}, status \in {"OK", "BAD_IMAGE"} :
          Handles(op) /\ Answer(status)
    BY <1>1 DEF HandlePing, HandleBoot, HandleAbort
  <2>2. /\ toClient' \in Seq(Responses) /\ Asked' /\ EndsLast' /\ NotYetEnded'
        /\ ~Carries(toTarget, Loading) => ~Carries(toTarget', Loading)
        /\ Ended' => Ended
    BY <1>0, <2>1, HandledBus DEF Statuses
  <2>3. UNCHANGED <<image, doing, region, image_valid>> /\ state' \in {state, "IDLE"}
    BY <1>1, <2>1 DEF HandlePing, HandleBoot, HandleAbort, Handles, client, session
  <2>4. Loaded'
    BY <2>2, <2>3 DEF Download, Loaded, Holds
  <2> QED
    BY <2>2, <2>4 DEF Download
<1>2. CASE HandleStart \/ HandleData
  <2>1. PICK op \in Loading, status \in {"OK", "BAD_STATE", "BAD_SEQ", "BAD_LENGTH"} :
          Handles(op) /\ Answer(status)
    BY <1>2 DEF HandleStart, HandleData, Loading
  <2>2. /\ toClient' \in Seq(Responses) /\ Asked' /\ EndsLast' /\ NotYetEnded'
        /\ Carries(toTarget, Loading)
        /\ Ended' => Ended
    <3>1. op # "END"
      BY DEF Loading
    <3> QED
      BY <1>0, <2>1, <3>1, HandledBus DEF Statuses
  <2>3. UNCHANGED doing
    BY <2>1 DEF Handles, client
  <2>4. Loaded'
    BY <2>2, <2>3 DEF Download, Loaded
  <2> QED
    BY <2>2, <2>4 DEF Download
<1>3. CASE HandleEnd
  <2>1. Handles("END") /\ UNCHANGED <<received, region>> /\ UNCHANGED <<image, doing>>
    BY <1>3 DEF HandleEnd, Handles, client
  <2>2. CASE \E status \in {"BAD_STATE", "BAD_LENGTH"} :
               Answer(status) /\ UNCHANGED <<state, image_valid>>
    <3>1. /\ toClient' \in Seq(Responses) /\ Asked' /\ EndsLast' /\ NotYetEnded'
          /\ ~Carries(toTarget', Loading) /\ (Ended' => Ended)
      BY <1>0, <2>1, <2>2, HandledBus DEF Statuses
    <3> QED
      BY <2>1, <2>2, <3>1 DEF Download, Loaded, Holds
  <2>3. CASE state = "RECEIVING" /\ \E status \in {"CRC", "BAD_IMAGE"} : Answer(status)
    <3>1. /\ toClient' \in Seq(Responses) /\ Asked' /\ EndsLast' /\ NotYetEnded'
          /\ (Ended' => Ended)
      BY <1>0, <2>1, <2>3, HandledBus DEF Statuses
    <3> QED
      BY <2>1, <2>3, <3>1 DEF Download, Loaded
  <2>4. CASE /\ Chunks[Request1.crc] = received /\ Holds(Request1.crc, received)
             /\ Answer("OK") /\ image_valid' /\ state' = "COMPLETE"
    <3>1. /\ toClient' \in Seq(Responses) /\ Asked' /\ EndsLast' /\ NotYetEnded'
          /\ ~Carries(toTarget', Loading) /\ Request1.crc = image
      BY <1>0, <2>1, <2>4, HandledBus DEF Statuses
    <3>2. Holds(image, Chunks[image])'
      BY <2>1, <2>4, <3>1 DEF Holds
    <3> QED
      BY <2>4, <3>1, <3>2 DEF Download, Loaded
  <2> QED
    BY <1>3, <2>2, <2>3, <2>4 DEF HandleEnd
<1> QED
  BY <1>1, <1>2, <1>3 DEF Handle

(* A request put on the bus: END is sent for this image, and START and     *)
(* DATA only before any END.                                               *)
LEMMA Sending ==
  ASSUME ClientTypes, EndsLast, NEW r \in Requests, toTarget' = Append(toTarget, r),
         r.op = "END" => r.crc = image,
         r.op \in Loading => ~Carries(toTarget, {"END"}),
         UNCHANGED image
  PROVE  /\ EndsLast'
         /\ \A ops : Carries(toTarget', ops) => Carries(toTarget, ops) \/ r.op \in ops
<1>1. /\ Len(toTarget) \in Nat
      /\ \A n \in DOMAIN toTarget : n \in Nat /\ n <= Len(toTarget)
      /\ \A n \in DOMAIN toTarget' :
           \/ n \in DOMAIN toTarget /\ toTarget'[n] = toTarget[n]
           \/ n = Len(toTarget) + 1 /\ toTarget'[n] = r
  BY AppendElements DEF ClientTypes
<1>2. ASSUME NEW n \in DOMAIN toTarget', toTarget'[n].op = "END"
      PROVE  /\ toTarget'[n].crc = image
             /\ \A m \in DOMAIN toTarget' : m > n => toTarget'[m].op \notin Loading
  <2>1. CASE n \in DOMAIN toTarget /\ toTarget'[n] = toTarget[n]
    <3>1. Carries(toTarget, {"END"})
      BY <1>2, <2>1 DEF Carries
    <3>2. ASSUME NEW m \in DOMAIN toTarget', m > n
          PROVE  toTarget'[m].op \notin Loading
      BY <1>1, <1>2, <2>1, <3>1, <3>2 DEF EndsLast
    <3> QED
      BY <1>2, <2>1, <3>2 DEF EndsLast
  <2>2. CASE n = Len(toTarget) + 1 /\ toTarget'[n] = r
    <3>1. ASSUME NEW m \in DOMAIN toTarget' PROVE ~(m > n)
      BY <1>1, <2>2
    <3> QED
      BY <1>2, <2>2, <3>1
  <2> QED
    BY <1>1, <2>1, <2>2
<1>3. ASSUME NEW ops, Carries(toTarget', ops)
      PROVE  Carries(toTarget, ops) \/ r.op \in ops
  BY <1>1, <1>3 DEF Carries
<1> QED
  BY <1>2, <1>3 DEF EndsLast

(* Operations of the requests, and that no request is NoRequest. *)
LEMMA SentOperations ==
  /\ \A i \in Images : StartRequest(i).op = "START" /\ EndRequest(i).op = "END" /\ EndRequest(i).crc = i
  /\ \A i \in Images, k \in Nat : DataRequest(i, k).op = "DATA"
  /\ \A op \in {"PING", "BOOT", "ABORT"} : Request(op).op = op
  /\ NoRequest.op = "none"
BY DEF StartRequest, EndRequest, DataRequest, Request, NoRequest

(* A call begins: a download on its own socket, or another call.           *)
LEMMA BeginDownload ==
  ASSUME Inv, Download, OwnSocket, (\E i \in Images : Flash(i)) \/ Boot \/ Ping \/ Abort
  PROVE  Download'
<1>1. ASSUME NEW i \in Images, Flash(i)
      PROVE  Download'
  <2>1. /\ doing' = "flash" /\ want' = StartRequest(i) /\ image' = i /\ toClient' = <<>>
        /\ toTarget' = Append(toTarget, StartRequest(i)) /\ toTarget = <<>>
    BY <1>1 DEF Flash, Begin, Send
  <2>2. toTarget' = <<StartRequest(i)>>
    BY <2>1
  <2>3. toClient' \in Seq(Responses) /\ ~Ended'
    BY <2>1 DEF Ended
  <2>4. \A n \in DOMAIN toTarget' : toTarget'[n].op = "START"
    BY <2>2, SentOperations
  <2>5. EndsLast' /\ ~Carries(toTarget', {"END"})
    BY <2>4 DEF EndsLast, Carries
  <2>6. Asked'
    BY <2>1, SentOperations DEF Asked, Loading
  <2> QED
    BY <2>1, <2>3, <2>5, <2>6 DEF Download, NotYetEnded, Loaded
<1>2. CASE Boot \/ Ping \/ Abort
  <2>1. PICK op \in {"BOOT", "PING", "ABORT"} :
          /\ doing' # "flash" /\ doing' # "flashed" /\ want' = Request(op)
          /\ toTarget' = Append(toTarget, Request(op))
          /\ UNCHANGED <<image, toClient, target>>
    BY <1>2 DEF Boot, Ping, Abort, Begin, Send
  <2>2. Request(op) \in Requests /\ Request(op).op = op /\ op \notin Loading /\ op # "END"
    BY SentAreRequests, SentOperations DEF Loading
  <2>3. EndsLast' /\ (Carries(toTarget', Loading) => Carries(toTarget, Loading))
    BY <2>1, <2>2, Sending DEF Inv, Download
  <2>4. toClient' \in Seq(Responses) /\ (Ended' => Ended)
    BY <2>1 DEF Download, Ended
  <2>5. Asked'
    BY <2>1, <2>2 DEF Asked
  <2>6. Loaded'
    BY <2>1, <2>3, <2>4 DEF Download, Loaded, target, session, Holds
  <2> QED
    BY <2>1, <2>3, <2>4, <2>5, <2>6 DEF Download, NotYetEnded
<1> QED
  BY <1>1, <1>2

(* The request is sent again, or the call fails. *)
LEMMA RetryDownload ==
  ASSUME Inv, Download, want # NoRequest, Retry
  PROVE  Download'
<1>1. CASE toTarget' = Append(toTarget, want) /\ UNCHANGED <<doing, image, offset, want>>
  <2>1. want \in Requests
    BY DEF Inv, ClientTypes
  <2>2. want.op \in Loading => doing = "flash" /\ want.op # "END"
    BY DEF Download, Asked, Loading
  <2>3. /\ EndsLast'
        /\ \A ops : Carries(toTarget', ops) => Carries(toTarget, ops) \/ want.op \in ops
    BY <1>1, <2>1, <2>2, Sending DEF Inv, Download, Asked, NotYetEnded
  <2>4. toClient' \in Seq(Responses) /\ UNCHANGED <<doing, image, want, region, state, image_valid>>
        /\ (Ended' => Ended)
    BY <1>1 DEF Retry, Download, target, session, Ended
  <2>5. Asked' /\ NotYetEnded'
    BY <2>3, <2>4 DEF Download, Asked, NotYetEnded
  <2>6. want.op \in Loading => ~(Ended \/ doing = "flashed")
    BY <2>2 DEF Download, NotYetEnded
  <2>7. Loaded'
    BY <2>3, <2>4, <2>6 DEF Download, Loaded, Holds
  <2> QED
    BY <2>3, <2>4, <2>5, <2>7 DEF Download
<1>2. CASE End("failed")
  <2>1. /\ doing' = "failed" /\ want' = NoRequest
        /\ UNCHANGED <<image, toTarget, toClient, region, state, image_valid>>
    BY <1>2 DEF End, Retry, target, session
  <2> QED
    BY <2>1, SentOperations
       DEF Download, Asked, EndsLast, NotYetEnded, Loaded, Ended, Holds, Loading
<1> QED
  BY <1>1, <1>2 DEF Retry

(* An answer arrives. *)
LEMMA ReceiveDownload ==
  ASSUME Inv, Download, Receive
  PROVE  Download'
<1> DEFINE r == Head(toClient)
<1>1. /\ toClient # <<>> /\ toClient' = Tail(toClient)
      /\ UNCHANGED <<region, state, image_valid>>
  BY DEF Receive, target, session
<1>2. /\ toClient' \in Seq(Responses) /\ 1 \in DOMAIN toClient /\ r = toClient[1]
      /\ \A n \in DOMAIN toClient' : n + 1 \in DOMAIN toClient /\ toClient'[n] = toClient[n + 1]
  BY <1>1, TailElements DEF Download
<1>3. Ended' => Ended
  BY <1>2 DEF Ended
<1>4. CASE UNCHANGED <<client, toTarget>>
  BY <1>1, <1>2, <1>3, <1>4
     DEF Download, Asked, EndsLast, NotYetEnded, Loaded, Holds, client
<1>5. CASE End("failed") \/ End("none")
  <2>1. /\ doing' \in {"failed", "none"} /\ want' = NoRequest /\ UNCHANGED <<image, toTarget>>
    BY <1>5 DEF End
  <2> QED
    BY <1>1, <1>2, <1>3, <2>1, SentOperations
       DEF Download, Asked, EndsLast, NotYetEnded, Loaded, Holds, Loading
<1>6. CASE want.op = "END" /\ Matches(r) /\ r.status = "OK" /\ End("flashed")
  <2>1. Ended
    BY <1>2, <1>6 DEF Ended, Matches
  <2>2. /\ doing' = "flashed" /\ want' = NoRequest /\ UNCHANGED <<image, toTarget>>
    BY <1>6 DEF End
  <2> QED
    BY <1>1, <1>2, <2>1, <2>2, SentOperations
       DEF Download, Asked, EndsLast, NotYetEnded, Loaded, Holds, Loading
<1>7. ASSUME NEW k \in Nat, k <= Chunks[image], want.op \in Loading, SendChunk(k)
      PROVE  Download'
  <2>1. doing = "flash" /\ ~Carries(toTarget, {"END"}) /\ ~Ended /\ UNCHANGED <<doing, image>>
    BY <1>7 DEF Download, Asked, NotYetEnded, Loading, SendChunk
  <2>2. PICK q \in Requests :
          /\ want' = q /\ toTarget' = Append(toTarget, q)
          /\ q.op = "DATA" \/ (q.op = "END" /\ q.crc = image)
    BY <1>7, SentAreRequests, SentOperations, CanBootAssumption
       DEF SendChunk, Send, Inv, ClientTypes
  <2>3. /\ EndsLast'
        /\ \A ops : Carries(toTarget', ops) => Carries(toTarget, ops) \/ q.op \in ops
    BY <2>1, <2>2, Sending DEF Inv, Download
  <2> QED
    BY <1>2, <1>3, <2>1, <2>2, <2>3 DEF Download, Asked, NotYetEnded, Loaded, Loading
<1>8. \/ UNCHANGED <<client, toTarget>>
      \/ End("failed") \/ End("none")
      \/ want.op = "END" /\ Matches(r) /\ r.status = "OK" /\ End("flashed")
      \/ want.op = "START" /\ SendChunk(0)
      \/ want.op = "DATA" /\ SendChunk(offset + 1)
  BY Zenon DEF Receive
<1>9. /\ 0 \in Nat /\ 0 <= Chunks[image]
      /\ offset + 1 \in Nat /\ (want.op = "DATA" => offset + 1 <= Chunks[image])
  BY CanBootAssumption DEF Inv, ClientTypes
<1> QED
  BY <1>4, <1>5, <1>6, <1>7, <1>8, <1>9 DEF Loading

(* The target starts over: what was complete is found again in the window. *)
LEMMA RestartDownload ==
  ASSUME Inv, Download, NEW ask, Restart(ask),
         toClient' = <<Announcement>> \/ toClient' = Append(toClient, Announcement)
  PROVE  Download'
<1>1. /\ state' = "IDLE" /\ image_valid' = Verified(Window) /\ toTarget' = <<>>
      /\ UNCHANGED <<doing, image, offset, want, region>>
  BY DEF Restart, client
<1>2. Announcement \in Responses /\ Announcement.op # "END"
  BY DEF Announcement, Responses, Statuses
<1>3. toClient' \in Seq(Responses) /\ (Ended' => Ended)
  <2>1. CASE toClient' = <<Announcement>>
    BY <1>2, <2>1 DEF Ended
  <2>2. CASE toClient' = Append(toClient, Announcement)
    <3>1. /\ toClient' \in Seq(Responses)
          /\ \A n \in DOMAIN toClient' :
               \/ n \in DOMAIN toClient /\ toClient'[n] = toClient[n]
               \/ toClient'[n] = Announcement
      BY <1>2, <2>2, AppendElements DEF Download
    <3> QED
      BY <1>2, <3>1 DEF Ended
  <2> QED
    BY <2>1, <2>2
<1>4. Holds(image, Chunks[image]) => Verified(Window)
  BY CanBootAssumption DEF Verified, Inv, ClientTypes
<1>5. EndsLast' /\ \A ops : ~Carries(toTarget', ops)
  BY <1>1 DEF EndsLast, Carries
<1>6. Asked' /\ NotYetEnded'
  BY <1>1, <1>3, <1>5 DEF Download, Asked, NotYetEnded
<1>7. Loaded'
  BY <1>1, <1>3, <1>4, <1>5 DEF Download, Loaded, Holds
<1> QED
  BY <1>3, <1>5, <1>6, <1>7 DEF Download

(* A download that satlink-hkc has finished, however often its frames were *)
(* sent again, late or lost, and whatever is asked of the target after it: *)
(* its image is in the window, and verified.                               *)
THEOREM FlashedIsSentRun ==
  ASSUME OwnSocket
  PROVE  Spec => []FlashedIsSent
<1>1. Init => Download
  <2> SUFFICES ASSUME Init PROVE Download
    OBVIOUS
  <2>1. /\ doing = "none" /\ want = NoRequest /\ toTarget = <<>> /\ toClient = <<>>
    BY DEF Init
  <2>2. toClient \in Seq(Responses) /\ ~Ended
    BY <2>1 DEF Ended
  <2> QED
    BY <2>1, <2>2, SentOperations
       DEF Download, Asked, EndsLast, NotYetEnded, Loaded, Loading, Carries
<1>2. Inv /\ Download /\ [Next]_vars => Download'
  <2> SUFFICES ASSUME Inv, Download, [Next]_vars PROVE Download'
    OBVIOUS
  <2>1. CASE Handle
    BY <2>1, HandleDownload
  <2>2. CASE (\E i \in Images : Flash(i)) \/ Boot \/ Ping \/ Abort
    BY <2>2, BeginDownload
  <2>3. CASE Receive
    BY <2>3, ReceiveDownload
  <2>4. CASE Timeout \/ EarlyTimeout
    BY <2>4, RetryDownload DEF Timeout, EarlyTimeout
  <2>5. CASE EnterBoot \/ Reset
    BY <2>5, RestartDownload DEF EnterBoot, Reset
  <2>6. CASE AppIgnores \/ LoseRequest
    <3>1. /\ toTarget # <<>> /\ toTarget' = Tail(toTarget)
          /\ UNCHANGED client /\ UNCHANGED <<toClient, region, state, image_valid>>
      BY <2>6 DEF AppIgnores, LoseRequest, target, session
    <3>2. EndsLast' /\ \A ops : Carries(toTarget', ops) => Carries(toTarget, ops)
      BY <3>1, RequestGone DEF Inv, Download
    <3> QED
      BY <3>1, <3>2 DEF Download, Asked, NotYetEnded, Loaded, Ended, Holds, client
  <2>7. CASE LoseResponse
    <3>1. /\ toClient # <<>> /\ toClient' = Tail(toClient)
          /\ UNCHANGED client /\ UNCHANGED <<toTarget, region, state, image_valid>>
      BY <2>7 DEF LoseResponse, target, session
    <3>2. toClient' \in Seq(Responses) /\ (Ended' => Ended)
      BY <3>1, TailElements DEF Download, Ended
    <3> QED
      BY <3>1, <3>2 DEF Download, Asked, EndsLast, NotYetEnded, Loaded, Holds, client
  <2>8. CASE Autoboot \/ UNCHANGED vars
    <3>1. UNCHANGED client /\ UNCHANGED <<toTarget, toClient, region, state, image_valid>>
      BY <2>8 DEF Autoboot, vars, target, session
    <3> QED
      BY <3>1 DEF Download, Asked, EndsLast, NotYetEnded, Loaded, Ended, Holds, client
  <2> QED
    BY <2>1, <2>2, <2>3, <2>4, <2>5, <2>6, <2>7, <2>8 DEF Next, Client
<1>3. Download => FlashedIsSent
  BY DEF Download, Loaded, FlashedIsSent
<1> QED
  BY <1>1, <1>2, <1>3, Invariant, PTL DEF Spec

-----------------------------------------------------------------------------
(* The application of the HKC (Hkc).                                       *)
Clock == 0 .. Wrap - 1

(* Records of the loop and of the application. *)
MainForms ==
  /\ cpu = [runs |-> cpu.runs, at |-> cpu.at, todo |-> cpu.todo, last |-> cpu.last]
  /\ app = [period |-> app.period, next |-> app.next, flags |-> app.flags, led |-> app.led,
            boot |-> app.boot]

(* The loop has a STATUS to send, at most behind two frames; or an answer. *)
Reporting(todo) ==
  \E f : /\ f.id = "status"
         /\ \/ todo = <<f>>
            \/ todo = <<[id |-> "supply"], f>>
            \/ todo = <<[id |-> "env"], [id |-> "supply"], f>>
Answering(todo) == \E f : f.id = "ack" /\ todo = <<f>>

Counting ==
  /\ app.period \in Periods /\ now \in Clock
  /\ \/ /\ Reporting(cpu.todo)
        /\ app.next = (now + app.period) % Wrap /\ owed >= -1 /\ owed \in Int
     \/ /\ cpu.todo = <<>> \/ Answering(cpu.todo)
        /\ owed \in -1 .. app.period /\ app.next = (now + owed) % Wrap
        /\ cpu.last = now => owed >= 0

OnSchedule == MainForms /\ (cpu.runs = "app" => Counting)

LEMMA Tails ==
  /\ \A a : Tail(<<a>>) = <<>> /\ Head(<<a>>) = a
  /\ \A a, b : Tail(<<a, b>>) = <<b>> /\ Head(<<a, b>>) = a
  /\ \A a, b, c : Tail(<<a, b, c>>) = <<b, c>> /\ Head(<<a, b, c>>) = a
OBVIOUS

LEMMA ReportIsNoAnswer ==
  ASSUME NEW todo, Reporting(todo) PROVE todo # <<>> /\ ~Answering(todo)
<1>1. PICK f : /\ f.id = "status"
               /\ \/ todo = <<f>>
                  \/ todo = <<[id |-> "supply"], f>>
                  \/ todo = <<[id |-> "env"], [id |-> "supply"], f>>
  BY DEF Reporting
<1>2. Len(todo) > 0 /\ todo[Len(todo)] = f
  <2>1. CASE todo = <<f>>
    BY <2>1
  <2>2. CASE todo = <<[id |-> "supply"], f>>
    BY <2>2
  <2>3. CASE todo = <<[id |-> "env"], [id |-> "supply"], f>>
    BY <2>3
  <2> QED
    BY <1>1, <2>1, <2>2, <2>3
<1>3. ASSUME NEW g, todo = <<g>> PROVE g.id = "status"
  BY <1>1, <1>2, <1>3
<1> QED
  BY <1>2, <1>3 DEF Answering

LEMMA Rounds ==
  /\ Wrap \in Nat /\ Wrap > 4 /\ Default \in Periods
  /\ \A p \in Periods : p \in Nat /\ p > 0 /\ 2 * (p + 1) < Wrap
BY HkcAssumption

(* A time that has been reached, by one unit at most. *)
LEMMA ReachedInTime ==
  ASSUME NEW t \in Clock, NEW k \in {-1, 0}
  PROVE  Reached(t, (t + k) % Wrap)
BY Rounds DEF Reached, Clock

(* The clock goes on, also around its end. *)
LEMMA ClockTicks ==
  ASSUME NEW t \in Clock, NEW k \in Int, -1 <= k, k < Wrap
  PROVE  /\ (t + 1) % Wrap \in Clock /\ (t + 1) % Wrap # t
         /\ (((t + 1) % Wrap) + (k - 1)) % Wrap = (t + k) % Wrap
BY Rounds DEF Clock

LEMMA StartsOnSchedule ==
  ASSUME StartApp
  PROVE  OnSchedule'
<1>1. MainForms'
  BY DEF StartApp, InitApp, MainForms
<1>2. 0 \in Clock /\ (0 + 0) % Wrap = 0 /\ Default \in Nat
  BY Rounds DEF Clock
<1> QED
  BY <1>1, <1>2, Rounds DEF StartApp, InitApp, OnSchedule, Counting

LEMMA SendOnSchedule ==
  ASSUME OnSchedule, McpSend PROVE OnSchedule'
<1>1. MainForms'
  BY DEF McpSend, OnSchedule, MainForms
<1>2. /\ cpu' = [cpu EXCEPT !.todo = Tail(cpu.todo)] /\ app'.period = app.period
      /\ app'.next = app.next /\ now' = now
      /\ owed' = IF Head(cpu.todo).id = "status" THEN app.period ELSE owed
  BY DEF McpSend, OnSchedule, MainForms
<1>3. cpu'.todo = Tail(cpu.todo) /\ cpu'.last = cpu.last
  BY <1>2 DEF OnSchedule, MainForms
<1>4. Counting /\ cpu.todo # <<>>
  BY DEF McpSend, OnSchedule
<1>5. CASE Reporting(cpu.todo)
  <2>1. PICK f :
          /\ f.id = "status"
          /\ \/ cpu.todo = <<f>>
             \/ cpu.todo = <<[id |-> "supply"], f>>
             \/ cpu.todo = <<[id |-> "env"], [id |-> "supply"], f>>
    BY <1>5 DEF Reporting
  <2>2. app.period \in Nat /\ app.next = (now + app.period) % Wrap /\ owed \in Int /\ owed >= -1
    BY <1>4, <1>5, ReportIsNoAnswer, Rounds DEF Counting
  <2>3. CASE cpu.todo = <<f>>
    <3>1. cpu'.todo = <<>> /\ owed' = app.period
      BY <1>2, <1>3, <2>1, <2>3, Tails
    <3> QED
      BY <1>1, <1>2, <1>4, <2>2, <3>1 DEF OnSchedule, Counting
  <2>4. CASE cpu.todo # <<f>>
    <3>1. /\ cpu'.todo \in {<<f>>, <<[id |-> "supply"], f>>}
          /\ owed' = owed
      <4>1. CASE cpu.todo = <<[id |-> "supply"], f>>
        BY <1>2, <1>3, <4>1, Tails
      <4>2. CASE cpu.todo = <<[id |-> "env"], [id |-> "supply"], f>>
        BY <1>2, <1>3, <4>2, Tails
      <4> QED
        BY <2>1, <2>4, <4>1, <4>2
    <3>2. Reporting(cpu'.todo)
      BY <2>1, <3>1 DEF Reporting
    <3> QED
      BY <1>1, <1>2, <1>4, <2>2, <3>1, <3>2 DEF OnSchedule, Counting
  <2> QED
    BY <2>3, <2>4
<1>6. CASE ~Reporting(cpu.todo)
  <2>1. PICK f : f.id = "ack" /\ cpu.todo = <<f>>
    BY <1>4, <1>6 DEF Counting, Answering
  <2>2. cpu'.todo = <<>> /\ owed' = owed
    BY <1>2, <1>3, <2>1, Tails
  <2> QED
    BY <1>1, <1>2, <1>3, <1>4, <1>6, <2>2 DEF OnSchedule, Counting
<1> QED
  BY <1>5, <1>6

(* HandleCommand gives back the application's record; the period is one    *)
(* that is allowed, and a new one starts now.                              *)
LEMMA Commands ==
  ASSUME MainForms, NEW c
  PROVE  LET a == HandleCommand(c)[1]
         IN  /\ a = [period |-> a.period, next |-> a.next, flags |-> a.flags, led |-> a.led,
                     boot |-> a.boot]
             /\ IF c.op = "SET_PERIOD" /\ c.arg \in Periods
                  THEN a.period = c.arg /\ a.next = now
                  ELSE a.period = app.period /\ a.next = app.next
<1> DEFINE Same(a) ==
             /\ a = [period |-> a.period, next |-> a.next, flags |-> a.flags, led |-> a.led,
                     boot |-> a.boot]
             /\ a.period = app.period /\ a.next = app.next
           yes == TRUE
           a == HandleCommand(c)[1]
<1>1. CASE c.op = "SET_PERIOD" /\ c.arg \in Periods
  <2>1. a = [app EXCEPT !.period = c.arg, !.next = now]
    BY <1>1 DEF HandleCommand
  <2> DEFINE o == [app EXCEPT !.period = c.arg]
  <2>2. a = [o EXCEPT !.next = now]
    BY <2>1
  <2>3. o = [period |-> c.arg, next |-> app.next, flags |-> app.flags, led |-> app.led,
             boot |-> app.boot]
    BY DEF MainForms
  <2> HIDE DEF a, o
  <2>4. a = [period |-> c.arg, next |-> now, flags |-> app.flags, led |-> app.led,
             boot |-> app.boot]
    BY <2>2, <2>3
  <2> QED
    BY <1>1, <2>4 DEF a
<1>2. CASE c.op # "SET_PERIOD" \/ c.arg \notin Periods
  <2> HIDE DEF yes
  <2>1. Same(app)
    BY DEF MainForms
  <2>2. Same([app EXCEPT !.boot = yes])
    BY DEF MainForms
  <2>3. Same([app EXCEPT !.led = "override"]) /\ Same([app EXCEPT !.flags = {}])
    BY DEF MainForms
  <2>4. a \in {app, [app EXCEPT !.boot = yes], [app EXCEPT !.led = "override"],
              [app EXCEPT !.flags = {}]}
    BY <1>2 DEF HandleCommand, yes
  <2> HIDE DEF Same
  <2>5. Same(a)
    BY <2>1, <2>2, <2>3, <2>4
  <2> QED
    BY <1>2, <2>5 DEF Same
<1> QED
  BY <1>1, <1>2

LEMMA ReceiveOnSchedule ==
  ASSUME OnSchedule, McpReceive PROVE OnSchedule'
<1>1. PICK f : OnFrame(f)
  BY DEF McpReceive
<1>2. /\ Counting /\ cpu.todo = <<>> /\ cpu.runs = "app" /\ UNCHANGED now
      /\ MainForms
  BY DEF McpReceive, Running, OnSchedule
<1>3. /\ owed \in -1 .. app.period /\ app.next = (now + owed) % Wrap
      /\ cpu.last = now => owed >= 0
  BY <1>2, ReportIsNoAnswer DEF Counting
<1>4. CASE f.id # "command"
  BY <1>1, <1>2, <1>4 DEF OnFrame, OnSchedule, MainForms, Counting
<1>5. CASE f.id = "command"
  <2> DEFINE r == HandleCommand(f)
  <2>1. /\ app' = r[1] /\ cpu' = [cpu EXCEPT !.todo = <<Ack(r[2])>>]
        /\ owed' = IF f.op = "SET_PERIOD" /\ f.arg \in Periods THEN 0 ELSE owed
    BY <1>1, <1>5 DEF OnFrame
  <2>2. /\ r[1] = [period |-> r[1].period, next |-> r[1].next, flags |-> r[1].flags,
                   led |-> r[1].led, boot |-> r[1].boot]
        /\ IF f.op = "SET_PERIOD" /\ f.arg \in Periods
             THEN r[1].period = f.arg /\ r[1].next = now
             ELSE r[1].period = app.period /\ r[1].next = app.next
    BY <1>2, Commands
  <2>3. Answering(<<Ack(r[2])>>)
    BY DEF Answering, Ack
  <2> HIDE DEF r
  <2>4. /\ cpu' = [runs |-> cpu'.runs, at |-> cpu'.at, todo |-> cpu'.todo, last |-> cpu'.last]
        /\ cpu'.todo = <<Ack(r[2])>> /\ cpu'.last = cpu.last
    BY <1>2, <2>1 DEF MainForms
  <2>5. MainForms'
    BY <2>1, <2>2, <2>4 DEF MainForms
  <2>6. CASE f.op = "SET_PERIOD" /\ f.arg \in Periods
    <3>1. app'.period \in Periods /\ app'.next = now /\ owed' = 0
      BY <2>1, <2>2, <2>6
    <3>2. owed' \in -1 .. app'.period /\ app'.next = (now + owed') % Wrap
      <4>1. now \in Clock
        BY <1>2 DEF Counting
      <4>2. (now + 0) % Wrap = now
        BY <4>1, Rounds DEF Clock
      <4>3. app'.period \in Nat
        BY <3>1, Rounds
      <4> QED
        BY <3>1, <4>2, <4>3
    <3> QED
      BY <1>2, <2>3, <2>4, <2>5, <3>1, <3>2 DEF OnSchedule, Counting
  <2>7. CASE ~(f.op = "SET_PERIOD" /\ f.arg \in Periods)
    BY <1>2, <1>3, <2>1, <2>2, <2>3, <2>4, <2>5, <2>7 DEF OnSchedule, Counting
  <2> QED
    BY <2>6, <2>7
<1> QED
  BY <1>4, <1>5

LEMMA DrainedOnSchedule ==
  ASSUME OnSchedule, Drained PROVE OnSchedule'
<1>1. /\ cpu' = [runs |-> cpu.runs, at |-> cpu'.at, todo |-> cpu.todo, last |-> cpu.last]
      /\ app' = [period |-> app.period, next |-> app.next, flags |-> app'.flags,
                 led |-> app.led, boot |-> app.boot]
      /\ UNCHANGED <<now, owed>>
  BY DEF Drained, history, OnSchedule, MainForms
<1> QED
  BY <1>1 DEF OnSchedule, MainForms, Counting

(* A report that is owed now, or was owed a unit ago, is due.              *)
LEMMA PollOnSchedule ==
  ASSUME OnSchedule, Poll PROVE OnSchedule'
<1>1. /\ Counting /\ MainForms /\ cpu.todo = <<>> /\ cpu.runs = "app"
  BY DEF Poll, Running, OnSchedule
<1>2. /\ owed \in -1 .. app.period /\ app.next = (now + owed) % Wrap
      /\ app.period \in Periods /\ now \in Clock
  BY <1>1, ReportIsNoAnswer DEF Counting
<1>3. CASE app.boot
  <2>1. EnterBootloader
    BY <1>3 DEF Poll
  <2> QED
    BY <2>1 DEF EnterBootloader, InitApp, OnSchedule, MainForms
<1>4. CASE ~app.boot
  <2> DEFINE due == Reached(now, app.next)
             f == Status(app)
             report == <<[id |-> "env"], [id |-> "supply"], f>>
  <2>1. /\ cpu' = [cpu EXCEPT !.at = "sleep", !.last = now,
                              !.todo = IF due THEN report ELSE <<>>]
        /\ app'.period = app.period
        /\ app'.next = IF due THEN (now + app.period) % Wrap ELSE app.next
        /\ app' = [period |-> app'.period, next |-> app'.next, flags |-> app'.flags,
                   led |-> app'.led, boot |-> app'.boot]
        /\ UNCHANGED <<now, owed>>
    BY <1>1, <1>4 DEF Poll, Later, MainForms
  <2>2. Reporting(report)
    BY DEF Reporting, Status
  <2> HIDE DEF due, report
  <2>3. /\ cpu' = [runs |-> cpu'.runs, at |-> cpu'.at, todo |-> cpu'.todo, last |-> cpu'.last]
        /\ cpu'.todo = (IF due THEN report ELSE <<>>) /\ cpu'.last = now
    BY <1>1, <2>1 DEF MainForms
  <2>4. MainForms'
    BY <2>1, <2>3 DEF MainForms
  <2>5. CASE due
    BY <1>2, <2>1, <2>2, <2>3, <2>4, <2>5, Rounds DEF OnSchedule, Counting
  <2>6. CASE ~due
    <3>1. owed \notin {-1, 0}
      BY <1>2, <2>6, ReachedInTime DEF due
    <3>2. owed >= 0
      BY <1>2, <3>1, Rounds
    <3> QED
      BY <1>2, <2>1, <2>3, <2>4, <2>6, <3>2 DEF OnSchedule, Counting
  <2> QED
    BY <2>5, <2>6
<1> QED
  BY <1>3, <1>4

LEMMA TickOnSchedule ==
  ASSUME OnSchedule, Tick PROVE OnSchedule'
<1>1. CASE cpu.runs # "app"
  BY <1>1 DEF Tick, OnSchedule, MainForms
<1>2. CASE cpu.runs = "app"
  <2>1. /\ cpu.todo = <<>> /\ cpu.last = now /\ Counting
        /\ now' = (now + 1) % Wrap /\ owed' = owed - 1 /\ UNCHANGED <<cpu, app>>
    BY <1>2 DEF Tick, Running, Later, OnSchedule
  <2>2. /\ owed \in 0 .. app.period /\ app.next = (now + owed) % Wrap
        /\ app.period \in Periods /\ now \in Clock
    BY <2>1, ReportIsNoAnswer, Rounds DEF Counting
  <2>3. owed \in Int /\ -1 <= owed /\ owed < Wrap /\ app.period \in Nat
    <3>1. app.period \in Nat /\ 2 * (app.period + 1) < Wrap
      BY <2>2, Rounds
    <3> QED
      BY <2>2, <3>1, Rounds
  <2>4. now' \in Clock /\ now' # now /\ (now' + owed') % Wrap = (now + owed) % Wrap
    BY <2>1, <2>2, <2>3, ClockTicks
  <2>5. owed' \in -1 .. app.period
    BY <2>1, <2>2, <2>3
  <2> QED
    BY <2>1, <2>2, <2>4, <2>5 DEF OnSchedule, MainForms, Counting
<1> QED
  BY <1>1, <1>2

(* The steps that leave the loop where it is, or end it.                   *)
LEMMA OthersOnSchedule ==
  ASSUME OnSchedule,
         \/ Wake \/ Hang \/ (\E f \in Frames : Arrive(f))
         \/ Transmit \/ Outage \/ Reconnect \/ WatchdogReset \/ Talk
         \/ UNCHANGED mainVars
  PROVE  OnSchedule'
<1>1. CASE WatchdogReset
  BY <1>1 DEF WatchdogReset, InitApp, OnSchedule, MainForms
<1>2. CASE Hang \/ Talk
  <2>1. /\ cpu'.runs # "app" /\ UNCHANGED app
        /\ cpu' = [runs |-> cpu'.runs, at |-> cpu'.at, todo |-> cpu'.todo, last |-> cpu'.last]
    BY <1>2 DEF Hang, Talk, OnSchedule, MainForms
  <2> QED
    BY <2>1 DEF OnSchedule, MainForms
<1>3. CASE Wake
  <2>1. /\ cpu' = [runs |-> cpu.runs, at |-> "drain", todo |-> cpu.todo, last |-> cpu.last]
        /\ UNCHANGED <<app, now, owed>>
    BY <1>3 DEF Wake, history, OnSchedule, MainForms
  <2> QED
    BY <2>1 DEF OnSchedule, MainForms, Counting
<1>4. CASE (\E f \in Frames : Arrive(f)) \/ Transmit \/ Outage \/ Reconnect
           \/ UNCHANGED mainVars
  <2>1. UNCHANGED <<cpu, app, now, owed>>
    BY <1>4 DEF Arrive, Transmit, Outage, Reconnect, history, mainVars
  <2> QED
    BY <2>1 DEF OnSchedule, MainForms, Counting
<1> QED
  BY <1>1, <1>2, <1>3, <1>4

(* A STATUS that is owed is never more than one unit late, for any periods *)
(* that are less than half the range of the clock and any wraps of it,     *)
(* commands, bursts and outages.                                           *)
THEOREM PeriodKeptAlways == MainSpec => []PeriodKept
<1>1. MainInit => OnSchedule
  <2> SUFFICES ASSUME MainInit PROVE OnSchedule
    OBVIOUS
  <2>1. 0 \in Clock /\ (0 + 0) % Wrap = 0 /\ Default \in Nat
    BY Rounds DEF Clock
  <2> QED
    BY <2>1, Rounds DEF MainInit, InitApp, OnSchedule, MainForms, Counting
<1>2. OnSchedule /\ [MainNext]_mainVars => OnSchedule'
  <2> SUFFICES ASSUME OnSchedule, [MainNext]_mainVars PROVE OnSchedule'
    OBVIOUS
  <2>1. CASE BootRequest \/ AutobootMain
    BY <2>1, StartsOnSchedule DEF BootRequest, AutobootMain
  <2> QED
    BY <2>1, SendOnSchedule, ReceiveOnSchedule, DrainedOnSchedule, PollOnSchedule,
       TickOnSchedule, OthersOnSchedule
       DEF MainNext, MainLoop
<1>3. OnSchedule => PeriodKept
  <2> SUFFICES ASSUME OnSchedule, cpu.runs = "app" PROVE owed >= -1
    BY DEF PeriodKept
  <2> QED
    BY Rounds DEF OnSchedule, Counting
<1> QED
  BY <1>1, <1>2, <1>3, PTL DEF MainSpec

-----------------------------------------------------------------------------
(* The bit timing (BitTiming).                                             *)
LEMMA LeastIn ==
  ASSUME NEW S \in SUBSET Nat, S # {}
  PROVE  \E m \in S : \A x \in S : m <= x
<1> DEFINE R == OpToRel(<, Nat)
<1>1. PICK m \in S : \A x \in S : ~(<<x, m>> \in R)
  BY NatLessThanWellFounded, WFMin
<1>2. \A x \in S : m <= x
  <2> SUFFICES ASSUME NEW x \in S PROVE m <= x
    OBVIOUS
  <2>1. ~(x < m)
    BY <1>1 DEF OpToRel
  <2> QED
    BY <2>1
<1> QED
  BY <1>2

(* Every number of quanta from 8 to 25 has its turn, and 8 to 23 quanta    *)
(* can be shared out.                                                      *)
LEMMA Turns ==
  /\ DOMAIN Order = 1 .. 18
  /\ \A i \in DOMAIN Order : Order[i] \in 8 .. 25
  /\ \A ntq \in 8 .. 23 : \E i \in DOMAIN Order : Order[i] = ntq
<1>1. DOMAIN Order = 1 .. 18
  BY DEF Order
<1>2. \A i \in 1 .. 18 : Order[i] \in 8 .. 25
  BY DEF Order
<1>3. /\ Order[1] = 16 /\ Order[4] = 23 /\ Order[5] = 22 /\ Order[6] = 21 /\ Order[7] = 20
      /\ Order[8] = 19 /\ Order[9] = 18 /\ Order[10] = 17 /\ Order[11] = 15 /\ Order[12] = 14
      /\ Order[13] = 13 /\ Order[14] = 12 /\ Order[15] = 11 /\ Order[16] = 10 /\ Order[17] = 9
      /\ Order[18] = 8
  BY DEF Order
<1>4. ASSUME NEW ntq \in 8 .. 23 PROVE \E i \in 1 .. 18 : Order[i] = ntq
  <2>1. ntq \in {8, 9, 10, 11, 12, 13, 14, 15, 16, 17, 18, 19, 20, 21, 22, 23}
    OBVIOUS
  <2> QED
    BY <1>3, <2>1
<1> QED
  BY <1>1, <1>2, <1>4

LEMMA Shares ==
  ASSUME NEW ntq \in 8 .. 25
  PROVE  /\ Prop(ntq) \in Int /\ Ps1(ntq) \in Int /\ Ps2(ntq) \in Int
         /\ 1 + Prop(ntq) + Ps1(ntq) + Ps2(ntq) = ntq
         /\ Prop(ntq) \in 2 .. 8 /\ Ps2(ntq) \in 2 .. 6 /\ Ps2(ntq) <= Prop(ntq) + Ps1(ntq)
         /\ ntq <= 23 => Ps1(ntq) \in 1 .. 8
BY DEF Prop, Ps1, Ps2, Rest

LEMMA QuantaFit ==
  ASSUME NEW ntq \in 8 .. 23
  PROVE  Registers(ntq)
<1>1. ntq \in 8 .. 25 /\ ntq <= 23
  OBVIOUS
<1>2. Prop(ntq) \in 2 .. 8 /\ Ps2(ntq) \in 2 .. 6 /\ Ps1(ntq) \in 1 .. 8
  BY <1>1, Shares
<1> QED
  BY <1>2 DEF Registers

(* A prescaler that divides the clock without rest gives the rate exactly. *)
LEMMA Exact ==
  ASSUME NEW clock \in Nat, NEW rate \in Nat \ {0}, NEW ntq \in 8 .. 25,
         Divides(clock, rate, ntq)
  PROVE  /\ Prescaler(clock, rate, ntq) \in 1 .. 64
         /\ 2 * Prescaler(clock, rate, ntq) * ntq * rate = clock
<1> DEFINE p == Prescaler(clock, rate, ntq)
           d == 2 * ntq * rate
<1>1. d \in Nat \ {0}
  OBVIOUS
<1>2. p = clock \div d /\ clock % d = 0 /\ p \in 1 .. 64
  BY DEF Divides, Prescaler
<1> HIDE DEF d
<1>3. d * p = clock
  BY <1>1, <1>2
<1> HIDE DEF p
<1>4. p \in Int /\ 2 * p * ntq * rate = (2 * ntq * rate) * p
  BY <1>2
<1> QED
  BY <1>2, <1>3, <1>4 DEF d, p

(* For every oscillator and every bit rate: what is returned fits into the *)
(* registers, is the rate exactly and obeys the rules of the chip, and no  *)
(* rate is refused that 8 to 23 quanta would give.                         *)
THEOREM RightTimingAlways == RightTiming
<1> SUFFICES ASSUME NEW clock \in Clocks, NEW rate \in Rates
             PROVE  IF Usable(clock, rate) = {}
                      THEN \A ntq \in 8 .. 23 : ~Divides(clock, rate, ntq)
                      ELSE LET t == Timing(clock, rate)
                           IN  /\ t.brp \in 0 .. 63 /\ t.prop \in 0 .. 7
                               /\ t.ps1 \in 0 .. 7 /\ t.ps2 \in 1 .. 7
                               /\ 2 * (t.brp + 1) * (1 + (t.prop + 1) + (t.ps1 + 1)
                                    + (t.ps2 + 1)) * rate = clock
                               /\ t.ps2 + 1 <= (t.prop + 1) + (t.ps1 + 1)
  BY DEF RightTiming
<1> DEFINE U == Usable(clock, rate)
<1>1. clock \in Nat /\ rate \in Nat \ {0}
  BY TimingAssumption
<1>2. CASE U = {}
  <2>1. ASSUME NEW ntq \in 8 .. 23, Divides(clock, rate, ntq) PROVE FALSE
    <3>1. PICK i \in DOMAIN Order : Order[i] = ntq
      BY Turns
    <3>2. i \in U
      BY <2>1, <3>1, QuantaFit DEF Usable
    <3> QED
      BY <1>2, <3>2
  <2> QED
    BY <1>2, <2>1
<1>3. CASE U # {}
  <2> DEFINE i == CHOOSE i \in U : \A j \in U : i <= j
             ntq == Order[i]
             t == Timing(clock, rate)
  <2>1. i \in U
    <3>1. U \in SUBSET Nat
      BY Turns DEF Usable
    <3> HIDE DEF U
    <3>2. \E m \in U : \A x \in U : m <= x
      BY <1>3, <3>1, LeastIn
    <3> QED
      BY <3>2
  <2>2. t = [brp |-> Prescaler(clock, rate, ntq) - 1, prop |-> Prop(ntq) - 1,
             ps1 |-> Ps1(ntq) - 1, ps2 |-> Ps2(ntq) - 1]
    BY DEF Timing
  <2> HIDE DEF i
  <2>3. ntq \in 8 .. 25 /\ Divides(clock, rate, ntq) /\ Registers(ntq)
    BY <2>1, Turns DEF Usable
  <2> HIDE DEF ntq, t
  <2> DEFINE p == Prescaler(clock, rate, ntq)
             r == Prop(ntq)
             a == Ps1(ntq)
             b == Ps2(ntq)
  <2>4. /\ p \in 1 .. 64 /\ 2 * p * ntq * rate = clock
        /\ 1 + r + a + b = ntq /\ r \in 2 .. 8 /\ b \in 2 .. 6 /\ b <= r + a /\ a \in 1 .. 8
    <3>1. p \in 1 .. 64 /\ 2 * p * ntq * rate = clock
      BY <1>1, <2>3, Exact
    <3>2. 1 + r + a + b = ntq /\ r \in 2 .. 8 /\ b \in 2 .. 6 /\ b <= r + a
      BY <2>3, Shares
    <3>3. a \in 1 .. 8
      BY <2>3 DEF Registers
    <3> QED
      BY <3>1, <3>2, <3>3
  <2> HIDE DEF p, r, a, b
  <2>5. /\ t.brp = p - 1 /\ t.prop = r - 1 /\ t.ps1 = a - 1 /\ t.ps2 = b - 1
        /\ t.brp + 1 = p /\ t.prop + 1 = r /\ t.ps1 + 1 = a /\ t.ps2 + 1 = b
    <3>1. t = [brp |-> p - 1, prop |-> r - 1, ps1 |-> a - 1, ps2 |-> b - 1]
      BY <2>2 DEF p, r, a, b
    <3> QED
      BY <2>4, <3>1
  <2>6. 2 * (t.brp + 1) * (1 + (t.prop + 1) + (t.ps1 + 1) + (t.ps2 + 1)) * rate = clock
    <3>1. 1 + (t.prop + 1) + (t.ps1 + 1) + (t.ps2 + 1) = ntq
      BY <2>4, <2>5
    <3>2. t.brp + 1 = p
      BY <2>5
    <3> QED
      BY <2>4, <3>1, <3>2
  <2>7. /\ t.brp \in 0 .. 63 /\ t.prop \in 0 .. 7 /\ t.ps1 \in 0 .. 7 /\ t.ps2 \in 1 .. 7
        /\ t.ps2 + 1 <= (t.prop + 1) + (t.ps1 + 1)
    BY <2>4, <2>5
  <2> QED
    BY <1>3, <2>6, <2>7 DEF t
<1> QED
  BY <1>2, <1>3

(* Whoever sets the chip up, in the application or after a reset, sets up  *)
(* a timing that is right, for all oscillators and all rates.              *)
THEOREM TimingRightAlways == MainSpec => TimingRight
<1>1. [MainNext]_mainVars => [cpu'.runs # cpu.runs /\ chip' = InitChip => RightTiming]_mainVars
  BY RightTimingAlways
<1> QED
  BY <1>1, PTL DEF MainSpec, TimingRight
==============================================================================
