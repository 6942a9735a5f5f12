----------------------------- MODULE MCIpcRing ------------------------------
(***************************************************************************)
(* A ring of 8 words whose indices wrap after 16, messages of none and one *)
(* payload word (the word reads like a padding mark and the length is not  *)
(* aligned), one too long and one of the reserved type, and a data area    *)
(* that holds padding marks from before.                                   *)
(***************************************************************************)
EXTENDS IpcRing

MCMessages ==
  { [type |-> 1, len |-> 0, body |-> <<>>],
    [type |-> 2, len |-> 3, body |-> <<<<7, PadType>>>>],
    [type |-> 3, len |-> 8, body |-> <<<<1, 1>>, <<2, 2>>>>],
    [type |-> PadType, len |-> 0, body |-> <<>>] }

MCCaps == {2, 4}
MCStale == {<<0, PadType>>}
=============================================================================
