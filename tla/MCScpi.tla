--------------------------------- MODULE MCScpi ---------------------------------
(***************************************************************************)
(* Small instance of the SCPI interface: messages that set, ask and fail,  *)
(* alone and in compound messages with relative headers.                   *)
(***************************************************************************)
EXTENDS Scpi

Unit(form, header, query, params) ==
  [form |-> form, header |-> header, query |-> query, params |-> params]
Make(header, params) == Unit("relative", header, FALSE, params)
Ask(header) == Unit("absolute", header, TRUE, <<>>)
Common(word, query) == Unit("common", <<word>>, query, <<>>)
Line(units) == [length |-> "fits", units |-> units]

MCLines ==
  {Line(<<Make(<<"MOD", "MODC">>, <<Num(9)>>), Make(<<"LOOP">>, <<>>)>>),
   Line(<<Make(<<"MOD", "ACM">>, <<Word("OFF")>>), Make(<<"ACM", "LIM">>, <<Num(1), Num(0)>>),
          Make(<<"MARG">>, <<Word("MIN")>>), Make(<<"HYST">>, <<Num(0)>>)>>),
   Line(<<Make(<<"MOD", "ACM", "LIM">>, <<Num(1), Word("MAX")>>), Make(<<"BAD">>, <<>>)>>),
   Line(<<Common("*RST", FALSE), Make(<<"PASS", "STAR">>, <<Num(1), Num(9), Word("BAD")>>),
          Make(<<"STAR">>, <<>>), Make(<<"MOD", "LOOP">>, <<Word("DIGital")>>)>>),
   Line(<<Make(<<"CHAN", "CLE">>, <<>>), Make(<<"ESN0">>, <<Num(0)>>),
          Make(<<"GAIN">>, <<Word("MIN")>>), Make(<<"PASS", "STOP">>, <<>>)>>),
   Line(<<Ask(<<"SYST", "ERR">>), Common("*ESR", TRUE)>>),
   Line(<<Common("*CLS", FALSE), Make(<<"MEAS", "RES">>, <<>>), Common("*OPC", FALSE),
          Make(<<"CHAN", "NOIS">>, <<Num(1)>>)>>),
   Line(<<Ask(<<"MOD", "ACM", "STAT">>), Ask(<<"MOD", "ACM", "LIM">>), Ask(<<"MOD", "LOOP">>),
          Ask(<<"CHAN", "GAIN">>), Ask(<<"PASS", "STAT">>), Ask(<<"MEAS", "COUN">>),
          Ask(<<"MEAS", "FER">>), Common("*STB", TRUE), Ask(<<"SYST", "ERR", "COUN">>),
          Ask(<<"SYST", "ERR", "ALL">>)>>),
   Line(<<Unit("common", <<"*ESE">>, FALSE, <<Num(1)>>), Common("*SRE", FALSE),
          Unit("malformed", <<"BAD">>, FALSE, <<>>),
          Make(<<"MOD", "ACM">>, <<Num(1), Word("empty")>>), Make(<<"ACM">>, <<Word("ON")>>)>>),
   Line(<<Ask(<<"MEAS", "BER">>)>>),
   Line(<<Make(<<"MOD", "REST">>, <<>>)>>),
   [length |-> "over 4096", units |-> <<>>], [length |-> "over 8192", units |-> <<>>]}

MCOptions == {[modcod |-> 1, loopback |-> "SOFTware", acm |-> TRUE]}

ClientSymmetry == Permutations(Clients)
================================================================================
