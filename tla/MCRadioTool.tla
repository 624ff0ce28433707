---------------------------- MODULE MCRadioTool ----------------------------
EXTENDS RadioToolInv

(* Keys short enough to repeat, of a length of their own each. *)
MCTables ==
  [n \in TableNames |->
     CASE n = "md380"   -> <<{0, 1, 5}, {7}>>
       [] n = "uv3x0"   -> <<{1, 2}, {3, 6}, {4}>>
       [] n = "cs800_0" -> <<{2, 3, 7}, {0, 6}>>
       [] OTHER         -> <<{4}>>]

MCFiles ==
  [f \in {"a", "b", "none"} |->
     CASE f = "a" -> <<{0}, {1, 7}, {}>>
       [] f = "b" -> <<{2, 4, 7}, Ones>>
       [] OTHER   -> <<>>]

Given(options) == [given |-> options, radio |-> "", segments |-> <<>>]

At(address, file) == [address |-> address, file |-> file]

Wrap(model, segments) ==
  [given |-> {"wrap", "out", "radio", "segment"}, radio |-> model,
   segments |-> segments]

Wraps ==
  {Wrap("MD380", <<At(0, "a")>>), Wrap("MD380", <<At(4, "b"), At(0, "a")>>),
   Wrap("MD446", <<At(0, "b"), At(0, "a")>>), Wrap("UV3X0", <<At(1, "a"), At(9, "none")>>),
   Wrap("UV3X0", <<At(0, "a"), At(3, "b"), At(5, "a")>>),
   Wrap("CS800", <<At(7, "a")>>), Wrap("CS800", <<At(0, "b")>>),
   Wrap("CS800", <<At(0, "a"), At(3, "b")>>), Wrap("CS800", <<At(0, "none")>>),
   Wrap("GD77", <<At(0, "a")>>), Wrap("GD77", <<At(0, "none")>>),
   Wrap("HD1", <<At(0, "a")>>), Wrap("CS900", <<At(0, "b")>>),
   Wrap("CS800", <<At(-1, "a")>>), Wrap("MD380", <<At(0, "a"), At(3, "lost")>>)}

MCInvocations ==
  Wraps \cup
  {Given(o) : o \in
     {{}, {"help", "wrap"}, {"list-radios"}, {"fw-info"}, {"fw-info", "in"},
      {"codeplug-info", "in"}, {"unwrap", "in"}, {"unwrap", "in", "out"},
      {"list"}, {"info"}, {"device", "info"}, {"device", "flash"},
      {"device", "flash", "in"}, {"device", "get-time"}}}

RDTFile(model, body) ==
  [format |-> "rdt", body |-> body,
   header |-> [magic |-> "DfuSe", target |-> "Target", radio |-> model]]

MCCodeplugs ==
  {[format |-> "missing"], [format |-> "plain"],
   RDTFile("2017", [a \in {8193} |-> <<32, 36, 2, 41, 35, 89, 96>>]),
   RDTFile("MD-380", [a \in {} |-> <<>>])}
=============================================================================
