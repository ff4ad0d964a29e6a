------------------------------ MODULE MCStrings ------------------------------
(* UrlCodec and HtmlEscape for TLC, side by side: each behaviour decodes one *)
(* string or escapes one.                                                   *)
EXTENDS UrlCodec, HtmlEscape

Short == BoundedSeq({37, 117, 43, 32, 50, 100, 0, 233}, 4)
Digits == UNION {[1..n -> {48, 55, 56, 68, 69, 70, 102}] : n \in 3..4}
MCText == Short \cup {<<37, 117>> \o d : d \in Digits}
                \cup {<<37, 117>> \o d \o <<37>> : d \in Digits}

NothingToDecode ==
    text = <<>> /\ coded = FALSE /\ s = <<>> /\ i = 0 /\ result = <<>> /\ farthest = 0

NothingToEscape == input = <<>> /\ str = <<>> /\ pair = 5 /\ outcome = "returned"

MCInit == (Init /\ NothingToEscape) \/ (EscapeInit /\ NothingToDecode)

MCNext == (Next /\ UNCHANGED escapeVars) \/ (EscapeNext /\ UNCHANGED vars)

MCSpec == MCInit /\ [][MCNext]_<<vars, escapeVars>>
=============================================================================
