---------------------------- MODULE MCAttestScript ----------------------------
(***************************************************************************)
(* AttestScript for TLC: two commits, one on top of the other and both     *)
(* what some package on chain was built from.  Two hex digits, ids of two  *)
(* bytes, every address of up to four digits with or without prefix, and   *)
(* some that are too long or no numbers.                                   *)
(***************************************************************************)
EXTENDS AttestScript, TLC

CONSTANTS c1, c2, x1, x2

MCContent  == c1 :> x1 @@ c2 :> x2
MCBefore   == c1 :> {c1} @@ c2 :> {c1, c2}
MCTexts    == {<<1>>, <<1, 1>>, <<2>>}  \* the last one is a quote
MCHashText == x1 :> <<1>> @@ x2 :> <<1, 1>>
MCShaText  == c1 :> <<1>> @@ c2 :> <<1, 1>>
One        == <<1>>
OneOne     == <<1, 1>>
MCUrls     == {<<1>>, <<2>>}
MCSubdirs  == {<<1, 1>>}
MCTried    == {p \in Payload : /\ p.pkg_id \in {<<0, 1>>, <<1, 1>>}
                             /\ p.toolchain_digest = OneOne
                             /\ \A f \in TextFields \ {"git_url"} : p[f] # <<2>>}

Digits == BoundedSeq({0, 1}, 4)
MCAddressTexts ==
    Digits \cup {OxPrefix \o d : d \in Digits}
        \cup {<<1, 0, 0, 0, 1>>, <<1, 0, 1, 0, 0, 1>>, OxPrefix \o <<0, 0, 1, 0, 0, 1>>}
        \cup {<<X>>, <<1, X>>, OxPrefix \o OxPrefix, OxPrefix \o OxPrefix \o <<1, 0>>}

=============================================================================
