------------------------------ MODULE MCHidHost ------------------------------
(***************************************************************************)
(* Commands of one, two and three reports; a reply of one and of two.      *)
(***************************************************************************)
EXTENDS HidHost

Cmd(name, n) == [k \in 1..n |-> <<name, k>>]
MCCommands == {Cmd("a", 1), Cmd("b", 4), Cmd("c", 5)}
Rsp(name, n) == [k \in 1..n |-> <<name, -k>>]
Refusal == Rsp("refused", 1)
MCAnswer(c) ==
    CASE c = Cmd("a", 1) -> Rsp("a", 3)
      [] c = Cmd("b", 4) -> Rsp("b", 1)
      [] c = Cmd("c", 5) -> Rsp("c", 5)
      [] OTHER           -> Refusal

MCZero == <<"zero", 0>>
MCByte == {MCZero} \cup UNION {{c[k] : k \in DOMAIN c} : c \in MCCommands}
                   \cup UNION {{MCAnswer(c)[k] : k \in DOMAIN MCAnswer(c)} : c \in MCCommands}
                   \cup {Refusal[1]}
MCReplies == {MCAnswer(c) : c \in MCCommands} \cup {Refusal}
=============================================================================
