----------------------------------- MODULE MCUx -----------------------------------
(* An application with a review of two parts separated by a barrier, the first one  *)
(* paginated, a circular menu, a list, a step that validates itself, and dialogs.   *)
EXTENDS Ux, TLC

Plain0 == [kind |-> "text", pages |-> 0, timeout |-> 0, validate |-> None, error |-> None,
           to |-> None, at |-> 0]
Goto(f, i) == [Plain0 EXCEPT !.kind = "goto", !.to = f, !.at = i]
Text(validate) == [Plain0 EXCEPT !.validate = validate]
Paged(n) == [Plain0 EXCEPT !.kind = "pages", !.pages = n]

MCStep ==
    [intro   |-> [Text(None) EXCEPT !.error = "dialog"],
     text    |-> Paged(2),
     memo    |-> Paged(2),
     approve |-> Text("accept"),
     accept  |-> Goto("done", 0),
     done    |-> [Text("home") EXCEPT !.timeout = 2],
     home    |-> Goto("menu", 1),
     ready   |-> Text(None),
     about   |-> Text("review"),
     notice  |-> [Text(None) EXCEPT !.timeout = 1],
     pages   |-> [Paged(2) EXCEPT !.validate = "home"],
     item    |-> [Plain0 EXCEPT !.kind = "list"]]

MCFlows ==
    [review |-> <<"intro", "text", "memo", "BARRIER", "approve">>,
     accept |-> <<"accept">>,
     done   |-> <<"done">>,
     home   |-> <<"home">>,
     menu   |-> <<"ready", "about", "LOOP">>,
     dialog |-> <<"notice", "ready">>,
     MENU   |-> <<"item">>]

MCLists == [choice |-> [items |-> 2, select |-> "menu"]]

\* It is an application the theorems about the screens speak of.
ASSUME ApplicationAssumption == GotosLeave /\ LoopsOfTwo /\ LoopsUnpaged /\ DialogsPlain
====
