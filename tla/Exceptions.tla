--------------------------------- MODULE Exceptions ---------------------------------
(* TRY, CATCH, FINALLY and THROW (exceptions.h) over setjmp and longjmp: the   *)
(* chain of contexts a throw goes by, next to what the code means.  A block is *)
(* a sequence of statements: [do |-> "throw", ex], [do |-> "mark", id],        *)
(* [do |-> "close"] (CLOSE_TRY), [do |-> "leave"] (a return or a goto out of    *)
(* it), and [do |-> "try", body, catches, other, finally], the blocks of its    *)
(* CATCH, CATCH_OTHER or CATCH_ALL, none or one, and FINALLY clauses.          *)
EXTENDS Naturals, Sequences

Caught(st, ex) == \E k \in DOMAIN st.catches : st.catches[k].ex = ex
ClauseOf(st, ex) ==
    IF Caught(st, ex) THEN
        LET k == CHOOSE k \in DOMAIN st.catches :
                    st.catches[k].ex = ex /\ \A i \in 1 .. k - 1 : st.catches[i].ex # ex
        IN <<st.catches[k].body>>
    ELSE st.other
Stops(s) == s.thrown # 0 \/ s.left

(*---------------------------------------------------------------------------*)
(* What runs.  top: the context a throw goes to; contexts: [previous, ex] of    *)
(* each TRY; target: where the longjmp that was called lands.  `own` is the     *)
(* TRY the statement is in.  restores: longjmp sets top back as setjmp found it. *)
THROW(s, ex) == [s EXCEPT !.thrown = ex, !.target = s.top]
CLOSE_TRY(s, own) == [s EXCEPT !.top = s.contexts[own].previous]

RECURSIVE Runs(_, _, _)
\* The clauses after a longjmp here: one of them runs, or the exception is kept.
CATCH(st, s, own, ex) ==
    IF ClauseOf(st, ex) = << >> THEN [s EXCEPT !.contexts[own].ex = ex, !.thrown = 0]
    ELSE Runs(ClauseOf(st, ex)[1], CLOSE_TRY([s EXCEPT !.contexts[own].ex = 0, !.thrown = 0], own), own)

FINALLY(st, s, own) == Runs(st.finally, IF s.top = own THEN CLOSE_TRY(s, own) ELSE s, own)
END_TRY(s, own) == IF Stops(s) \/ s.contexts[own].ex = 0 THEN s ELSE THROW(s, s.contexts[own].ex)

TRY(st, s) == LET
        own == Len(s.contexts) + 1
        body == Runs(st.body, [s EXCEPT !.contexts = Append(@, [previous |-> s.top, ex |-> 0]), !.top = own], own)
        jumped == IF s.restores THEN [body EXCEPT !.top = s.top] ELSE body
        caught == IF body.thrown = 0 THEN body ELSE CATCH(st, jumped, own, body.thrown)
    IN IF body.left \/ (body.thrown # 0 /\ body.target # own) THEN body
       ELSE IF Stops(caught) THEN caught
       ELSE END_TRY(FINALLY(st, caught, own), own)

Runs(block, s, own) ==
    IF block = << >> \/ Stops(s) THEN s
    ELSE LET st == Head(block) IN Runs(Tail(block),
        CASE st.do = "mark" -> [s EXCEPT !.trace = Append(@, st.id)]
          [] st.do = "throw" -> THROW(s, st.ex)
          [] st.do = "close" -> CLOSE_TRY(s, own)
          [] st.do = "leave" -> [s EXCEPT !.left = TRUE]
          [] st.do = "try" -> TRY(st, s), own)

RunBlock(block, restores) ==
    Runs(block, [top |-> 0, contexts |-> << >>, thrown |-> 0, target |-> 0, left |-> FALSE, trace |-> << >>,
                 restores |-> restores], 0)

(*---------------------------------------------------------------------------*)
(* main.c: an application started from the dashboard, or called as a library    *)
(* with [id, command, copied].  `failing` is the call in it that throws, if any. *)
Does(name, failing) == <<[do |-> "mark", id |-> name]>>
                       \o (IF name = failing THEN <<[do |-> "throw", ex |-> 1]>> ELSE << >>)
Guarded(body, finally) ==
    <<[do |-> "try", body |-> body, catches |-> << >>, other |-> << << >> >>, finally |-> finally]>>
StandaloneAppMain(failing) ==
    Guarded(Does("common_app_init", failing) \o Does("app_main", failing), << >>) \o Does("app_exit", failing)
LibraryAppMain(args, failing) == LET
        body == CASE args.command = "SIGN_TRANSACTION" -> Does("copy_parameters", failing)
                       \o (IF args.copied THEN Does("common_app_init", failing) \o Does("app_main", failing) ELSE << >>)
                  [] args.command = "CHECK_ADDRESS" -> Does("check_address", failing)
                  [] args.command = "GET_PRINTABLE_AMOUNT" -> Does("printable_amount", failing)
                  [] OTHER -> << >>
    IN Guarded(body, Does("os_lib_end", failing))
Main(dashboard, args, failing) ==
    IF dashboard THEN StandaloneAppMain(failing)
    ELSE IF args.id = 256 THEN LibraryAppMain(args, failing)
    ELSE Does("app_exit", failing)

(*---------------------------------------------------------------------------*)
(* What it means: an exception goes to the first clause for it of the innermost *)
(* TRY it is thrown in, FINALLY runs unless a clause throws or leaves, and what *)
(* no clause is for goes on outwards.  open: a TRY was left and not closed.     *)
RECURSIVE Means(_, _)
MeansTry(st, m) == LET
        body == Means(st.body, [m EXCEPT !.closed = FALSE])
        clause == IF body.thrown = 0 THEN << >> ELSE ClauseOf(st, body.thrown)
        after == IF clause = << >> THEN [body EXCEPT !.thrown = 0] ELSE Means(clause[1], [body EXCEPT !.thrown = 0])
        finally == Means(st.finally, after)
        end == IF body.left THEN [body EXCEPT !.open = @ \/ ~body.closed]
               ELSE IF Stops(after) THEN after
               ELSE IF clause = << >> /\ ~Stops(finally) THEN [finally EXCEPT !.thrown = body.thrown]
               ELSE finally
    IN [end EXCEPT !.closed = m.closed]
Means(block, m) ==
    IF block = << >> \/ Stops(m) THEN m
    ELSE LET st == Head(block) IN Means(Tail(block),
        CASE st.do = "mark" -> [m EXCEPT !.trace = Append(@, st.id)]
          [] st.do = "throw" -> [m EXCEPT !.thrown = st.ex]
          [] st.do = "close" -> [m EXCEPT !.closed = TRUE]
          [] st.do = "leave" -> [m EXCEPT !.left = TRUE]
          [] st.do = "try" -> MeansTry(st, m))
Meaning(block) == Means(block, [thrown |-> 0, left |-> FALSE, trace |-> << >>, closed |-> FALSE, open |-> FALSE])
=================================================================================
