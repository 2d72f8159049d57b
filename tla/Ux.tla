------------------------------------ MODULE Ux ------------------------------------
(***************************************************************************)
(* The screens of an application on a device with two buttons: the stack   *)
(* of screens (ux_stack.c), the flows of steps shown on them               *)
(* (ux_flow_engine.c), paginated texts (ux_layout_paging.c), lists         *)
(* (ux_menulist.c), and the events that reach them through the macros of   *)
(* ux.h.  The screen is drawn by the secure element (HAVE_SE_SCREEN).      *)
(*                                                                         *)
(* G_ux and the state of the buttons are one record, and a function of the *)
(* library is an operator from the record before the call to the one       *)
(* after.  A flow is a sequence of step names; what an application puts in *)
(* its flows is a constant.  Positions count from 0, as in the code.       *)
(***************************************************************************)
EXTENDS Integers, Sequences

CONSTANTS
    Slots,         \* UX_STACK_SLOT_COUNT
    Fast,          \* BUTTON_FAST_THRESHOLD_CS
    Flows,         \* the steps of each flow, without its FLOW_END_STEP
    Step,          \* what each step is, see StepKind
    Lists,         \* the lists an application shows: number of items, flow of a selection
    AppFlows,      \* the flows an application starts itself
    Dialogs,       \* the flows it puts over or under another, which begin with a text
    KeepTicker     \* HAVE_UX_STACK_INIT_KEEP_TICKER

None == "NONE"
Markers == {"BARRIER", "LOOP", "END"}
\* Elements of a layout: what clears the screen, the two arrows, the text.
Elements == <<"erase", "left", "right", "text">>
Keys == {"LEFT", "RIGHT"}

\* A step shows a text, a text in pages or the list, or goes to another flow: one with
\* no init, and one whose init is code of the application that starts a flow.
StepKind == [kind : {"text", "pages", "list", "goto"}, pages : Nat, timeout : Nat,
             validate : DOMAIN Flows \cup {None}, error : DOMAIN Flows \cup {None},
             to : DOMAIN Flows \cup {None}, at : Nat]
Menu == "MENU"   \* ux_menulist_constflow

ASSUME SlotsAssumption == Slots \in Nat \ {0} /\ Fast \in Nat \ {0} /\ KeepTicker \in BOOLEAN
VARIABLES
    g,       \* G_ux and G_ux_os
    locked   \* the PIN of the device is asked again: os_global_pin_is_validated fails

vars == <<g, locked>>

\* `of' and `drawn' are history variables: the step a slot was last laid out for and
\* the elements on the screen; so are `entered' and `opened', how the step of a flow was
\* reached and the pages opened since.
NoSlot == [screen |-> FALSE, cursor |-> 0, button |-> None, timer |-> 0, interval |-> 0,
           of |-> None, drawn |-> {}]
NoFlow == [steps |-> None, index |-> 0, prev |-> 0, length |-> 0, entered |-> None, opened |-> {}]
Init ==
    /\ g = [count |-> 1, stack |-> [k \in 0..(Slots - 1) |-> NoSlot],
            flow |-> [k \in 0..(Slots - 1) |-> NoFlow], page |-> 0, pages |-> 0,
            list |-> None, item |-> 0, mask |-> {}, same |-> 0]
    /\ locked = FALSE

-----------------------------------------------------------------------------
(* Where a flow stands. *)

Smaller(a, b) == IF a < b THEN a ELSE b
Top(s) == s.count - 1
TopFlow(s) == s.flow[Top(s)]
Item(f, i) == IF i < Len(Flows[f]) THEN Flows[f][i + 1] ELSE "END"
Loops(f) == f.length > 0 /\ Item(f.steps, f.length - 1) = "LOOP"
\* ux_flow_check_valid, and the steps are there.
Valid(s) == s.count \in 1..Slots /\ TopFlow(s).length # 0

\* ux_flow_is_first; at the first step of a loop the code reads the word before the
\* flow, which is no marker: the flows of an application end with FLOW_END_STEP.
IsFirst(s) ==
    LET f == TopFlow(s)
    IN \/ ~Valid(s)
       \/ f.index = 0 /\ ~Loops(f)
       \/ f.index > 0 /\ Item(f.steps, f.index - 1) = "BARRIER"

\* ux_flow_is_last.
IsLastLoop(s) == ~Valid(s) \/ TopFlow(s).index >= TopFlow(s).length - 2   \* mutant
IsLast(s) ==
    LET f == TopFlow(s)
    IN \/ ~Valid(s)
       \/ f.index >= f.length - 1
       \/ f.index < f.length - 2 /\ Item(f.steps, f.index + 1) = "BARRIER"

\* ux_flow_direction.
Direction(s) ==
    LET f == TopFlow(s)
    IN CASE f.index > f.prev -> "FORWARD" [] f.index < f.prev -> "BACKWARD" [] OTHER -> "START"

\* ux_flow_get_current of slot k, or a marker.
Current(s, k) == IF s.flow[k].length = 0 THEN "END" ELSE Item(s.flow[k].steps, s.flow[k].index)

\* The step a chain of steps that only start another flow ends at.
Positions == UNION {{f} \X (0..(Len(Flows[f]) - 1)) : f \in DOMAIN Flows}
Shows == {p \in Positions : Item(p[1], p[2]) \in Markers \/ Step[Item(p[1], p[2])].kind # "goto"}
Lands[p \in Positions] ==
    IF p \in Shows THEN p
    ELSE LET step == Step[Item(p[1], p[2])] IN Lands[<<step.to, step.at>>]

\* What an application puts in its flows: steps, barriers between them, and at the end a
\* loop mark, which follows a step.  A text in pages has at least one.
ASSUME FlowsAssumption ==
    /\ \A f \in DOMAIN Flows :
        /\ Flows[f] \in Seq(DOMAIN Step \cup {"BARRIER", "LOOP"}) /\ Len(Flows[f]) > 0
        /\ Flows[f][1] \in DOMAIN Step /\ Flows[f][Len(Flows[f])] # "BARRIER"
        /\ \A i \in 2..Len(Flows[f]) :
              Flows[f][i] = "LOOP" => i = Len(Flows[f]) /\ Flows[f][i - 1] \in DOMAIN Step
    /\ \A s \in DOMAIN Step :
        Step[s] \in StepKind /\ s \notin Markers /\ (Step[s].kind = "pages" => Step[s].pages > 0)
    /\ AppFlows \cup Dialogs \cup {Menu} \subseteq DOMAIN Flows /\ None \notin DOMAIN Flows

\* The positions of steps, and those of steps that show something.  A chain of steps that
\* only start another flow ends at one of these.
Stops == {p \in Positions : Item(p[1], p[2]) \in DOMAIN Step}
Screens == {p \in Stops : Step[Item(p[1], p[2])].kind # "goto"}
ASSUME LandsAssumption ==
    /\ \A p \in Stops \ Screens : LET step == Step[Item(p[1], p[2])] IN <<step.to, step.at>> \in Stops
    /\ \A p \in Stops : Lands[p] \in Screens

\* Lists are shown in ux_menulist_constflow, and nothing else leads to it.
ASSUME ListsAssumption ==
    /\ \A list \in DOMAIN Lists : Lists[list].items \in Nat /\ Lists[list].select \in DOMAIN Flows \ {Menu}
    /\ \A p \in Screens : Step[Item(p[1], p[2])].kind = "list" => p[1] = Menu
    /\ Menu \notin AppFlows \cup Dialogs
    /\ \A s \in DOMAIN Step : Menu \notin {Step[s].validate, Step[s].error, Step[s].to}
    /\ \A p \in Stops : p[1] # Menu => Lands[p][1] # Menu
ASSUME DialogsAssumption ==
    \A f \in Dialogs : Step[Item(Lands[<<f, 0>>][1], Lands[<<f, 0>>][2])].kind = "text"

\* What the arrows, the barriers and the reading of pages ask of an application, where the
\* code leaves it free: a step that goes to a flow goes to another one, a loop has two steps
\* at least, no loop begins with a text in pages, and the flows of D, the dialogs among
\* them, have no step in pages and lead to none.
GotosLeave == \A p \in Stops \ Screens :
    LET step == Step[Item(p[1], p[2])] IN Lands[<<step.to, step.at>>][1] # p[1]
LoopsOfTwo == \A f \in DOMAIN Flows : Len(Flows[f]) = 2 => Flows[f][2] # "LOOP"
LoopsUnpaged == \A f \in DOMAIN Flows :
    Flows[f][Len(Flows[f])] = "LOOP" => Step[Flows[f][1]].kind # "pages"
Plain(D) ==
    /\ \A p \in Stops : p[1] \in D =>
        LET step == Step[Item(p[1], p[2])]
        IN /\ step.kind \notin {"pages", "list"} /\ Lands[p][1] \in D
           /\ {step.validate, step.error, step.to} \subseteq D \cup {None}
DialogsPlain == \E D \in SUBSET DOMAIN Flows : Dialogs \subseteq D /\ Plain(D)

-----------------------------------------------------------------------------
(* Drawing. *)

\* The preprocessors of the layouts of text, of pages and of the list: the arrows they
\* hide; on a page that is not the first or the last of its text, a flow hides none.
TextHides(s) == {arrow \in {"left", "right"} : IF arrow = "left" THEN IsFirst(s) ELSE IsLast(s)}
PagesHide(s) == (IF s.page = 0 THEN {"left"} ELSE {}) \cup (IF s.page = s.pages - 1 THEN {"right"} ELSE {})
ListHides(s) ==
    {arrow \in {"left", "right"} :
        (IF arrow = "left" THEN s.item - 1 ELSE s.item + 1) \notin 0..(Lists[s.list].items - 1)}
Hides(s, kind) ==
    IF kind = "list" THEN ListHides(s)
    ELSE TextHides(s) \cap (IF kind = "pages" THEN PagesHide(s) ELSE {"left", "right"})

\* The elements of slot k from the cursor on, when they may be drawn; `end' is where
\* the cursor is left.  "erase" clears what was there.
DrawFrom(s, k, end) ==
    IF locked \/ ~s.stack[k].screen THEN s
    ELSE LET from == s.stack[k].cursor + 1
             new == {Elements[e] : e \in from..4} \ Hides(s, Step[s.stack[k].of].kind)
         IN [s EXCEPT !.stack[k].cursor = end,
                      !.stack[k].drawn = IF "erase" \in new THEN new ELSE @ \cup new]

\* ux_stack_display, ux_stack_display_elements: only the top of the stack is drawn.
StackDisplay(s, k) ==
    IF k = Top(s) THEN DrawFrom([s EXCEPT !.stack[k].cursor = 0], k, 5) ELSE s

\* UX_DISPLAY_NEXT_ELEMENT: of slot 0, whatever is on top.
DisplayNext(s) == IF s.stack[0].cursor < 4 THEN DrawFrom(s, 0, 4) ELSE s

\* ux_stack_init: the slot is wiped, its ticker too but in one build.
StackInit(s, k) ==
    [s EXCEPT !.stack[k] = IF KeepTicker
                             THEN [NoSlot EXCEPT !.timer = s.stack[k].timer, !.interval = s.stack[k].interval]
                             ELSE NoSlot]

\* The init functions of the layouts: the elements and the callback of the buttons; the
\* display follows.
LayoutInit(s, k, button) ==
    [StackInit(s, k) EXCEPT !.stack[k].screen = TRUE, !.stack[k].of = Current(s, k), !.stack[k].button = button]

\* ux_layout_paging_redisplay_common, before the display.
PagingRedisplay(s, k) ==
    [s EXCEPT !.stack[k].screen = TRUE, !.stack[k].of = Current(s, k),
              !.stack[k].button = "pages", !.flow[k].opened = @ \cup {s.page}]

\* ux_layout_paging_init_common.
PagingInitAlwaysKeeps(s, k) ==   \* mutant
    LET pages == Step[Current(s, k)].pages
    IN PagingRedisplay([StackInit(s, k) EXCEPT !.pages = pages, !.page = Smaller(s.page, pages - 1)], k)
PagingInit(s, k) ==
    LET pages == Step[Current(s, k)].pages
        asked == CASE Direction(s) = "BACKWARD" -> pages
                   [] Direction(s) = "FORWARD"  -> 0
                   [] Direction(s) = "START"    -> s.page
    IN PagingRedisplay([StackInit(s, k) EXCEPT !.pages = pages, !.page = Smaller(asked, pages - 1)], k)

\* The init of a step that shows something.
Entered(s, k, way) ==
    IF way = "again" THEN s ELSE [s EXCEPT !.flow[k].entered = way, !.flow[k].opened = {}]
Laid(s, k, way) ==
    LET kind == Step[Current(s, k)].kind
        entered == Entered(s, k, way)
        laid == IF kind = "pages" THEN PagingInit(entered, k)
                ELSE LayoutInit(entered, k, IF kind = "list" THEN "list" ELSE "flow")
    IN StackDisplay(laid, k)

\* ux_layout_set_timeout.
Armed(s, k, ms) == IF ms = 0 THEN s ELSE [s EXCEPT !.stack[k].timer = ms, !.stack[k].interval = ms]

\* The init of a step, which ux_layout_set_timeout follows in UX_STEP_TIMEOUT.
ShowStepArmsTop(s, k, way) == Armed(Laid(s, k, way), Top(s), Step[Current(s, k)].timeout)   \* mutant
ShowStep(s, k, way) == Armed(Laid(s, k, way), k, Step[Current(s, k)].timeout)

-----------------------------------------------------------------------------
(* ux_flow_engine.c: moving in a flow. *)

\* ux_flow_init, and what the step it starts at starts in turn; paging is wiped.
FlowStart(s, k, f, at) ==
    LET q == Lands[<<f, at>>]
    IN [s EXCEPT !.flow[k] = [NoFlow EXCEPT !.steps = q[1], !.index = q[2],
                                            !.prev = IF q[2] = 0 THEN 0 ELSE q[2] - 1,
                                            !.length = Len(Flows[q[1]])],
                 !.page = 0, !.pages = 0]

\* ux_flow_engine_init_step, of the step that slot k is at.
InitStep(s, k, way) ==
    LET step == Step[Current(s, k)]
        goes == Current(s, k) \notin Markers /\ step.kind = "goto"
        t == IF goes THEN FlowStart(s, k, step.to, step.at) ELSE s
    IN IF Current(t, k) \in Markers THEN t ELSE ShowStep(t, k, IF goes THEN "START" ELSE way)
FlowInit(s, k, f, at) == InitStep(FlowStart(s, k, f, at), k, "START")

\* The flow on top moves from one position to another.
Moved(s, from, to) == [s EXCEPT !.flow[Top(s)].prev = from, !.flow[Top(s)].index = to]
MoveTo(s, from, to, way) == InitStep(Moved(s, from, to), Top(s), way)

\* ux_flow_next_internal(1).
FlowNextOverBarrier(s) ==   \* mutant
    LET f == TopFlow(s)
    IN IF ~Valid(s) \/ f.index >= f.length - 1 THEN s
       ELSE IF Item(f.steps, f.index + 1) = "LOOP" THEN MoveTo(s, 0, 0, "FORWARD")
       ELSE MoveTo(s, f.index, f.index + (IF Item(f.steps, f.index + 1) = "BARRIER" THEN 2 ELSE 1), "FORWARD")
FlowNext(s) ==
    LET f == TopFlow(s)
        loops == Item(f.steps, f.index + 1) = "LOOP"
    IN IF ~Valid(s) \/ f.index >= f.length - 1 \/ Item(f.steps, f.index + 1) = "BARRIER" THEN s
       ELSE MoveTo(s, IF loops THEN 0 ELSE f.index, IF loops THEN 0 ELSE f.index + 1, "FORWARD")

\* ux_flow_prev.
FlowPrev(s) ==
    LET f == TopFlow(s)
        from == IF f.index = 0 THEN f.length - 1 ELSE f.index
    IN IF \/ ~Valid(s) \/ f.length <= 1 \/ (f.index = 0 /\ ~Loops(f))
          \/ f.index > 0 /\ Item(f.steps, f.index - 1) = "BARRIER" THEN s
       ELSE MoveTo(s, from, from - 1, "BACKWARD")

\* ux_flow_validate: the flow of the step, else over the barriers that follow it.
FlowValidate(s) ==
    LET f == TopFlow(s)
        after == CHOOSE j \in (f.index + 1)..f.length :
                     /\ Item(f.steps, j) # "BARRIER"
                     /\ \A i \in (f.index + 1)..(j - 1) : Item(f.steps, i) = "BARRIER"
        to == Step[Current(s, Top(s))].validate
        way == IF to # None THEN "START" ELSE "FORWARD"
        at == CASE to # None -> FlowStart(s, Top(s), to, 0)
                [] to = None /\ Item(f.steps, f.index + 1) = "BARRIER" -> Moved(s, after - 1, after)
                [] to = None /\ Item(f.steps, f.index + 1) # "BARRIER" -> Moved(s, 0, 0)
    IN IF \/ ~Valid(s) \/ f.index >= f.length
          \/ to = None /\ Item(f.steps, f.index + 1) \notin {"BARRIER", "LOOP"} THEN s
       ELSE InitStep(at, Top(s), way)

\* ux_flow_error.
FlowError(s) ==
    IF TopFlow(s).length = 0 \/ TopFlow(s).index >= TopFlow(s).length THEN s
    ELSE LET to == Step[Current(s, Top(s))].error
         IN IF to = None THEN s ELSE FlowInit(s, Top(s), to, 0)

-----------------------------------------------------------------------------
(* The callbacks of the buttons, by what is on the screen. *)

FlowButton(s, reaction) ==
    CASE reaction = "previous" -> FlowPrev(s)
      [] reaction = "next"     -> FlowNext(s)
      [] reaction = "validate" -> FlowValidate(s)

\* ux_layout_paging_next, ux_layout_paging_prev, ux_layout_paging_button_callback_common: a
\* text keeps a button for itself unless it is at its first or last page.
KeepsButton(s, reaction) ==
    CASE reaction = "previous" -> s.page # 0
      [] reaction = "next"     -> s.page # s.pages - 1
      [] reaction = "validate" -> s.pages \notin {0, s.page + 1}
PagesButton(s, reaction) ==
    IF reaction = "validate" THEN s
    ELSE StackDisplay(PagingRedisplay([s EXCEPT !.page = IF reaction = "next" THEN @ + 1 ELSE @ - 1], Top(s)), Top(s))

\* ux_menulist_button, ux_menulist_refresh; the selector is code of the application.
ListButton(s, reaction) ==
    LET item == IF reaction = "next" THEN s.item + 1 ELSE s.item - 1
    IN CASE reaction = "validate" -> FlowInit(s, Top(s), Lists[s.list].select, 0)
         [] reaction # "validate" /\ item \in 0..(Lists[s.list].items - 1) ->
                StackDisplay(LayoutInit([s EXCEPT !.item = item], Top(s), "list"), Top(s))
         [] OTHER -> s

\* ux_menulist_init_select.
MenuInit(s, k, list, item) ==
    LET t == [s EXCEPT !.list = list, !.item = item]
    IN IF Current(t, k) \in Markers \/ Step[Current(t, k)].kind # "list"
         THEN FlowInit(t, k, Menu, 0) ELSE StackDisplay(LayoutInit(t, k, "list"), k)

\* io_seproxyhal_button_push: what a change of the buttons to `new' amounts to, the
\* buttons held for long enough being released for nothing.
Held(s, new) == IF new = s.mask THEN Smaller(s.same + 1, Fast) ELSE s.same
Reaction(s, new) ==
    IF new # {} \/ Held(s, new) >= Fast THEN "nothing"
    ELSE CASE s.mask = {"LEFT"}  -> "previous"
           [] s.mask = {"RIGHT"} -> "next"
           [] s.mask = Keys      -> "validate"
           [] s.mask = {}        -> "nothing"
Pushed(s, new) ==
    LET kept == IF new = {} THEN {} ELSE s.mask \cup new
    IN [s EXCEPT !.mask = kept,
                 !.same = IF new = {} \/ new # kept THEN 0 ELSE Held(s, new)]
React(s, reaction) ==
    LET button == s.stack[0].button
    IN CASE reaction = "nothing" -> s
         [] reaction # "nothing" /\ button = "list" -> ListButton(s, reaction)
         [] reaction # "nothing" /\ button = "pages" /\ KeepsButton(s, reaction) -> PagesButton(s, reaction)
         [] OTHER -> FlowButton(s, reaction)

-----------------------------------------------------------------------------
(* ux_stack.c. *)

\* ux_stack_push: a full stack stays as it is, and the caller gets the slot on top.
StackPush(s) ==
    IF s.count < Slots
      THEN [s EXCEPT !.count = @ + 1, !.stack[s.count] = NoSlot, !.flow[s.count] = NoFlow]
      ELSE s

\* ux_stack_pop.
StackPop(s) ==
    LET n == s.count - 1
    IN [s EXCEPT !.count = n, !.stack[n] = NoSlot, !.flow[n] = NoFlow, !.stack[n - 1].cursor = 0]

\* ux_stack_redisplay, with ux_flow_relayout.
StackRedisplay(s) ==
    IF Current(s, Top(s)) \notin Markers THEN InitStep(s, Top(s), "again") ELSE StackDisplay(s, Top(s))

\* The slots above k move up by one (ux_stack_insert) or down (ux_stack_remove).
Above(array, k, by, empty) ==
    [j \in 0..(Slots - 1) |->
        IF j < k \/ (j = Slots - 1 /\ by < 0) THEN array[j]
        ELSE IF j = k /\ by > 0 THEN empty ELSE array[j - by]]
\* ux_stack_insert: nothing when the stack is full.
StackInsert(s, k) ==
    IF s.count < Slots
      THEN [s EXCEPT !.count = @ + 1, !.stack = Above(@, k, 1, NoSlot), !.flow = Above(@, k, 1, NoFlow)]
      ELSE s
StackRemoveKeepsFlow(s, k) == StackPop([s EXCEPT !.stack = Above(@, k, -1, NoSlot)])   \* mutant
StackRemove(s, k) ==
    StackPop([s EXCEPT !.stack = Above(@, k, -1, NoSlot), !.flow = Above(@, k, -1, NoFlow)])

-----------------------------------------------------------------------------
(* Events.  The macros of ux.h serve slot 0, the only one of an application unless it  *)
(* asks for more (ux.h:132): its buttons, its timer and what is left to draw of it;    *)
(* the callbacks act on the flow on top.  The system sees each event first: it has     *)
(* nothing on the screen, or is busy with its own, when a button does nothing, or has  *)
(* just left it, when the application is redrawn instead.                              *)

\* UX_FORWARD_EVENT, answered BOLOS_UX_REDRAW: UX_REDISPLAY.
Redisplay ==
    /\ g' = DisplayNext([g EXCEPT !.mask = {}, !.same = 0, !.stack[0].cursor = 0])
    /\ UNCHANGED locked

\* UX_BUTTON_PUSH_EVENT, and UX_CONTINUE_DISPLAY_APP after it.
Pressed(s, new) == IF s.stack[0].button = None THEN s ELSE React(Pushed(s, new), Reaction(s, new))
Button(new) == g' = DisplayNext(Pressed(g, new)) /\ UNCHANGED locked

\* ux_layout_ticker_callback: it stops the timer of the slot on top.
Rings(s) ==
    FlowValidate([s EXCEPT !.stack[Top(s)].timer = 0, !.stack[Top(s)].interval = 0])

\* UX_TICKER_EVENT: the timer is started again and its callback called when it comes to
\* its end, which a busy system does not stop.
Ticked(s) ==
    LET slot == s.stack[0]
        left == IF slot.timer = 1 THEN slot.interval ELSE slot.timer - 1
    IN IF slot.timer = 0 THEN s
       ELSE LET down == [s EXCEPT !.stack[0].timer = left]
            IN IF slot.timer = 1 THEN Rings(down) ELSE down
Tick(busy) ==
    /\ \E s \in {Ticked(g)} : g' = IF busy THEN s ELSE DisplayNext(s)
    /\ UNCHANGED locked

Lock == locked' = ~locked /\ UNCHANGED g

-----------------------------------------------------------------------------
(* What an application does; one paginated flow and one list at a time (ux.h:291),    *)
(* nothing is put under a paginated step, whose paging it would wipe, nor over the     *)
(* pages or the list of slot 0, whose buttons would be those of another screen.        *)

Does(s) == g' = s /\ UNCHANGED locked

StartFlow(f) == g.count = 1 /\ Does(FlowInit(g, 0, f, 0))
StartList(list, item) ==
    /\ g.count = 1 /\ item \in 0..(Lists[list].items - 1)
    /\ Does(MenuInit(g, 0, list, item))
Error == Does(FlowError(g))
OpenModal(f) ==
    /\ g.stack[0].button \in {None, "flow"}
    /\ Does(FlowInit(StackPush(g), Top(StackPush(g)), f, 0))
CloseModal == g.count > 1 /\ Does(StackRedisplay(StackPop(g)))
InsertBelow(f) ==
    /\ g.stack[Top(g)].button # "pages"
    /\ Does(FlowInit(StackInsert(g, Top(g)), Top(g), f, 0))
RemoveBelow == g.count > 1 /\ Does(StackRedisplay(StackRemove(g, Top(g) - 1)))

Next ==
    \/ \E new \in SUBSET Keys : Button(new)
    \/ \E busy \in BOOLEAN : Tick(busy)
    \/ Redisplay \/ Lock
    \/ \E f \in AppFlows : StartFlow(f)
    \/ \E f \in Dialogs : OpenModal(f) \/ InsertBelow(f)
    \/ \E list \in DOMAIN Lists : \E item \in 0..(Lists[list].items - 1) : StartList(list, item)
    \/ Error \/ CloseModal \/ RemoveBelow

Spec == Init /\ [][Next]_vars

-----------------------------------------------------------------------------
(* Properties. *)

\* Every state is well formed: the position of a flow is a step and never a barrier, a
\* loop mark or the end, which the code would dereference (ux_flow_engine.c:403), the
\* page exists and so does the item of the list.
WellFormed ==
    /\ g.count \in 1..Slots
    /\ \A k \in 0..(Slots - 1) :
        /\ g.stack[k].cursor \in 0..5 /\ g.stack[k].drawn \subseteq {Elements[e] : e \in 1..4}
        /\ g.stack[k].button \in {None, "flow", "pages", "list"}
        /\ g.flow[k].length # 0 => Current(g, k) \in DOMAIN Step
        /\ k >= g.count => g.stack[k] = NoSlot /\ g.flow[k] = NoFlow
    /\ g.page \in 0..g.pages
    /\ g.list # None => g.item \in 0..(Lists[g.list].items - 1)
    /\ g.mask \subseteq Keys /\ g.same \in 0..Fast
    /\ locked \in BOOLEAN

\* What the buttons released in a step ask for; nothing else takes the fingers off.
Released == IF g.mask # {} /\ g'.mask = {} THEN Reaction(g, {}) ELSE "nothing"

\* The step a slot is at.
Place(s, k) == <<s.flow[k].steps, s.flow[k].index, s.stack[k].of>>

\* No screen loses its step to another: a screen put over the top or under it, or taken
\* away from there, leaves the top at its step, screens and flows moving together
\* (ux_stack.c:124, 158), and what is under it stays; only a stack that is full gives the
\* place of its top to the new screen (ux_stack.c:56, 137).
PlacesKept ==
    [][/\ \A k \in 0..(Slots - 1) : k < Top(g) /\ k < Top(g') => Place(g', k) = Place(g, k)
       /\ g.count < Slots /\ (\E f \in Dialogs : OpenModal(f)) => Place(g', Top(g)) = Place(g, Top(g))
       /\ RemoveBelow \/ (g.count < Slots /\ \E f \in Dialogs : InsertBelow(f))
             => Place(g', Top(g')) = Place(g, Top(g))]_vars

\* The buttons of the screen on top are the ones the events reach.
Served == g.stack[0].button = g.stack[Top(g)].button

\* The arrows of a screen that is completely drawn, and that the events reach, tell the
\* truth: there is one on a side if and only if that button leads to another page, step or
\* item; and the state is well formed, as drawing needs.
ArrowsTrue == WellFormed /\
    ((g.stack[Top(g)].cursor >= 4 /\ TopFlow(g).length # 0 /\ Served) =>
        \A side \in {<<"left", "previous">>, <<"right", "next">>} :
            side[1] \in g.stack[Top(g)].drawn <=> React(g, side[2]) # g)

\* A barrier holds: the left and the right buttons alone move a flow to the step before or
\* after, around the end of a loop, and never across a barrier (ux_flow_engine.h:99).
BarrierHolds ==
    [][\A k \in 0..(Slots - 1) :
        LET f == g.flow[k]
            h == g'.flow[k]
            loop == f.length > 0 /\ Item(f.steps, f.length - 1) = "LOOP"
        IN (Released \in {"previous", "next"} /\ h.steps = f.steps /\ h.index # f.index) =>
              \/ h.index = f.index + 1 /\ Released = "next"
              \/ h.index = f.index - 1 /\ Released = "previous"
              \/ loop /\ {f.index, h.index} = {0, f.length - 2}]_vars

\* A text in pages that the events reach is approved by both buttons only after each of
\* its pages has been opened, unless the user came back to it from a later step
\* (ux_layout_paging.c:226).
AllPagesRead ==
    [][LET f == TopFlow(g)
       IN (Served /\ Released = "validate" /\ f.length # 0 /\ f.entered # "BACKWARD" /\ g'.flow # g.flow) =>
              \/ Step[Current(g, Top(g))].kind # "pages"
              \/ f.opened = 0..(Step[Current(g, Top(g))].pages - 1)]_vars

\* A timer that runs is the one that the step of its slot has armed: a step the user has
\* left, or a screen that was closed or moved, does not validate the next one on his behalf
\* (ux_layout_utils.c:26, ux_stack.c:186).
NoStrayTimeout ==
    \A k \in 0..(g.count - 1) :
        g.stack[k].timer # 0 =>
            /\ g.flow[k].length # 0 /\ g.stack[k].timer <= g.stack[k].interval
            /\ g.stack[k].interval = Step[Current(g, k)].timeout
====
