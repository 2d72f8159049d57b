-------------------------------- MODULE Ux_proofs --------------------------------
(***************************************************************************)
(* Proofs about Ux: for any flows, steps, lists, number of slots and time  *)
(* a button may be held.                                                   *)
(***************************************************************************)
EXTENDS Ux, WellFoundedInduction, TLAPS

All == {"erase", "left", "right", "text"}
Ways == {"START", "FORWARD", "BACKWARD"}
SlotNumbers == 0..(Slots - 1)
SlotStates == [screen : BOOLEAN, cursor : {0, 4, 5}, button : {None, "flow", "pages", "list"},
               timer : Nat, interval : Nat, of : DOMAIN Step \cup {None}, drawn : SUBSET All]
FlowStates == [steps : DOMAIN Flows \cup {None}, index : Nat, prev : Nat, length : Nat,
               entered : Ways \cup {None}, opened : SUBSET Int]
States == [count : 1..Slots, stack : [SlotNumbers -> SlotStates], flow : [SlotNumbers -> FlowStates],
           page : Nat, pages : Nat, list : DOMAIN Lists \cup {None}, item : Nat,
           mask : SUBSET Keys, same : 0..Fast]

ButtonFor(kind) == IF kind = "pages" THEN "pages" ELSE IF kind = "list" THEN "list" ELSE "flow"

\* The timer of a slot, when a screen is laid out without one, is the one its step arms.
Timed(slot) ==
    ~KeepTicker /\ slot.timer # 0 => slot.timer <= slot.interval /\ slot.interval = Step[slot.of].timeout

\* A slot is empty, or shows the screen its flow is at, with the buttons of that screen and
\* no timer but its own.
Occupied(slot, flow) ==
    /\ <<flow.steps, flow.index>> \in Screens /\ flow.length = Len(Flows[flow.steps])
    /\ flow.index < flow.prev => flow.entered = "BACKWARD"
    /\ slot.screen /\ slot.of = Item(flow.steps, flow.index)
    /\ slot.button = ButtonFor(Step[slot.of].kind)
    /\ Timed(slot)
Good(slot, flow) == IF flow.length = 0 THEN slot = NoSlot /\ flow = NoFlow ELSE Occupied(slot, flow)

\* Whoever is in the flow of the lists has a list, and the item is one of its.
Listed(s) ==
    /\ \A k \in SlotNumbers : s.flow[k].steps = Menu => s.list \in DOMAIN Lists
    /\ s.list # None => s.item \in 0..(Lists[s.list].items - 1)

\* What the top of the stack shows: the kind of its step, its page, its elements.
TopSlot(s) == s.stack[Top(s)]
TopStep(s) == Step[TopSlot(s).of]
Paged(s) == TopFlow(s).length # 0 /\ TopStep(s).kind = "pages"
PageFits(s) == s.page <= s.pages /\ (Paged(s) => s.pages = TopStep(s).pages /\ s.page < s.pages)
Painted(s) ==
    TopFlow(s).length # 0 /\ TopSlot(s).cursor >= 4 => TopSlot(s).drawn = All \ Hides(s, TopStep(s).kind)

\* Over a text in pages or a list, whose buttons slot 0 has, there is nothing.
Apart(s) == s.count > 1 => s.stack[0].button \in {None, "flow"}

Base(s) ==
    /\ s \in States /\ Listed(s) /\ Apart(s)
    /\ \A k \in SlotNumbers : k >= s.count => s.stack[k] = NoSlot /\ s.flow[k] = NoFlow
Inv(s) ==
    /\ Base(s) /\ \A k \in SlotNumbers : Good(s.stack[k], s.flow[k])
    /\ PageFits(s) /\ Painted(s)

\* The pages of the text on top opened so far; under the top there is at most one flow
\* that is no dialog, and its paging has been wiped.
Outside(D, s, k) == s.flow[k].length # 0 /\ s.flow[k].steps \notin D
Reading(D, s) ==
    /\ \A k \in SlotNumbers : \A j \in SlotNumbers : Outside(D, s, j) /\ Outside(D, s, k) => j = k
    /\ \A k \in SlotNumbers : Outside(D, s, k) /\ k # Top(s) => s.page = 0
    /\ \A k \in SlotNumbers : s.flow[k].length # 0 /\ Step[s.stack[k].of].kind = "pages" =>
          s.flow[k].opened \subseteq 0..(Step[s.stack[k].of].pages - 1)
    /\ Paged(s) /\ TopFlow(s).entered # "BACKWARD" => 0..s.page \subseteq TopFlow(s).opened

-----------------------------------------------------------------------------
(* Positions, elements and drawing. *)

\* A position whose item is a step.
LEMMA StopFacts ==
    ASSUME NEW f, NEW i
    PROVE  <<f, i>> \in Stops <=> f \in DOMAIN Flows /\ i \in 0..(Len(Flows[f]) - 1) /\ Item(f, i) \in DOMAIN Step
  <1>1. <<f, i>> \in Positions <=> f \in DOMAIN Flows /\ i \in 0..(Len(Flows[f]) - 1)
    BY DEF Positions
  <1> QED BY <1>1 DEF Stops

\* A screen is a step that shows a text, a text in pages, or a list.
LEMMA ScreenFacts ==
    ASSUME NEW f, NEW i, <<f, i>> \in Screens
    PROVE  /\ f \in DOMAIN Flows /\ f # None /\ i \in 0..(Len(Flows[f]) - 1) /\ i \in Nat
           /\ Len(Flows[f]) \in Nat /\ Len(Flows[f]) > 0
           /\ Item(f, i) \in DOMAIN Step /\ Item(f, i) \notin Markers
           /\ Step[Item(f, i)] \in StepKind /\ Step[Item(f, i)].kind \in {"text", "pages", "list"}
           /\ Step[Item(f, i)].timeout \in Nat /\ Step[Item(f, i)].pages \in Nat
           /\ Step[Item(f, i)].kind = "pages" => Step[Item(f, i)].pages > 0
           /\ Step[Item(f, i)].kind = "list" => f = Menu
  <1>1. <<f, i>> \in Stops /\ Step[Item(f, i)].kind # "goto"
    BY DEF Screens
  <1>2. f \in DOMAIN Flows /\ i \in 0..(Len(Flows[f]) - 1) /\ Item(f, i) \in DOMAIN Step
    BY <1>1, StopFacts
  <1>3. f # None /\ Flows[f] \in Seq(DOMAIN Step \cup {"BARRIER", "LOOP"}) /\ Len(Flows[f]) > 0
    BY <1>2, FlowsAssumption
  <1>4. /\ Step[Item(f, i)] \in StepKind /\ Item(f, i) \notin Markers
        /\ Step[Item(f, i)].kind = "pages" => Step[Item(f, i)].pages > 0
    BY <1>2, FlowsAssumption
  <1>5. Step[Item(f, i)].kind = "list" => f = Menu
    BY <1>2, ListsAssumption
  <1> HIDE DEF Item
  <1>6. Step[Item(f, i)].kind \in {"text", "pages", "list"} /\ Step[Item(f, i)].timeout \in Nat
        /\ Step[Item(f, i)].pages \in Nat
    BY <1>1, <1>4 DEF StepKind
  <1> QED BY <1>2, <1>3, <1>4, <1>5, <1>6

\* The elements of a layout, from the first on.
LEMMA AllElements == {Elements[e] : e \in 1..4} = All
  BY DEF Elements, All

\* What is hidden is an arrow, and depends on nothing of the slots.
LEMMA HidesArrows ==
    ASSUME NEW s, NEW kind
    PROVE  Hides(s, kind) \subseteq {"left", "right"}
  BY DEF Hides, ListHides, TextHides, PagesHide

\* The same positions, pages and items hide the same.
LEMMA HidesSame ==
    ASSUME NEW s, NEW t, NEW kind, t.count = s.count, TopFlow(t) = TopFlow(s),
           kind = "pages" => t.page = s.page /\ t.pages = s.pages,
           kind = "list" => t.list = s.list /\ t.item = s.item
    PROVE  Hides(t, kind) = Hides(s, kind)
  <1>1. IsFirst(t) = IsFirst(s) /\ IsLast(t) = IsLast(s)
    BY DEF IsFirst, IsLast, Valid
  <1>2. TextHides(t) = TextHides(s)
    BY <1>1 DEF TextHides
  <1>3. kind = "list" => ListHides(t) = ListHides(s)
    BY DEF ListHides
  <1>4. kind = "pages" => PagesHide(t) = PagesHide(s)
    BY DEF PagesHide
  <1> QED BY <1>2, <1>3, <1>4 DEF Hides

\* And so do a stack and another one with the same top, where no page is shown.
LEMMA HidesTop ==
    ASSUME NEW s, NEW t, NEW kind, kind # "pages", t.count \in 1..Slots, s.count \in 1..Slots,
           TopFlow(t) = TopFlow(s), t.list = s.list, t.item = s.item
    PROVE  Hides(t, kind) = Hides(s, kind)
  <1>1. IsFirst(t) = IsFirst(s) /\ IsLast(t) = IsLast(s)
    BY DEF IsFirst, IsLast, Valid
  <1>2. TextHides(t) = TextHides(s)
    BY <1>1 DEF TextHides
  <1>3. ListHides(t) = ListHides(s)
    BY DEF ListHides
  <1> QED BY <1>2, <1>3 DEF Hides

\* What an operation of slot k leaves alone; one that draws, and no more.
Framed(s, t, k) ==
    /\ t \in States /\ t.count = s.count /\ t.list = s.list /\ t.item = s.item
    /\ t.mask = s.mask /\ t.same = s.same
    /\ \A j \in SlotNumbers \ {k} : t.stack[j] = s.stack[j] /\ t.flow[j] = s.flow[j]
Redrawn(s, t, k) ==
    /\ Framed(s, t, k) /\ t.flow = s.flow /\ t.page = s.page /\ t.pages = s.pages
    /\ t.stack[k].screen = s.stack[k].screen /\ t.stack[k].button = s.stack[k].button
    /\ t.stack[k].timer = s.stack[k].timer /\ t.stack[k].interval = s.stack[k].interval
    /\ t.stack[k].of = s.stack[k].of
Drawn(s, t, k) ==
    t.stack[k].cursor >= 4 => t.stack[k].drawn = All \ Hides(s, Step[s.stack[k].of].kind)

\* The fields of a state and of its slots.
LEMMA StateFields ==
    ASSUME NEW s \in States
    PROVE  /\ s.count \in 1..Slots /\ s.count \in Nat /\ Top(s) \in SlotNumbers /\ Top(s) \in Nat
           /\ s.page \in Nat /\ s.pages \in Nat /\ s.list \in DOMAIN Lists \cup {None} /\ s.item \in Nat
           /\ s.mask \in SUBSET Keys /\ s.same \in 0..Fast
           /\ s.stack \in [SlotNumbers -> SlotStates] /\ s.flow \in [SlotNumbers -> FlowStates]
           /\ \A k \in SlotNumbers : s.stack[k] \in SlotStates /\ s.flow[k] \in FlowStates
  BY SlotsAssumption DEF States, Top, SlotNumbers

\* The fields of a slot and of its flow.
LEMMA SlotFields ==
    ASSUME NEW s \in States, NEW k \in SlotNumbers
    PROVE  /\ s.stack[k].screen \in BOOLEAN /\ s.stack[k].cursor \in {0, 4, 5} /\ s.stack[k].timer \in Nat
           /\ s.stack[k].interval \in Nat
           /\ s.stack[k].button \in {None, "flow", "pages", "list"}
           /\ s.stack[k].of \in DOMAIN Step \cup {None} /\ s.stack[k].drawn \subseteq All
           /\ s.flow[k].steps \in DOMAIN Flows \cup {None} /\ s.flow[k].index \in Nat
           /\ s.flow[k].prev \in Nat /\ s.flow[k].length \in Nat
           /\ s.flow[k].entered \in Ways \cup {None} /\ s.flow[k].opened \in SUBSET Int
  <1>1. s.stack[k] \in SlotStates /\ s.flow[k] \in FlowStates
    BY StateFields
  <1> QED BY <1>1 DEF SlotStates, FlowStates

\* DrawFrom draws what is not hidden, or nothing.
LEMMA DrawFromResult ==
    ASSUME NEW s \in States, NEW k \in SlotNumbers, NEW end \in {4, 5}, s.stack[k].cursor = 0
    PROVE  /\ Redrawn(s, DrawFrom(s, k, end), k) /\ Drawn(s, DrawFrom(s, k, end), k)
           /\ ~s.stack[k].screen => DrawFrom(s, k, end) = s
  <1> DEFINE H == Hides(s, Step[s.stack[k].of].kind)
             new == {Elements[e] : e \in (s.stack[k].cursor + 1)..4} \ H
             t == [s EXCEPT !.stack[k].cursor = end,
                            !.stack[k].drawn = IF "erase" \in new THEN new ELSE @ \cup new]
  <1>1. H \subseteq {"left", "right"}
    BY HidesArrows
  <1> HIDE DEF H
  <1>2. new = All \ H
    BY AllElements
  <1>3. "erase" \in All \ H /\ All \ H \in SUBSET All
    BY <1>1 DEF All
  <1>4. DrawFrom(s, k, end) = IF locked \/ ~s.stack[k].screen THEN s ELSE t
    BY DEF DrawFrom, H
  <1> DEFINE u == [s EXCEPT !.stack[k].cursor = end, !.stack[k].drawn = All \ H]
  <1>5. t = u
    BY <1>2, <1>3
  <1> HIDE DEF new, t
  <1>6. s.stack \in [SlotNumbers -> SlotStates] /\ s.stack[k] \in SlotStates
    BY StateFields
  <1>7. /\ u.stack = [s.stack EXCEPT ![k] = [s.stack[k] EXCEPT !.cursor = end, !.drawn = All \ H]]
        /\ u.flow = s.flow /\ u.page = s.page /\ u.pages = s.pages /\ u.count = s.count /\ u.list = s.list
        /\ u.item = s.item /\ u.mask = s.mask /\ u.same = s.same
    BY <1>6 DEF States, SlotStates
  <1>8. [s.stack[k] EXCEPT !.cursor = end, !.drawn = All \ H] \in SlotStates
    BY <1>6, <1>3 DEF SlotStates
  <1>9. u = [s EXCEPT !.stack = [s.stack EXCEPT ![k] = [s.stack[k] EXCEPT !.cursor = end, !.drawn = All \ H]]]
    BY <1>6 DEF States, SlotStates
  <1>10. u \in States
    BY <1>6, <1>8, <1>9 DEF States
  <1>11. u.stack[k].screen = s.stack[k].screen /\ u.stack[k].button = s.stack[k].button
         /\ u.stack[k].timer = s.stack[k].timer /\ u.stack[k].of = s.stack[k].of /\ u.stack[k].drawn = All \ H
         /\ u.stack[k].interval = s.stack[k].interval
    BY <1>6, <1>7 DEF SlotStates
  <1>12. \A j \in SlotNumbers \ {k} : u.stack[j] = s.stack[j] /\ u.flow[j] = s.flow[j]
    BY <1>6, <1>7
  <1> HIDE DEF u
  <1>13. Redrawn(s, u, k) /\ Drawn(s, u, k)
    BY <1>7, <1>10, <1>11, <1>12 DEF Redrawn, Framed, Drawn, H
  <1>14. Redrawn(s, s, k) /\ Drawn(s, s, k)
    BY DEF Redrawn, Framed, Drawn
  <1> QED BY <1>4, <1>5, <1>13, <1>14

\* What a screen shows is what is not hidden in a state with the same positions and pages.
LEMMA DrawnSame ==
    ASSUME NEW s, NEW t, NEW u, NEW k, Redrawn(s, t, k), Drawn(t, u, k)
    PROVE  Drawn(s, u, k)
  <1>1. Hides(t, Step[s.stack[k].of].kind) = Hides(s, Step[s.stack[k].of].kind)
    BY HidesSame DEF Redrawn, Framed, TopFlow, Top
  <1> QED BY <1>1 DEF Drawn, Redrawn

\* Back to the first element.
LEMMA CursorReset ==
    ASSUME NEW s \in States, NEW k \in SlotNumbers
    PROVE  /\ Redrawn(s, [s EXCEPT !.stack[k].cursor = 0], k)
           /\ [s EXCEPT !.stack[k].cursor = 0].stack[k] = [s.stack[k] EXCEPT !.cursor = 0]
           /\ [s EXCEPT !.stack[k].cursor = 0].stack[k].cursor = 0
           /\ s.stack[k] = NoSlot => [s EXCEPT !.stack[k].cursor = 0].stack[k] = NoSlot
  <1> DEFINE u == [s EXCEPT !.stack[k].cursor = 0]
             slot == [s.stack[k] EXCEPT !.cursor = 0]
  <1>1. s.stack \in [SlotNumbers -> SlotStates] /\ s.stack[k] \in SlotStates
    BY StateFields
  <1>2. slot \in SlotStates /\ slot.cursor = 0 /\ slot.screen = s.stack[k].screen
        /\ slot.button = s.stack[k].button /\ slot.timer = s.stack[k].timer /\ slot.of = s.stack[k].of
        /\ slot.interval = s.stack[k].interval
        /\ (s.stack[k] = NoSlot => slot = NoSlot)
    BY <1>1 DEF SlotStates, NoSlot
  <1>3. u = [s EXCEPT !.stack = [s.stack EXCEPT ![k] = slot]]
    BY <1>1 DEF States, SlotStates
  <1> HIDE DEF slot
  <1>4. /\ u \in States /\ u.stack = [s.stack EXCEPT ![k] = slot]
        /\ u.flow = s.flow /\ u.page = s.page /\ u.pages = s.pages /\ u.count = s.count /\ u.list = s.list
        /\ u.item = s.item /\ u.mask = s.mask /\ u.same = s.same
    BY <1>1, <1>2, <1>3 DEF States
  <1> HIDE DEF u
  <1>5. u.stack[k] = slot /\ \A j \in SlotNumbers \ {k} : u.stack[j] = s.stack[j] /\ u.flow[j] = s.flow[j]
    BY <1>1, <1>4
  <1>6. Redrawn(s, u, k)
    BY <1>2, <1>4, <1>5 DEF Redrawn, Framed
  <1> QED BY <1>2, <1>5, <1>6 DEF u, slot

\* One redrawing after another.
LEMMA RedrawnTwice ==
    ASSUME NEW s, NEW t, NEW u, NEW k, Redrawn(s, t, k), Redrawn(t, u, k)
    PROVE  Redrawn(s, u, k)
  BY DEF Redrawn, Framed

\* ux_stack_display draws the top of the stack.
LEMMA StackDisplayResult ==
    ASSUME NEW s \in States, NEW k \in SlotNumbers
    PROVE  /\ Redrawn(s, StackDisplay(s, k), k)
           /\ k = Top(s) => Drawn(s, StackDisplay(s, k), k)
           /\ k # Top(s) => StackDisplay(s, k) = s
           /\ s.stack[k] = NoSlot => StackDisplay(s, k).stack[k] = NoSlot
  <1> DEFINE u == [s EXCEPT !.stack[k].cursor = 0]
             t == DrawFrom(u, k, 5)
  <1>1. Redrawn(s, u, k) /\ u.stack[k].cursor = 0 /\ (s.stack[k] = NoSlot => u.stack[k] = NoSlot)
    BY CursorReset
  <1>2. StackDisplay(s, k) = IF k = Top(s) THEN t ELSE s
    BY DEF StackDisplay
  <1>3. u \in States
    BY <1>1 DEF Redrawn, Framed
  <1> HIDE DEF u
  <1>4. Redrawn(u, t, k) /\ Drawn(u, t, k) /\ (~u.stack[k].screen => t = u)
    BY <1>1, <1>3, DrawFromResult
  <1> HIDE DEF t
  <1>5. Redrawn(s, t, k) /\ Drawn(s, t, k)
    BY <1>1, <1>4, RedrawnTwice, DrawnSame
  <1>6. s.stack[k] = NoSlot => ~u.stack[k].screen
    BY <1>1 DEF NoSlot
  <1>7. Redrawn(s, s, k)
    BY DEF Redrawn, Framed
  <1> QED BY <1>1, <1>2, <1>4, <1>5, <1>6, <1>7

\* UX_DISPLAY_NEXT_ELEMENT draws the screen of slot 0 when it is not.
LEMMA DisplayNextResult ==
    ASSUME NEW s \in States
    PROVE  /\ Redrawn(s, DisplayNext(s), 0)
           /\ DisplayNext(s) = s \/ Drawn(s, DisplayNext(s), 0)
           /\ ~s.stack[0].screen => DisplayNext(s) = s
  <1>0. 0 \in SlotNumbers
    BY SlotsAssumption DEF SlotNumbers
  <1>1. s.stack[0].cursor \in {0, 4, 5}
    BY <1>0, SlotFields
  <1>2. CASE s.stack[0].cursor < 4
    <2>1. s.stack[0].cursor = 0 /\ DisplayNext(s) = DrawFrom(s, 0, 4)
      BY <1>1, <1>2 DEF DisplayNext
    <2> QED BY <1>0, <2>1, DrawFromResult
  <1>3. CASE ~(s.stack[0].cursor < 4)
    BY <1>3 DEF DisplayNext, Redrawn, Framed
  <1> QED BY <1>2, <1>3

\* A slot takes another step, and its flow other pages.
Put(s, k, slot, flow, page, pages) ==
    [s EXCEPT !.stack = [s.stack EXCEPT ![k] = slot], !.flow = [s.flow EXCEPT ![k] = flow],
              !.page = page, !.pages = pages]

\* The fields of a state whose slot k has been replaced.
LEMMA PutSlot ==
    ASSUME NEW s \in States, NEW k \in SlotNumbers, NEW slot \in SlotStates, NEW flow \in FlowStates,
           NEW page \in Nat, NEW pages \in Nat, NEW t, t = Put(s, k, slot, flow, page, pages)
    PROVE  /\ Framed(s, t, k) /\ t.stack[k] = slot /\ t.flow[k] = flow /\ t.page = page /\ t.pages = pages
           /\ TopFlow(t) = IF k = Top(s) THEN flow ELSE TopFlow(s)
  <1>1. /\ s.stack \in [SlotNumbers -> SlotStates] /\ s.flow \in [SlotNumbers -> FlowStates]
        /\ Top(s) \in SlotNumbers
    BY StateFields
  <1>2. /\ t.count = s.count /\ t.list = s.list /\ t.item = s.item /\ t.mask = s.mask /\ t.same = s.same
        /\ t.page = page /\ t.pages = pages /\ t.stack = [s.stack EXCEPT ![k] = slot]
        /\ t.flow = [s.flow EXCEPT ![k] = flow] /\ t \in States
    BY <1>1 DEF States, Put
  <1>3. t.stack[k] = slot /\ t.flow[k] = flow
        /\ \A j \in SlotNumbers \ {k} : t.stack[j] = s.stack[j] /\ t.flow[j] = s.flow[j]
    BY <1>1, <1>2
  <1>4. TopFlow(t) = t.flow[Top(s)]
    BY <1>2 DEF TopFlow, Top
  <1> QED BY <1>1, <1>2, <1>3, <1>4 DEF Framed, TopFlow

\* The fields of a slot that a layout sets.
Dressed(slot, of, button) == [slot EXCEPT !.screen = TRUE, !.of = of, !.button = button]
SetSlot(s, k, of, button) ==
    [s EXCEPT !.stack[k].screen = TRUE, !.stack[k].of = of, !.stack[k].button = button]

\* Setting them is replacing the slot.
LEMMA SetSlotResult ==
    ASSUME NEW s \in States, NEW k \in SlotNumbers, NEW of \in DOMAIN Step,
           NEW button \in {"flow", "pages", "list"}
    PROVE  SetSlot(s, k, of, button)
              = [s EXCEPT !.stack = [s.stack EXCEPT ![k] = Dressed(s.stack[k], of, button)]]
  <1> DEFINE slot == [s.stack[k] EXCEPT !.screen = TRUE, !.of = of]
             two == [s EXCEPT !.stack[k].screen = TRUE, !.stack[k].of = of]
             t == [two EXCEPT !.stack[k].button = button]
  <1>1. s.stack \in [SlotNumbers -> SlotStates] /\ s.stack[k] \in SlotStates
    BY StateFields
  <1>2. [s EXCEPT !.stack[k].screen = TRUE]
           = [s EXCEPT !.stack = [s.stack EXCEPT ![k] = [s.stack[k] EXCEPT !.screen = TRUE]]]
    BY <1>1 DEF States, SlotStates
  <1>3. two = [s EXCEPT !.stack = [s.stack EXCEPT ![k] = slot]]
    BY <1>1, <1>2 DEF States, SlotStates
  <1>4. slot \in SlotStates
    BY <1>1 DEF SlotStates
  <1>5. [slot EXCEPT !.button = button] = [s.stack[k] EXCEPT !.screen = TRUE, !.of = of, !.button = button]
    BY <1>1 DEF SlotStates
  <1>6. t = [s EXCEPT !.stack[k].screen = TRUE, !.stack[k].of = of, !.stack[k].button = button]
    BY <1>1 DEF States, SlotStates
  <1> HIDE DEF slot, two
  <1>7. two \in States /\ two.stack[k] = slot /\ two.stack = [s.stack EXCEPT ![k] = slot]
    BY <1>1, <1>3, <1>4 DEF States
  <1>8. t = [two EXCEPT !.stack = [two.stack EXCEPT ![k] = [two.stack[k] EXCEPT !.button = button]]]
    BY <1>1, <1>4, <1>7 DEF States, SlotStates
  <1>9. [two.stack EXCEPT ![k] = [two.stack[k] EXCEPT !.button = button]]
            = [s.stack EXCEPT ![k] = [slot EXCEPT !.button = button]]
    BY <1>1, <1>7
  <1>10. t = [s EXCEPT !.stack = [s.stack EXCEPT ![k] = [slot EXCEPT !.button = button]]]
    BY <1>3, <1>8, <1>9 DEF States
  <1> HIDE DEF t
  <1> QED BY <1>5, <1>6, <1>10 DEF SetSlot, Dressed

\* A dressed slot.
LEMMA DressedFields ==
    ASSUME NEW slot \in SlotStates, NEW of \in DOMAIN Step, NEW button \in {"flow", "pages", "list"}
    PROVE  /\ Dressed(slot, of, button) \in SlotStates /\ Dressed(slot, of, button).screen
           /\ Dressed(slot, of, button).of = of /\ Dressed(slot, of, button).button = button
           /\ Dressed(slot, of, button).timer = slot.timer
           /\ Dressed(slot, of, button).interval = slot.interval
  BY DEF Dressed, SlotStates

\* What ux_stack_init leaves of a slot.
Blank(slot) == IF KeepTicker THEN [NoSlot EXCEPT !.timer = slot.timer, !.interval = slot.interval] ELSE NoSlot

\* It has no timer but in the build that keeps them.
LEMMA BlankFields ==
    ASSUME NEW slot \in SlotStates
    PROVE  Blank(slot) \in SlotStates /\ (~KeepTicker => Blank(slot).timer = 0)
  <1>1. slot.timer \in Nat /\ slot.interval \in Nat
    BY DEF SlotStates
  <1>2. NoSlot \in SlotStates /\ NoSlot.timer = 0
    BY DEF NoSlot, SlotStates
  <1>3. [NoSlot EXCEPT !.timer = slot.timer, !.interval = slot.interval] \in SlotStates
    BY <1>1, <1>2 DEF SlotStates
  <1> QED BY <1>2, <1>3 DEF Blank

-----------------------------------------------------------------------------
(* The screen of a step. *)

\* A slot at a screen: its current item is the step there.
Placed(s, k) ==
    /\ s \in States /\ s.flow[k].length # 0 /\ s.flow[k].length = Len(Flows[s.flow[k].steps])
    /\ <<s.flow[k].steps, s.flow[k].index>> \in Screens

\* That step is one of those that show something.
LEMMA PlacedStep ==
    ASSUME NEW s, NEW k \in SlotNumbers, Placed(s, k)
    PROVE  /\ Current(s, k) = Item(s.flow[k].steps, s.flow[k].index)
           /\ Current(s, k) \in DOMAIN Step /\ Current(s, k) \notin Markers
           /\ Step[Current(s, k)].kind \in {"text", "pages", "list"} /\ Step[Current(s, k)].timeout \in Nat
           /\ Step[Current(s, k)].pages \in Nat
           /\ Step[Current(s, k)].kind = "pages" => Step[Current(s, k)].pages > 0
           /\ Step[Current(s, k)].kind = "list" => s.flow[k].steps = Menu
  BY ScreenFacts DEF Placed, Current

\* The layouts of text and lists begin from a wiped slot.
LEMMA LayoutInitResult ==
    ASSUME NEW s, NEW k \in SlotNumbers, Placed(s, k), NEW button \in {"flow", "pages", "list"}
    PROVE  /\ Framed(s, LayoutInit(s, k, button), k) /\ LayoutInit(s, k, button).flow[k] = s.flow[k]
           /\ LayoutInit(s, k, button).page = s.page /\ LayoutInit(s, k, button).pages = s.pages
           /\ LayoutInit(s, k, button).stack[k].screen /\ LayoutInit(s, k, button).stack[k].of = Current(s, k)
           /\ LayoutInit(s, k, button).stack[k].button = button
           /\ ~KeepTicker => LayoutInit(s, k, button).stack[k].timer = 0
  <1> DEFINE of == Current(s, k)
             blank == Blank(s.stack[k])
             slot == Dressed(blank, of, button)
             wiped == StackInit(s, k)
             t == LayoutInit(s, k, button)
  <1>1. s \in States /\ s.stack \in [SlotNumbers -> SlotStates] /\ s.flow \in [SlotNumbers -> FlowStates]
        /\ s.stack[k] \in SlotStates /\ s.flow[k] \in FlowStates /\ s.page \in Nat /\ s.pages \in Nat
    BY StateFields DEF Placed
  <1>2. of \in DOMAIN Step
    BY PlacedStep
  <1>3. wiped = [s EXCEPT !.stack = [s.stack EXCEPT ![k] = blank]]
    BY <1>1 DEF StackInit, States, Blank
  <1>4. t = SetSlot(wiped, k, of, button)
    BY DEF LayoutInit, SetSlot
  <1>5. blank \in SlotStates /\ (~KeepTicker => blank.timer = 0)
    BY <1>1, BlankFields
  <1> HIDE DEF of, wiped, t, blank
  <1>6. wiped \in States /\ wiped.stack = [s.stack EXCEPT ![k] = blank] /\ wiped.stack[k] = blank
    BY <1>1, <1>3, <1>5 DEF States
  <1>7. slot \in SlotStates /\ slot.screen /\ slot.of = of /\ slot.button = button
        /\ (~KeepTicker => slot.timer = 0)
    BY <1>2, <1>5, DressedFields, SMTT(60)
  <1>8. t = [wiped EXCEPT !.stack = [wiped.stack EXCEPT ![k] = slot]]
    <2>1. t = [wiped EXCEPT !.stack = [wiped.stack EXCEPT ![k] = Dressed(wiped.stack[k], of, button)]]
      <3>1. wiped \in States
        BY <1>6
      <3>2. SetSlot(wiped, k, of, button)
              = [wiped EXCEPT !.stack = [wiped.stack EXCEPT ![k] = Dressed(wiped.stack[k], of, button)]]
        BY <1>2, <3>1, SetSlotResult
      <3> QED BY <1>4, <3>2
    <2>2. Dressed(wiped.stack[k], of, button) = slot
      BY <1>6
    <2> QED BY <2>1, <2>2
  <1> HIDE DEF slot
  <1>9. [wiped.stack EXCEPT ![k] = slot] = [s.stack EXCEPT ![k] = slot]
    BY <1>1, <1>6
  <1>10. t = [s EXCEPT !.stack = [s.stack EXCEPT ![k] = slot]]
    BY <1>1, <1>3, <1>8, <1>9 DEF States
  <1>11. t = Put(s, k, slot, s.flow[k], s.page, s.pages)
    BY <1>1, <1>10 DEF Put, States
  <1>12. Framed(s, t, k) /\ t.stack[k] = slot /\ t.flow[k] = s.flow[k] /\ t.page = s.page /\ t.pages = s.pages
    BY <1>1, <1>7, <1>11, PutSlot
  <1> QED BY <1>7, <1>12 DEF t, of

\* ux_layout_paging_redisplay_common opens the current page.
LEMMA PagingRedisplayResult ==
    ASSUME NEW s, NEW k \in SlotNumbers, Placed(s, k), NEW t, t = PagingRedisplay(s, k)
    PROVE  /\ Framed(s, t, k) /\ t.page = s.page /\ t.pages = s.pages
           /\ t.flow[k] = [s.flow[k] EXCEPT !.opened = @ \cup {s.page}]
           /\ t.stack[k].screen /\ t.stack[k].of = Current(s, k)
           /\ t.stack[k].button = "pages" /\ t.stack[k].timer = s.stack[k].timer
           /\ t.stack[k].interval = s.stack[k].interval
  <1> DEFINE of == Current(s, k)
             slot == Dressed(s.stack[k], of, "pages")
             flow == [s.flow[k] EXCEPT !.opened = @ \cup {s.page}]
             laid == SetSlot(s, k, of, "pages")
  <1>1. s \in States /\ s.stack \in [SlotNumbers -> SlotStates] /\ s.flow \in [SlotNumbers -> FlowStates]
        /\ s.stack[k] \in SlotStates /\ s.flow[k] \in FlowStates /\ s.page \in Nat /\ s.pages \in Nat
    BY StateFields DEF Placed
  <1>2. of \in DOMAIN Step
    BY PlacedStep
  <1>3. flow \in FlowStates
    BY <1>1 DEF FlowStates
  <1>4. t = [laid EXCEPT !.flow[k].opened = @ \cup {s.page}]
    BY <1>1 DEF PagingRedisplay, SetSlot, States, SlotStates
  <1> HIDE DEF of, laid
  <1>5. slot \in SlotStates /\ slot.screen /\ slot.of = of /\ slot.button = "pages"
        /\ slot.timer = s.stack[k].timer /\ slot.interval = s.stack[k].interval
    BY <1>1, <1>2, DressedFields
  <1>6. laid = [s EXCEPT !.stack = [s.stack EXCEPT ![k] = slot]]
    BY <1>1, <1>2, SetSlotResult DEF laid
  <1> HIDE DEF slot
  <1>7. laid.flow = s.flow
    BY <1>6 DEF States
  <1>8. t = [laid EXCEPT !.flow = [s.flow EXCEPT ![k] = flow]]
    BY <1>1, <1>4, <1>6, <1>7 DEF States, FlowStates
  <1> HIDE DEF flow
  <1>9. t = Put(s, k, slot, flow, s.page, s.pages)
    BY <1>1, <1>6, <1>8 DEF Put, States
  <1>10. Framed(s, t, k) /\ t.stack[k] = slot /\ t.flow[k] = flow /\ t.page = s.page /\ t.pages = s.pages
    BY <1>1, <1>3, <1>5, <1>9, PutSlot
  <1> QED BY <1>5, <1>10 DEF flow, of

\* The page a text begins with.
Asked(s, pages) == CASE Direction(s) = "BACKWARD" -> pages
                     [] Direction(s) = "FORWARD"  -> 0
                     [] Direction(s) = "START"    -> s.page

\* ux_layout_paging_init_common opens the first page, the last one or the page it was at.
LEMMA PagingInitResult ==
    ASSUME NEW s, NEW k \in SlotNumbers, Placed(s, k), Step[Current(s, k)].kind = "pages",
           NEW t, t = PagingInit(s, k), NEW pages, pages = Step[Current(s, k)].pages
    PROVE  /\ Framed(s, t, k) /\ t.page = Smaller(Asked(s, pages), pages - 1) /\ t.pages = pages
           /\ t.flow[k] = [s.flow[k] EXCEPT !.opened = @ \cup {t.page}]
           /\ t.stack[k].screen /\ t.stack[k].of = Current(s, k)
           /\ t.stack[k].button = "pages" /\ (~KeepTicker => t.stack[k].timer = 0)
  <1> DEFINE page == Smaller(Asked(s, pages), pages - 1)
             blank == Blank(s.stack[k])
             u == [StackInit(s, k) EXCEPT !.pages = pages, !.page = page]
  <1>1. s \in States /\ s.stack \in [SlotNumbers -> SlotStates] /\ s.flow \in [SlotNumbers -> FlowStates]
        /\ s.stack[k] \in SlotStates /\ s.flow[k] \in FlowStates /\ s.page \in Nat /\ s.pages \in Nat
    BY StateFields DEF Placed
  <1>2. pages \in Nat /\ pages > 0
    BY PlacedStep
  <1>3. Direction(s) \in Ways
    BY DEF Direction, Ways
  <1>4. Asked(s, pages) \in Nat
    BY <1>1, <1>2, <1>3 DEF Asked, Ways
  <1>5. page \in Nat
    BY <1>2, <1>4 DEF Smaller
  <1>6. t = PagingRedisplay(u, k)
    BY DEF PagingInit, Asked
  <1> HIDE DEF page
  <1>7. u = Put(s, k, blank, s.flow[k], page, pages)
    <2>1. StackInit(s, k) = [s EXCEPT !.stack = [s.stack EXCEPT ![k] = blank]]
      BY <1>1 DEF StackInit, Blank, States
    <2> HIDE DEF blank
    <2> QED BY <1>1, <2>1 DEF Put, States
  <1>8. blank \in SlotStates /\ (~KeepTicker => blank.timer = 0)
    BY <1>1, BlankFields
  <1> HIDE DEF u, blank
  <1>9. Framed(s, u, k) /\ u.stack[k] = blank /\ u.flow[k] = s.flow[k] /\ u.page = page /\ u.pages = pages
    BY <1>1, <1>2, <1>5, <1>7, <1>8, PutSlot
  <1>10. Placed(u, k) /\ Current(u, k) = Current(s, k)
    BY <1>9 DEF Placed, Framed, Current
  <1>11. Framed(u, t, k) /\ t.page = u.page /\ t.pages = u.pages
         /\ t.flow[k] = [u.flow[k] EXCEPT !.opened = @ \cup {u.page}]
         /\ t.stack[k].screen /\ t.stack[k].of = Current(u, k)
         /\ t.stack[k].button = "pages" /\ t.stack[k].timer = u.stack[k].timer
    BY <1>6, <1>10, PagingRedisplayResult
  <1>12. Framed(s, t, k)
    BY <1>9, <1>11 DEF Framed
  <1>13. ~KeepTicker => u.stack[k].timer = 0
    BY <1>8, <1>9
  <1> QED BY <1>9, <1>10, <1>11, <1>12, <1>13 DEF page

\* What the init of a step makes of slot k and of the pages.
Pages(s, k) == Step[Current(s, k)].pages
Before(s, k, way) == IF way = "again" THEN s.flow[k].opened ELSE {}
Shown(s, t, k, way) ==
    /\ Framed(s, t, k)
    /\ t.flow[k].steps = s.flow[k].steps /\ t.flow[k].index = s.flow[k].index
    /\ t.flow[k].prev = s.flow[k].prev /\ t.flow[k].length = s.flow[k].length
    /\ t.flow[k].entered = IF way = "again" THEN s.flow[k].entered ELSE way
    /\ t.stack[k].screen /\ t.stack[k].of = Current(s, k)
    /\ t.stack[k].button = ButtonFor(Step[Current(s, k)].kind)
    /\ Timed(t.stack[k])
    /\ k = Top(s) => Drawn(t, t, k)
    /\ Step[Current(s, k)].kind # "pages" =>
          t.page = s.page /\ t.pages = s.pages /\ t.flow[k].opened = Before(s, k, way)
    /\ Step[Current(s, k)].kind = "pages" =>
          /\ t.pages = Pages(s, k) /\ t.page = Smaller(Asked(s, Pages(s, k)), Pages(s, k) - 1)
          /\ t.flow[k].opened = Before(s, k, way) \cup {t.page}

\* The timer of a slot.
TimerSet(s, k, timer, interval) == [s EXCEPT !.stack[k].timer = timer, !.stack[k].interval = interval]
TimerPut(s, k, timer, interval) ==
    [s EXCEPT !.stack = [s.stack EXCEPT ![k] = [s.stack[k] EXCEPT !.timer = timer, !.interval = interval]]]

\* Setting it is replacing the slot.
LEMMA TimerSlot ==
    ASSUME NEW s \in States, NEW k \in SlotNumbers, NEW timer \in Nat, NEW interval \in Nat
    PROVE  TimerSet(s, k, timer, interval) = TimerPut(s, k, timer, interval)
  <1> DEFINE slot == [s.stack[k] EXCEPT !.timer = timer, !.interval = interval]
             half == [s.stack[k] EXCEPT !.timer = timer]
             one == [s EXCEPT !.stack[k].timer = timer]
             t == TimerSet(s, k, timer, interval)
  <1>1. s.stack \in [SlotNumbers -> SlotStates] /\ s.stack[k] \in SlotStates
    BY StateFields
  <1>2. half \in SlotStates /\ slot = [half EXCEPT !.interval = interval]
    BY <1>1 DEF SlotStates
  <1>3. one = [s EXCEPT !.stack = [s.stack EXCEPT ![k] = half]]
    BY <1>1 DEF States, SlotStates
  <1>4. t = [one EXCEPT !.stack[k].interval = interval]
    BY <1>1 DEF States, SlotStates, TimerSet
  <1> HIDE DEF half, slot, one, t
  <1>5. one \in States /\ one.stack = [s.stack EXCEPT ![k] = half] /\ one.stack[k] = half
    BY <1>1, <1>2, <1>3 DEF States
  <1>6. t = [one EXCEPT !.stack = [one.stack EXCEPT ![k] = [one.stack[k] EXCEPT !.interval = interval]]]
    BY <1>2, <1>4, <1>5 DEF States, SlotStates
  <1>7. [one.stack EXCEPT ![k] = [one.stack[k] EXCEPT !.interval = interval]] = [s.stack EXCEPT ![k] = slot]
    BY <1>1, <1>2, <1>5
  <1>8. t = [s EXCEPT !.stack = [s.stack EXCEPT ![k] = slot]]
    BY <1>3, <1>6, <1>7 DEF States
  <1> QED BY <1>8 DEF t, slot, TimerPut

\* Setting it changes nothing else.
LEMMA SetTimer ==
    ASSUME NEW s \in States, NEW k \in SlotNumbers, NEW timer \in Nat, NEW interval \in Nat,
           NEW t, t = TimerSet(s, k, timer, interval)
    PROVE  /\ Framed(s, t, k) /\ t.flow = s.flow /\ t.page = s.page /\ t.pages = s.pages
           /\ t.stack[k].screen = s.stack[k].screen /\ t.stack[k].cursor = s.stack[k].cursor
           /\ t.stack[k].button = s.stack[k].button /\ t.stack[k].timer = timer /\ t.stack[k].interval = interval
           /\ t.stack[k].of = s.stack[k].of /\ t.stack[k].drawn = s.stack[k].drawn
  <1> DEFINE slot == [s.stack[k] EXCEPT !.timer = timer, !.interval = interval]
  <1>1. s.stack \in [SlotNumbers -> SlotStates] /\ s.stack[k] \in SlotStates /\ s.flow \in [SlotNumbers -> FlowStates]
        /\ s.flow[k] \in FlowStates /\ s.page \in Nat /\ s.pages \in Nat
    BY StateFields
  <1>2. /\ slot \in SlotStates /\ slot.screen = s.stack[k].screen /\ slot.cursor = s.stack[k].cursor
        /\ slot.button = s.stack[k].button /\ slot.timer = timer /\ slot.interval = interval
        /\ slot.of = s.stack[k].of /\ slot.drawn = s.stack[k].drawn
    BY <1>1 DEF SlotStates
  <1>3. t = [s EXCEPT !.stack = [s.stack EXCEPT ![k] = slot]]
    <2>1. t = TimerPut(s, k, timer, interval)
      BY TimerSlot
    <2> QED BY <2>1 DEF TimerPut
  <1> HIDE DEF slot
  <1>4. t = Put(s, k, slot, s.flow[k], s.page, s.pages)
    BY <1>1, <1>3 DEF Put, States
  <1>5. Framed(s, t, k) /\ t.stack[k] = slot /\ t.page = s.page /\ t.pages = s.pages
    BY <1>1, <1>2, <1>4, PutSlot
  <1>6. t.flow = s.flow
    BY <1>3 DEF States
  <1> QED BY <1>2, <1>5, <1>6

\* A flow remembers how its step was reached.
LEMMA EnteredResult ==
    ASSUME NEW s \in States, NEW k \in SlotNumbers, NEW way \in Ways \cup {"again"}, NEW t, t = Entered(s, k, way)
    PROVE  /\ Framed(s, t, k) /\ t.stack = s.stack /\ t.page = s.page /\ t.pages = s.pages
           /\ t.flow[k].steps = s.flow[k].steps /\ t.flow[k].index = s.flow[k].index
           /\ t.flow[k].prev = s.flow[k].prev /\ t.flow[k].length = s.flow[k].length
           /\ t.flow[k].entered = IF way = "again" THEN s.flow[k].entered ELSE way
           /\ t.flow[k].opened = Before(s, k, way)
  <1> DEFINE flow == [s.flow[k] EXCEPT !.entered = way, !.opened = {}]
             one == [s EXCEPT !.flow[k].entered = way]
  <1>1. s.stack \in [SlotNumbers -> SlotStates] /\ s.stack[k] \in SlotStates /\ s.flow \in [SlotNumbers -> FlowStates]
        /\ s.flow[k] \in FlowStates /\ s.page \in Nat /\ s.pages \in Nat
    BY StateFields
  <1>2. CASE way = "again"
    BY <1>2 DEF Entered, Framed, Before
  <1>3. CASE way # "again"
    <2>1. /\ flow \in FlowStates /\ flow.steps = s.flow[k].steps /\ flow.index = s.flow[k].index
          /\ flow.prev = s.flow[k].prev /\ flow.length = s.flow[k].length
          /\ flow.entered = way /\ flow.opened = {}
      BY <1>1, <1>3 DEF FlowStates
    <2>2. one = [s EXCEPT !.flow = [s.flow EXCEPT ![k] = [s.flow[k] EXCEPT !.entered = way]]]
      BY <1>1 DEF States, FlowStates
    <2>3. t = [one EXCEPT !.flow[k].opened = {}]
      BY <1>1, <1>3 DEF States, FlowStates, Entered
    <2> HIDE DEF one
    <2>4. t = [s EXCEPT !.flow = [s.flow EXCEPT ![k] = flow]]
      BY <1>1, <2>2, <2>3 DEF States, FlowStates
    <2> HIDE DEF flow
    <2>5. t = Put(s, k, s.stack[k], flow, s.page, s.pages)
      BY <1>1, <2>4 DEF Put, States
    <2>6. Framed(s, t, k) /\ t.flow[k] = flow /\ t.page = s.page /\ t.pages = s.pages
      BY <1>1, <2>1, <2>5, PutSlot
    <2>7. t.stack = s.stack
      BY <2>4 DEF States
    <2> QED BY <1>3, <2>1, <2>6, <2>7 DEF Before
  <1> QED BY <1>2, <1>3

\* The init of a step: its layout, its elements when it is on top, its timer.
LEMMA ShowStepResult ==
    ASSUME NEW s, NEW k \in SlotNumbers, Placed(s, k), NEW way \in Ways \cup {"again"}
    PROVE  Shown(s, ShowStep(s, k, way), k, way)
  <1> DEFINE name == Current(s, k)
             e == IF way = "again" THEN s.flow[k].entered ELSE way
             o == Before(s, k, way)
             entered == Entered(s, k, way)
             laid == IF Step[name].kind = "pages" THEN PagingInit(entered, k)
                     ELSE LayoutInit(entered, k, IF Step[name].kind = "list" THEN "list" ELSE "flow")
             shown == StackDisplay(laid, k)
             timed == TimerSet(shown, k, Step[name].timeout, Step[name].timeout)
             t == IF Step[name].timeout = 0 THEN shown ELSE timed
  <1>1. s \in States
    BY DEF Placed
  <1>2. ShowStep(s, k, way) = t
    BY DEF ShowStep, Laid, Armed, TimerSet
  <1>4. /\ Framed(s, entered, k) /\ entered.stack = s.stack /\ entered.page = s.page /\ entered.pages = s.pages
        /\ entered.flow[k].steps = s.flow[k].steps /\ entered.flow[k].index = s.flow[k].index
        /\ entered.flow[k].prev = s.flow[k].prev /\ entered.flow[k].length = s.flow[k].length
        /\ entered.flow[k].entered = e /\ entered.flow[k].opened = o
    BY <1>1, EnteredResult
  <1> HIDE DEF entered, e, o
  <1>6. Placed(entered, k) /\ Current(entered, k) = name
    BY <1>4 DEF Placed, Framed, Current
  <1>7. Direction(entered) = Direction(s)
    <2>1. Top(entered) = Top(s) /\ Top(s) \in SlotNumbers
      BY <1>1, <1>4, StateFields DEF Framed, Top
    <2>2. TopFlow(entered).index = TopFlow(s).index /\ TopFlow(entered).prev = TopFlow(s).prev
      BY <1>4, <2>1 DEF Framed, TopFlow
    <2> QED BY <2>2 DEF Direction
  <1>8. Asked(entered, Pages(s, k)) = Asked(s, Pages(s, k))
    BY <1>4, <1>7 DEF Asked
  <1>9. /\ name \in DOMAIN Step /\ Step[name].kind \in {"text", "pages", "list"} /\ Step[name].timeout \in Nat
    BY PlacedStep
  <1> HIDE DEF name
  <1>10. /\ Framed(entered, laid, k)
         /\ Step[name].kind # "pages" =>
              laid.page = s.page /\ laid.pages = s.pages /\ laid.flow[k] = entered.flow[k]
         /\ Step[name].kind = "pages" =>
              /\ laid.pages = Pages(s, k) /\ laid.page = Smaller(Asked(s, Pages(s, k)), Pages(s, k) - 1)
              /\ laid.flow[k] = [entered.flow[k] EXCEPT !.opened = @ \cup {laid.page}]
         /\ laid.stack[k].screen /\ laid.stack[k].of = name
         /\ (~KeepTicker => laid.stack[k].timer = 0)
         /\ laid.stack[k].button = ButtonFor(Step[name].kind)
    <2>1. CASE Step[name].kind = "pages"
      <3>1. laid = PagingInit(entered, k) /\ Pages(s, k) = Step[Current(entered, k)].pages
        BY <2>1, <1>6 DEF Pages, name
      <3> HIDE DEF laid
      <3> QED BY <1>4, <1>6, <1>8, <2>1, <3>1, PagingInitResult DEF ButtonFor
    <2>2. CASE Step[name].kind # "pages"
      <3>1. laid = LayoutInit(entered, k, ButtonFor(Step[name].kind))
        BY <2>2 DEF ButtonFor
      <3>2. ButtonFor(Step[name].kind) \in {"flow", "pages", "list"}
        BY DEF ButtonFor
      <3> HIDE DEF laid
      <3> QED BY <1>4, <1>6, <2>2, <3>1, <3>2, LayoutInitResult
    <2> QED BY <2>1, <2>2
  <1> HIDE DEF laid
  <1>11. laid \in States /\ Top(laid) = Top(s)
    BY <1>4, <1>10 DEF Framed, Top
  <1>12. Redrawn(laid, shown, k) /\ (k = Top(s) => Drawn(laid, shown, k))
    BY <1>11, StackDisplayResult
  <1> HIDE DEF shown
  <1>13. shown \in States
    BY <1>12 DEF Redrawn, Framed
  <1>14. /\ Framed(shown, t, k) /\ t.flow = shown.flow /\ t.page = shown.page /\ t.pages = shown.pages
         /\ t.stack[k].screen = shown.stack[k].screen /\ t.stack[k].cursor = shown.stack[k].cursor
         /\ t.stack[k].button = shown.stack[k].button /\ Timed(t.stack[k])
         /\ t.stack[k].of = shown.stack[k].of /\ t.stack[k].drawn = shown.stack[k].drawn
    <2>1. CASE Step[name].timeout = 0
      BY <2>1, <1>10, <1>12, <1>13 DEF Redrawn, Framed, Timed
    <2>2. CASE Step[name].timeout # 0
      <3>1. t = timed
        BY <2>2
      <3>2. shown.stack[k].of = name
        BY <1>10, <1>12 DEF Redrawn
      <3> HIDE DEF t
      <3>3. /\ Framed(shown, t, k) /\ t.flow = shown.flow /\ t.page = shown.page /\ t.pages = shown.pages
            /\ t.stack[k].screen = shown.stack[k].screen /\ t.stack[k].cursor = shown.stack[k].cursor
            /\ t.stack[k].button = shown.stack[k].button /\ t.stack[k].timer = Step[name].timeout
            /\ t.stack[k].interval = Step[name].timeout
            /\ t.stack[k].of = shown.stack[k].of /\ t.stack[k].drawn = shown.stack[k].drawn
        BY <1>9, <1>13, <3>1, SetTimer
      <3>4. Timed(t.stack[k])
        BY <1>9, <3>2, <3>3 DEF Timed
      <3> QED BY <3>3, <3>4
    <2> QED BY <2>1, <2>2
  <1> HIDE DEF t
  <1>15. Framed(s, t, k)
    BY <1>4, <1>10, <1>12, <1>14 DEF Redrawn, Framed
  <1>16. k = Top(s) => Drawn(t, t, k)
    <2>1. Hides(t, Step[name].kind) = Hides(laid, Step[name].kind)
      <3>1. t.count = laid.count /\ TopFlow(t) = TopFlow(laid) /\ t.page = laid.page /\ t.pages = laid.pages
            /\ t.list = laid.list /\ t.item = laid.item
        BY <1>12, <1>14 DEF Redrawn, Framed, TopFlow, Top
      <3> QED BY <3>1, HidesSame
    <2> QED BY <2>1, <1>10, <1>12, <1>14 DEF Drawn, Redrawn
  <1>17. laid.flow[k].entered = e /\ laid.flow[k].steps = s.flow[k].steps /\ laid.flow[k].index = s.flow[k].index
         /\ laid.flow[k].prev = s.flow[k].prev /\ laid.flow[k].length = s.flow[k].length
         /\ (Step[name].kind # "pages" => laid.flow[k].opened = o)
         /\ (Step[name].kind = "pages" => laid.flow[k].opened = o \cup {laid.page})
    <2>1. entered.flow[k] \in FlowStates
      BY <1>4, StateFields DEF Framed
    <2> QED BY <1>4, <1>10, <2>1 DEF FlowStates
  <1>18. t.flow[k] = laid.flow[k] /\ t.page = laid.page /\ t.pages = laid.pages
    BY <1>12, <1>14 DEF Redrawn
  <1>19. t.stack[k].screen /\ t.stack[k].of = name /\ t.stack[k].button = ButtonFor(Step[name].kind)
    BY <1>10, <1>12, <1>14 DEF Redrawn
  <1> QED BY <1>2, <1>10, <1>14, <1>15, <1>16, <1>17, <1>18, <1>19 DEF Shown, name, e, o

-----------------------------------------------------------------------------
(* Where a flow starts and where a move arrives. *)

\* A position is the pair of its flow and its index.
LEMMA StopPair ==
    ASSUME NEW p \in Stops
    PROVE  p = <<p[1], p[2]>>
  BY DEF Stops, Positions

\* ux_flow_init puts a flow at a screen, and wipes the paging.
LEMMA FlowStartResult ==
    ASSUME NEW s \in States, NEW k \in SlotNumbers, NEW f, NEW at, <<f, at>> \in Stops,
           NEW t, t = FlowStart(s, k, f, at)
    PROVE  /\ Framed(s, t, k) /\ Placed(t, k) /\ t.stack = s.stack /\ t.page = 0 /\ t.pages = 0
           /\ t.flow[k].steps = Lands[<<f, at>>][1] /\ t.flow[k].index = Lands[<<f, at>>][2]
           /\ t.flow[k].prev = (IF t.flow[k].index = 0 THEN 0 ELSE t.flow[k].index - 1)
           /\ f # Menu => t.flow[k].steps # Menu
  <1> DEFINE q == Lands[<<f, at>>]
             prev == IF q[2] = 0 THEN 0 ELSE q[2] - 1
             length == Len(Flows[q[1]])
             flow == [NoFlow EXCEPT !.steps = q[1], !.index = q[2], !.prev = prev, !.length = length]
  <1>1. s.stack \in [SlotNumbers -> SlotStates] /\ s.stack[k] \in SlotStates /\ s.flow \in [SlotNumbers -> FlowStates]
        /\ s.flow[k] \in FlowStates /\ s.page \in Nat /\ s.pages \in Nat
    BY StateFields
  <1>2. q \in Screens /\ q \in Stops /\ (f # Menu => q[1] # Menu)
    BY LandsAssumption, ListsAssumption DEF Screens
  <1> HIDE DEF q
  <1>3. <<q[1], q[2]>> \in Screens
    BY <1>2, StopPair
  <1>4. q[1] \in DOMAIN Flows /\ q[2] \in Nat /\ Len(Flows[q[1]]) \in Nat /\ Len(Flows[q[1]]) > 0
    BY <1>3, ScreenFacts
  <1>41. prev \in Nat /\ length \in Nat /\ length > 0
    BY <1>4
  <1> HIDE DEF prev, length
  <1>5. /\ flow \in FlowStates /\ flow.steps = q[1] /\ flow.index = q[2] /\ flow.length = length
        /\ flow.prev = prev /\ flow.entered = None /\ flow.opened = {}
    BY <1>4, <1>41 DEF FlowStates, NoFlow
  <1>6. t = [s EXCEPT !.flow = [s.flow EXCEPT ![k] = flow], !.page = 0, !.pages = 0]
    BY <1>1 DEF FlowStart, q, prev, length, States
  <1> HIDE DEF flow
  <1>7. t = Put(s, k, s.stack[k], flow, 0, 0)
    BY <1>1, <1>6, ZenonT(60) DEF Put, States
  <1>8. Framed(s, t, k) /\ t.flow[k] = flow /\ t.page = 0 /\ t.pages = 0
    BY <1>1, <1>5, <1>7, PutSlot
  <1>9. t.stack = s.stack
    BY <1>6 DEF States
  <1>10. Placed(t, k)
    BY <1>3, <1>41, <1>5, <1>8 DEF Placed, Framed, length
  <1> QED BY <1>2, <1>5, <1>8, <1>9, <1>10 DEF q, prev

\* A slot at a step.
Stopped(s, k) ==
    /\ s \in States /\ s.flow[k].length # 0 /\ s.flow[k].length = Len(Flows[s.flow[k].steps])
    /\ <<s.flow[k].steps, s.flow[k].index>> \in Stops

\* The step of a slot, and where it goes.
StepOf(s, k) == Step[Item(s.flow[k].steps, s.flow[k].index)]
Goes(s, k) == StepOf(s, k).kind = "goto"

\* ux_flow_engine_init_step shows a screen.
LEMMA InitScreen ==
    ASSUME NEW s, NEW k \in SlotNumbers, Placed(s, k), NEW way
    PROVE  InitStep(s, k, way) = ShowStep(s, k, way)
  BY PlacedStep DEF InitStep

\* A screen is a step that does not go elsewhere.
LEMMA PlacedOrGoes ==
    ASSUME NEW s, NEW k \in SlotNumbers, Stopped(s, k)
    PROVE  /\ Placed(s, k) <=> ~Goes(s, k)
           /\ Current(s, k) = Item(s.flow[k].steps, s.flow[k].index)
           /\ Current(s, k) \in DOMAIN Step /\ Current(s, k) \notin Markers
           /\ StepOf(s, k) \in StepKind
           /\ Goes(s, k) => <<StepOf(s, k).to, StepOf(s, k).at>> \in Stops
           /\ StepOf(s, k).to # Menu /\ StepOf(s, k).validate # Menu /\ StepOf(s, k).error # Menu
  <1> DEFINE f == s.flow[k].steps
             i == s.flow[k].index
  <1>1. <<f, i>> \in Stops /\ s \in States /\ s.flow[k].length # 0 /\ s.flow[k].length = Len(Flows[f])
    BY DEF Stopped
  <1>2. f \in DOMAIN Flows /\ i \in 0..(Len(Flows[f]) - 1) /\ Item(f, i) \in DOMAIN Step
    BY <1>1, StopFacts
  <1>3. Item(f, i) \notin Markers /\ Step[Item(f, i)] \in StepKind
    BY <1>2, FlowsAssumption
  <1>4. Menu \notin {Step[Item(f, i)].validate, Step[Item(f, i)].error, Step[Item(f, i)].to}
    BY <1>2, ListsAssumption
  <1>5. <<f, i>> \in Screens <=> Step[Item(f, i)].kind # "goto"
    BY <1>1 DEF Screens
  <1>6. Step[Item(f, i)].kind = "goto" => <<Step[Item(f, i)].to, Step[Item(f, i)].at>> \in Stops
    BY <1>1, <1>5, LandsAssumption
  <1>7. Current(s, k) = Item(f, i)
    BY <1>1 DEF Current
  <1> HIDE DEF f, i
  <1> QED BY <1>1, <1>2, <1>3, <1>4, <1>5, <1>6, <1>7 DEF Placed, Goes, StepOf, f, i

\* And starts the flow of a step that shows nothing.
LEMMA InitGoto ==
    ASSUME NEW s, NEW k \in SlotNumbers, Stopped(s, k), Goes(s, k), NEW way
    PROVE  InitStep(s, k, way)
              = ShowStep(FlowStart(s, k, StepOf(s, k).to, StepOf(s, k).at), k, "START")
  <1> DEFINE t == FlowStart(s, k, StepOf(s, k).to, StepOf(s, k).at)
  <1>1. Current(s, k) \notin Markers /\ Step[Current(s, k)] = StepOf(s, k)
    BY PlacedOrGoes DEF StepOf
  <1>2. Placed(t, k)
    BY PlacedOrGoes, FlowStartResult DEF Stopped
  <1>3. Current(t, k) \notin Markers
    BY <1>2, PlacedStep
  <1> QED BY <1>1, <1>3 DEF InitStep, Goes

\* ux_flow_init and its first screen.
LEMMA FlowInitShows ==
    ASSUME NEW s \in States, NEW k \in SlotNumbers, NEW f, NEW at, <<f, at>> \in Stops
    PROVE  FlowInit(s, k, f, at) = ShowStep(FlowStart(s, k, f, at), k, "START")
  <1>1. Placed(FlowStart(s, k, f, at), k)
    BY FlowStartResult
  <1> QED BY <1>1, InitScreen DEF FlowInit

\* The first step of a flow is one.
LEMMA FlowBegins ==
    ASSUME NEW f \in DOMAIN Flows
    PROVE  <<f, 0>> \in Stops
  <1>1. Flows[f][1] \in DOMAIN Step /\ Len(Flows[f]) > 0 /\ Len(Flows[f]) \in Nat
    BY FlowsAssumption
  <1> QED BY <1>1, StopFacts DEF Item

\* What an operation may assume of a state whose slot k it lays out again.
Ground(s, k) ==
    /\ Base(s) /\ k \in SlotNumbers /\ k < s.count
    /\ \A j \in SlotNumbers \ {k} : Good(s.stack[j], s.flow[j])

\* An operation of the top leaves the buttons of a slot 0 that is under it.
LEMMA ApartTop ==
    ASSUME NEW s \in States, Apart(s), NEW t, Framed(s, t, Top(s))
    PROVE  Apart(t)
  <1>1. s.count \in Nat /\ 0 \in SlotNumbers /\ t.count = s.count
    BY StateFields, SlotsAssumption DEF SlotNumbers, Framed
  <1>2. ASSUME s.count > 1 PROVE t.stack[0] = s.stack[0]
    <2>1. 0 # Top(s)
      BY <1>1, <1>2 DEF Top
    <2> QED BY <1>1, <2>1 DEF Framed
  <1> QED BY <1>1, <1>2 DEF Apart

\* As one that draws does.
LEMMA ApartSame ==
    ASSUME NEW s, Apart(s), NEW t, t.count = s.count, t.stack[0].button = s.stack[0].button
    PROVE  Apart(t)
  BY DEF Apart

\* One operation of slot k after another.
LEMMA FramedTwice ==
    ASSUME NEW s, NEW t, NEW u, NEW k, Framed(s, t, k), Framed(t, u, k)
    PROVE  Framed(s, u, k)
  BY DEF Framed

\* How a step is reached, as ux_flow_direction will have it.
Reached(u, k, way) ==
    u.flow[k].index < u.flow[k].prev =>
        way = "BACKWARD" \/ (way = "again" /\ u.flow[k].entered = "BACKWARD")

\* A slot whose step has been shown is occupied by it.
LEMMA ShownOccupied ==
    ASSUME NEW u, NEW k \in SlotNumbers, Placed(u, k), NEW way, Reached(u, k, way),
           NEW t, Shown(u, t, k, way)
    PROVE  Occupied(t.stack[k], t.flow[k]) /\ t.flow[k].length # 0
  <1> DEFINE name == Current(u, k)
  <1>1. name = Item(u.flow[k].steps, u.flow[k].index) /\ Step[name].timeout \in Nat
    BY PlacedStep
  <1> HIDE DEF name
  <1>2. /\ t.flow[k].steps = u.flow[k].steps /\ t.flow[k].index = u.flow[k].index
        /\ t.flow[k].prev = u.flow[k].prev /\ t.flow[k].length = u.flow[k].length
        /\ t.flow[k].entered = IF way = "again" THEN u.flow[k].entered ELSE way
        /\ t.stack[k].screen /\ t.stack[k].of = name
        /\ t.stack[k].button = ButtonFor(Step[name].kind) /\ Timed(t.stack[k])
    BY DEF Shown, name
  <1>3. t.flow[k].index < t.flow[k].prev => t.flow[k].entered = "BACKWARD"
    BY <1>2 DEF Reached
  <1> QED BY <1>1, <1>2, <1>3 DEF Occupied, Placed

\* The screen on top is drawn and its page exists, and all else is as before.
LEMMA ShownInv ==
    ASSUME NEW s, NEW k, Ground(s, k), k = Top(s), NEW u, Framed(s, u, k), Placed(u, k),
           u.page <= u.pages, u.flow[k].steps = Menu => s.list \in DOMAIN Lists,
           NEW way, Reached(u, k, way), NEW t, Shown(u, t, k, way)
    PROVE  Inv(t) /\ Framed(s, t, k)
  <1> DEFINE name == Current(u, k)
  <1>1. k \in SlotNumbers /\ s \in States /\ k < s.count /\ Base(s)
    BY DEF Ground, Base
  <1>2. Framed(s, t, k)
    BY FramedTwice DEF Shown
  <1>3. t \in States /\ t.count = s.count /\ t.list = s.list /\ t.item = s.item
        /\ \A j \in SlotNumbers \ {k} : t.stack[j] = s.stack[j] /\ t.flow[j] = s.flow[j]
    BY <1>2 DEF Framed
  <1>4. Top(t) = k /\ Top(u) = k
    BY <1>3 DEF Top, Framed
  <1>5. Occupied(t.stack[k], t.flow[k]) /\ t.flow[k].length # 0
    BY <1>1, ShownOccupied
  <1>6. \A j \in SlotNumbers : Good(t.stack[j], t.flow[j])
    BY <1>3, <1>5 DEF Good, Ground
  <1>7. t.flow[k].steps = u.flow[k].steps /\ t.stack[k].of = name /\ (k = Top(u) => Drawn(t, t, k))
        /\ (Step[name].kind # "pages" => t.page = u.page /\ t.pages = u.pages)
        /\ (Step[name].kind = "pages" => t.pages = Step[name].pages
                /\ t.page = Smaller(Asked(u, Pages(u, k)), Pages(u, k) - 1))
    BY DEF Shown, Pages, name
  <1>8. /\ Step[name].pages \in Nat /\ (Step[name].kind = "pages" => Step[name].pages > 0)
    BY <1>1, PlacedStep
  <1>9. Listed(t)
    <2>1. Listed(s)
      BY <1>1 DEF Base
    <2>2. ASSUME NEW j \in SlotNumbers, t.flow[j].steps = Menu PROVE t.list \in DOMAIN Lists
      <3>1. CASE j = k
        BY <1>3, <1>7, <2>2, <3>1
      <3>2. CASE j # k
        BY <1>3, <2>1, <2>2, <3>2 DEF Listed
      <3> QED BY <3>1, <3>2
    <2>3. t.list # None => t.item \in 0..(Lists[t.list].items - 1)
      BY <1>3, <2>1 DEF Listed
    <2> QED BY <2>2, <2>3 DEF Listed
  <1>10. Base(t)
    <2>1. s.count \in Nat /\ k \in Nat
      BY <1>1, StateFields DEF SlotNumbers
    <2>2. \A j \in SlotNumbers : j >= s.count => j # k
      BY <1>1, <2>1
    <2>3. Apart(t)
      BY <1>1, <1>2, ApartTop DEF Base
    <2> QED BY <1>1, <1>3, <1>9, <2>2, <2>3 DEF Base
  <1>11. Asked(u, Pages(u, k)) \in Nat
    <2>1. u.page \in Nat
      BY StateFields DEF Framed
    <2>2. Direction(u) \in Ways
      BY DEF Direction, Ways
    <2> QED BY <1>8, <2>1, <2>2 DEF Asked, Ways, Pages, name
  <1> HIDE DEF name
  <1>12. PageFits(t)
    <2>1. TopSlot(t).of = name
      BY <1>4, <1>7 DEF TopSlot
    <2>2. CASE Step[name].kind = "pages"
      BY <1>7, <1>8, <1>11, <2>1, <2>2 DEF PageFits, TopStep, Smaller, Pages, name
    <2>3. CASE Step[name].kind # "pages"
      BY <1>7, <2>1, <2>3 DEF PageFits, Paged, TopStep
    <2> QED BY <2>2, <2>3
  <1>13. Painted(t)
    BY <1>4, <1>7 DEF Painted, Drawn, TopSlot, TopStep
  <1> QED BY <1>2, <1>6, <1>10, <1>12, <1>13 DEF Inv

\* A text in pages newly reached has one page open: the first, unless it is reached from
\* a later step.
Fresh(t) == Paged(t) => /\ TopFlow(t).opened = {t.page}
                        /\ TopFlow(t).entered # "BACKWARD" => t.page = 0

\* Reaching it opens that page.
LEMMA ShownFresh ==
    ASSUME NEW u, NEW k \in SlotNumbers, Placed(u, k), k = Top(u), NEW way \in Ways, NEW t, Shown(u, t, k, way),
           Direction(u) = "BACKWARD" => way = "BACKWARD",
           Direction(u) = "START" /\ Step[Current(u, k)].kind = "pages" => u.page = 0
    PROVE  Fresh(t) /\ TopFlow(t).entered = way
  <1> DEFINE name == Current(u, k)
             pages == Step[name].pages
  <1>1. /\ pages \in Nat /\ (Step[name].kind = "pages" => pages > 0)
    BY PlacedStep
  <1>2. Top(t) = k
    BY DEF Shown, Framed, Top
  <1>3. way # "again"
    BY DEF Ways
  <1>4. /\ t.flow[k].entered = way /\ t.stack[k].of = name
        /\ Step[name].kind = "pages" =>
              t.page = Smaller(Asked(u, pages), pages - 1) /\ t.flow[k].opened = {t.page}
    BY <1>3 DEF Shown, Pages, Before
  <1>5. Direction(u) \in Ways
    BY DEF Direction, Ways
  <1> HIDE DEF name, pages
  <1>6. Step[name].kind = "pages" /\ way # "BACKWARD" => t.page = 0
    <2>1. ASSUME Step[name].kind = "pages", way # "BACKWARD" PROVE Asked(u, pages) = 0
      BY <1>5, <2>1 DEF Asked, Ways, name
    <2> QED BY <1>1, <1>4, <2>1 DEF Smaller
  <1> QED BY <1>2, <1>4, <1>6 DEF Fresh, Paged, TopFlow, TopSlot, TopStep

-----------------------------------------------------------------------------
(* ux_flow_engine.c: each function that moves in a flow lays the top step out again, or  *)
(* does nothing.                                                                         *)

\* The slots of a state that satisfies the invariant.
LEMMA InvFacts ==
    ASSUME NEW s, Inv(s)
    PROVE  /\ s \in States /\ Base(s) /\ Listed(s) /\ s.count \in 1..Slots /\ Top(s) \in SlotNumbers
           /\ Ground(s, Top(s)) /\ s.page <= s.pages
           /\ \A k \in SlotNumbers : Good(s.stack[k], s.flow[k])
           /\ \A k \in SlotNumbers : s.flow[k].length # 0 => Occupied(s.stack[k], s.flow[k]) /\ Placed(s, k)
           /\ \A k \in SlotNumbers : s.flow[k].length = 0 => s.stack[k] = NoSlot /\ s.flow[k] = NoFlow
  <1>1. s \in States /\ Base(s) /\ Listed(s) /\ s.page <= s.pages
        /\ \A k \in SlotNumbers : Good(s.stack[k], s.flow[k])
    BY DEF Inv, Base, PageFits
  <1>2. s.count \in 1..Slots /\ Top(s) \in SlotNumbers /\ Slots \in Nat
    BY <1>1, StateFields, SlotsAssumption
  <1>3. Top(s) < s.count
    BY <1>2 DEF Top
  <1>4. Ground(s, Top(s))
    BY <1>1, <1>2, <1>3 DEF Ground
  <1>5. \A k \in SlotNumbers : s.flow[k].length # 0 => Occupied(s.stack[k], s.flow[k]) /\ Placed(s, k)
    BY <1>1 DEF Good, Occupied, Placed
  <1> QED BY <1>1, <1>2, <1>4, <1>5 DEF Good

\* What laying the top step out again comes to.
Relaid(s, t) ==
    /\ Inv(t) /\ Framed(s, t, Top(s)) /\ TopFlow(t).length # 0 /\ Top(t) = Top(s)
    /\ LoopsUnpaged => Fresh(t)
    /\ ~Paged(t) => t.page \in {0, s.page}

\* Showing a step that slot k has been put at.
LEMMA ShownRelaid ==
    ASSUME NEW s, NEW k, Ground(s, k), k = Top(s), NEW u, Framed(s, u, k), Placed(u, k),
           u.page <= u.pages, u.page \in {0, s.page}, u.flow[k].steps = Menu => s.list \in DOMAIN Lists,
           NEW way \in Ways, u.flow[k].index < u.flow[k].prev => way = "BACKWARD",
           LoopsUnpaged /\ u.flow[k].index = u.flow[k].prev /\ Step[Current(u, k)].kind = "pages" => u.page = 0
    PROVE  /\ Relaid(s, ShowStep(u, k, way))
           /\ TopFlow(ShowStep(u, k, way)).steps = u.flow[k].steps
           /\ TopFlow(ShowStep(u, k, way)).index = u.flow[k].index
           /\ TopFlow(ShowStep(u, k, way)).entered = way
           /\ ~Paged(ShowStep(u, k, way)) => ShowStep(u, k, way).page = u.page
  <1> DEFINE t == ShowStep(u, k, way)
  <1>1. k \in SlotNumbers /\ k = Top(u) /\ u \in States
    BY DEF Ground, Framed, Top
  <1>2. Shown(u, t, k, way)
    BY <1>1, ShowStepResult
  <1> HIDE DEF t
  <1>3. Reached(u, k, way)
    BY DEF Reached
  <1>4. Inv(t) /\ Framed(s, t, k)
    BY <1>2, <1>3, ShownInv
  <1>5. Top(t) = k /\ TopFlow(t) = t.flow[k]
    BY <1>4 DEF Framed, Top, TopFlow
  <1>6. t.flow[k].steps = u.flow[k].steps /\ t.flow[k].index = u.flow[k].index
        /\ t.flow[k].length = u.flow[k].length /\ u.flow[k].length # 0 /\ t.flow[k].entered = way
    BY <1>2 DEF Shown, Placed, Ways
  <1>7. u.flow[k].index \in Nat /\ u.flow[k].prev \in Nat /\ TopFlow(u) = u.flow[k]
    BY <1>1, SlotFields DEF TopFlow
  <1>8. (Direction(u) = "BACKWARD" => u.flow[k].index < u.flow[k].prev)
        /\ (Direction(u) = "START" => u.flow[k].index = u.flow[k].prev)
    BY <1>7 DEF Direction
  <1>9. LoopsUnpaged => Fresh(t)
    BY <1>1, <1>2, <1>8, ShownFresh
  <1>10. ~Paged(t) => t.page = u.page
    <2>1. t.stack[k].of = Current(u, k)
      BY <1>2 DEF Shown
    <2> QED BY <1>2, <1>5, <1>6, <2>1 DEF Paged, TopSlot, TopStep, Shown
  <1> QED BY <1>4, <1>5, <1>6, <1>9, <1>10 DEF Relaid, t

\* ux_flow_init of the top slot.
LEMMA FlowInitRelaid ==
    ASSUME NEW s, NEW k, Ground(s, k), k = Top(s), NEW f, NEW at, <<f, at>> \in Stops,
           f = Menu => s.list \in DOMAIN Lists
    PROVE  /\ Relaid(s, FlowInit(s, k, f, at))
           /\ TopFlow(FlowInit(s, k, f, at)).steps = Lands[<<f, at>>][1]
           /\ TopFlow(FlowInit(s, k, f, at)).index = Lands[<<f, at>>][2]
           /\ TopFlow(FlowInit(s, k, f, at)).entered = "START"
           /\ ~Paged(FlowInit(s, k, f, at)) => FlowInit(s, k, f, at).page = 0
  <1> DEFINE u == FlowStart(s, k, f, at)
  <1>1. s \in States /\ k \in SlotNumbers
    BY DEF Ground, Base
  <1>2. /\ Framed(s, u, k) /\ Placed(u, k) /\ u.page = 0 /\ u.pages = 0
        /\ u.flow[k].steps = Lands[<<f, at>>][1] /\ u.flow[k].index = Lands[<<f, at>>][2]
        /\ u.flow[k].prev = (IF u.flow[k].index = 0 THEN 0 ELSE u.flow[k].index - 1)
        /\ f # Menu => u.flow[k].steps # Menu
    BY <1>1, FlowStartResult
  <1>3. FlowInit(s, k, f, at) = ShowStep(u, k, "START")
    BY <1>1, FlowInitShows
  <1> HIDE DEF u
  <1>4. u.flow[k].index \in Nat
    BY <1>1, <1>2, SlotFields DEF Framed
  <1>5. ~(u.flow[k].index < u.flow[k].prev)
    BY <1>2, <1>4
  <1> QED BY <1>2, <1>3, <1>5, ShownRelaid DEF Ways

\* The flow on top at another position.
LEMMA MovedResult ==
    ASSUME NEW s \in States, NEW from \in Nat, NEW to \in Nat, NEW u, u = Moved(s, from, to)
    PROVE  /\ Framed(s, u, Top(s)) /\ u.stack = s.stack /\ u.page = s.page /\ u.pages = s.pages
           /\ u.flow[Top(s)].steps = TopFlow(s).steps /\ u.flow[Top(s)].length = TopFlow(s).length
           /\ u.flow[Top(s)].index = to /\ u.flow[Top(s)].prev = from
  <1> DEFINE k == Top(s)
             flow == [s.flow[k] EXCEPT !.prev = from, !.index = to]
             one == [s EXCEPT !.flow[k].prev = from]
  <1>1. s.stack \in [SlotNumbers -> SlotStates] /\ s.stack[k] \in SlotStates /\ s.flow \in [SlotNumbers -> FlowStates]
        /\ s.flow[k] \in FlowStates /\ s.page \in Nat /\ s.pages \in Nat /\ k \in SlotNumbers
    BY StateFields
  <1> HIDE DEF k
  <1>2. /\ flow \in FlowStates /\ flow.steps = s.flow[k].steps /\ flow.length = s.flow[k].length
        /\ flow.index = to /\ flow.prev = from
    BY <1>1 DEF FlowStates
  <1>3. one = [s EXCEPT !.flow = [s.flow EXCEPT ![k] = [s.flow[k] EXCEPT !.prev = from]]]
    BY <1>1 DEF States, FlowStates
  <1>4. u = [one EXCEPT !.flow[k].index = to]
    BY <1>1 DEF States, FlowStates, Moved, k
  <1> HIDE DEF one
  <1>5. u = [s EXCEPT !.flow = [s.flow EXCEPT ![k] = flow]]
    BY <1>1, <1>3, <1>4 DEF States, FlowStates
  <1> HIDE DEF flow
  <1>6. u = Put(s, k, s.stack[k], flow, s.page, s.pages)
    BY <1>1, <1>5 DEF Put, States
  <1>7. Framed(s, u, k) /\ u.flow[k] = flow /\ u.page = s.page /\ u.pages = s.pages
    BY <1>1, <1>2, <1>6, PutSlot
  <1>8. u.stack = s.stack
    BY <1>5 DEF States
  <1> QED BY <1>2, <1>7, <1>8 DEF k, TopFlow

\* Where a flow is after a move to position `to' of flow f.
Arrived(t, f, to) ==
    LET step == Step[Item(f, to)]
    IN IF <<f, to>> \in Screens THEN TopFlow(t).steps = f /\ TopFlow(t).index = to
       ELSE TopFlow(t).steps = Lands[<<step.to, step.at>>][1] /\ TopFlow(t).index = Lands[<<step.to, step.at>>][2]

\* Initialising the step that the top slot has been put at.
LEMMA InitStepRelaid ==
    ASSUME NEW s, Inv(s), NEW u, Framed(s, u, Top(s)), Stopped(u, Top(s)), u.page = s.page, u.pages = s.pages,
           NEW f, NEW to, u.flow[Top(s)].steps = f, u.flow[Top(s)].index = to,
           f = Menu => s.list \in DOMAIN Lists,
           NEW way \in Ways, to < u.flow[Top(s)].prev => way = "BACKWARD",
           LoopsUnpaged /\ to = u.flow[Top(s)].prev => Step[Item(f, to)].kind # "pages"
    PROVE  /\ Relaid(s, InitStep(u, Top(s), way)) /\ Arrived(InitStep(u, Top(s), way), f, to)
           /\ <<f, to>> \in Screens => TopFlow(InitStep(u, Top(s), way)).entered = way
  <1> DEFINE k == Top(s)
             t == InitStep(u, k, way)
  <1>1. Ground(s, k) /\ k \in SlotNumbers /\ s.page <= s.pages /\ k = Top(s)
    BY InvFacts
  <1>2. Placed(u, k) <=> <<f, to>> \in Screens
    BY DEF Placed, Stopped
  <1>3. Framed(s, u, k) /\ Stopped(u, k) /\ u.flow[k].steps = f /\ u.flow[k].index = to /\ u \in States
    BY DEF Framed
  <1>4. Current(u, k) = Item(f, to)
    BY <1>1, <1>3, PlacedOrGoes
  <1>5. (to < u.flow[k].prev => way = "BACKWARD")
        /\ (LoopsUnpaged /\ to = u.flow[k].prev => Step[Item(f, to)].kind # "pages")
    OBVIOUS
  <1> HIDE DEF k
  <1>6. CASE Placed(u, k)
    <2>1. t = ShowStep(u, k, way)
      BY <1>1, <1>6, InitScreen
    <2> HIDE DEF t
    <2>2. /\ Relaid(s, t) /\ TopFlow(t).steps = f /\ TopFlow(t).index = to /\ TopFlow(t).entered = way
      BY <1>1, <1>3, <1>4, <1>5, <1>6, <2>1, ShownRelaid
    <2> QED BY <1>2, <1>6, <2>2 DEF Arrived, t, k
  <1>7. CASE ~Placed(u, k)
    <2> DEFINE step == StepOf(u, k)
               v == FlowStart(u, k, step.to, step.at)
    <2>1. Goes(u, k) /\ <<step.to, step.at>> \in Stops /\ step.to # Menu /\ step = Step[Item(f, to)]
      BY <1>1, <1>3, <1>7, PlacedOrGoes DEF StepOf
    <2>2. t = ShowStep(v, k, "START")
      BY <1>1, <1>3, <2>1, InitGoto
    <2> HIDE DEF t, step
    <2>3. /\ Framed(u, v, k) /\ Placed(v, k) /\ v.page = 0 /\ v.pages = 0
          /\ v.flow[k].steps = Lands[<<step.to, step.at>>][1] /\ v.flow[k].index = Lands[<<step.to, step.at>>][2]
          /\ v.flow[k].prev = (IF v.flow[k].index = 0 THEN 0 ELSE v.flow[k].index - 1)
          /\ v.flow[k].steps # Menu
      BY <1>1, <1>3, <2>1, FlowStartResult
    <2> HIDE DEF v
    <2>4. Framed(s, v, k)
      BY <1>3, <2>3, FramedTwice
    <2>5. v.flow[k].index \in Nat
      BY <1>1, <2>4, SlotFields DEF Framed
    <2>6. ~(v.flow[k].index < v.flow[k].prev)
      BY <2>3, <2>5
    <2>7. Relaid(s, t) /\ TopFlow(t).steps = v.flow[k].steps /\ TopFlow(t).index = v.flow[k].index
      BY <1>1, <2>2, <2>3, <2>4, <2>6, ShownRelaid DEF Ways
    <2> QED BY <1>2, <1>7, <2>1, <2>3, <2>7 DEF Arrived, t, k
  <1> QED BY <1>6, <1>7

\* A move of the flow on top to a step.
LEMMA MoveToResult ==
    ASSUME NEW s, Inv(s), TopFlow(s).length # 0, NEW from \in Nat, NEW to \in Nat, NEW way \in Ways,
           <<TopFlow(s).steps, to>> \in Stops, to < from => way = "BACKWARD",
           to = from => to = 0 /\ Loops(TopFlow(s))
    PROVE  /\ Relaid(s, MoveTo(s, from, to, way)) /\ Arrived(MoveTo(s, from, to, way), TopFlow(s).steps, to)
           /\ <<TopFlow(s).steps, to>> \in Screens => TopFlow(MoveTo(s, from, to, way)).entered = way
  <1> DEFINE k == Top(s)
             u == Moved(s, from, to)
             f == TopFlow(s).steps
  <1>1. s \in States /\ k \in SlotNumbers /\ Placed(s, k) /\ Listed(s) /\ TopFlow(s) = s.flow[k]
    BY InvFacts DEF TopFlow
  <1>2. /\ Framed(s, u, k) /\ u.page = s.page /\ u.pages = s.pages
        /\ u.flow[k].steps = f /\ u.flow[k].length = TopFlow(s).length
        /\ u.flow[k].index = to /\ u.flow[k].prev = from
    <2>1. s \in States
      BY <1>1
    <2> HIDE DEF u
    <2> QED BY <2>1, MovedResult DEF u
  <1>3. MoveTo(s, from, to, way) = InitStep(u, k, way)
    BY DEF MoveTo
  <1> HIDE DEF u
  <1>4. Stopped(u, k)
    BY <1>1, <1>2 DEF Stopped, Placed, Framed
  <1>5. f = Menu => s.list \in DOMAIN Lists
    BY <1>1 DEF Listed
  <1>6. ASSUME LoopsUnpaged, to = from PROVE Step[Item(f, to)].kind # "pages"
    <2>1. to = 0 /\ Loops(TopFlow(s)) /\ f \in DOMAIN Flows
      BY <1>6, StopFacts
    <2>2. TopFlow(s).length = Len(Flows[f]) /\ Len(Flows[f]) > 0 /\ Len(Flows[f]) \in Nat
      BY <1>1, <2>1, FlowsAssumption DEF Placed
    <2>3. Flows[f][Len(Flows[f])] = "LOOP"
      BY <2>1, <2>2 DEF Loops, Item
    <2>4. Item(f, 0) = Flows[f][1]
      BY <2>2 DEF Item
    <2> QED BY <1>6, <2>1, <2>3, <2>4 DEF LoopsUnpaged
  <1> QED BY <1>2, <1>3, <1>4, <1>5, <1>6, InitStepRelaid

\* The items next to a step.
LEMMA Around ==
    ASSUME NEW f, NEW i, <<f, i>> \in Stops
    PROVE  /\ f \in DOMAIN Flows /\ i \in Nat /\ Len(Flows[f]) \in Nat /\ i < Len(Flows[f])
           /\ Item(f, i + 1) = "BARRIER" => i + 1 < Len(Flows[f]) - 1
           /\ Item(f, i + 1) = "LOOP" => i + 1 = Len(Flows[f]) - 1
           /\ i < Len(Flows[f]) - 1 /\ Item(f, i + 1) \notin {"BARRIER", "LOOP"} => <<f, i + 1>> \in Stops
           /\ i = Len(Flows[f]) - 1 => Item(f, i + 1) = "END" /\ Item(f, i) # "LOOP"
           /\ i > 0 /\ Item(f, i - 1) # "BARRIER" => <<f, i - 1>> \in Stops
           /\ Item(f, Len(Flows[f]) - 1) = "LOOP" => Len(Flows[f]) > 1 /\ <<f, Len(Flows[f]) - 2>> \in Stops
           /\ <<f, 0>> \in Stops
  <1> DEFINE n == Len(Flows[f])
             seq == Flows[f]
  <1>1. f \in DOMAIN Flows /\ i \in 0..(n - 1) /\ Item(f, i) \in DOMAIN Step
    BY StopFacts
  <1>2. /\ seq \in Seq(DOMAIN Step \cup {"BARRIER", "LOOP"}) /\ n > 0 /\ n \in Nat
        /\ seq[1] \in DOMAIN Step /\ seq[n] # "BARRIER"
        /\ \A j \in 2..n : seq[j] = "LOOP" => j = n /\ seq[j - 1] \in DOMAIN Step
        /\ \A j \in 1..n : seq[j] \in DOMAIN Step \cup {"BARRIER", "LOOP"}
    BY <1>1, FlowsAssumption
  <1>3. "BARRIER" \notin DOMAIN Step /\ "LOOP" \notin DOMAIN Step /\ "END" \notin DOMAIN Step
    BY FlowsAssumption DEF Markers
  <1>4. \A j \in Nat : Item(f, j) = IF j < n THEN seq[j + 1] ELSE "END"
    BY DEF Item
  <1>5. \A j \in 0..(n - 1) : Item(f, j) \in DOMAIN Step => <<f, j>> \in Stops
    BY <1>1, StopFacts
  <1> HIDE DEF n, seq
  <1>6. Item(f, i + 1) = "BARRIER" => i + 1 < n - 1
    BY <1>1, <1>2, <1>4
  <1>7. Item(f, i + 1) = "LOOP" => i + 1 = n - 1
    BY <1>1, <1>2, <1>4
  <1>8. i < n - 1 /\ Item(f, i + 1) \notin {"BARRIER", "LOOP"} => <<f, i + 1>> \in Stops
    <2>1. ASSUME i < n - 1, Item(f, i + 1) \notin {"BARRIER", "LOOP"} PROVE <<f, i + 1>> \in Stops
      <3>1. i + 1 \in 0..(n - 1) /\ i + 2 \in 1..n /\ Item(f, i + 1) = seq[i + 2]
        BY <1>1, <1>2, <1>4, <2>1
      <3> QED BY <1>2, <1>5, <2>1, <3>1
    <2> QED BY <2>1
  <1>9. i = n - 1 => Item(f, i + 1) = "END" /\ Item(f, i) # "LOOP"
    BY <1>1, <1>2, <1>3, <1>4
  <1>10. i > 0 /\ Item(f, i - 1) # "BARRIER" => <<f, i - 1>> \in Stops
    <2>1. ASSUME i > 0, Item(f, i - 1) # "BARRIER" PROVE <<f, i - 1>> \in Stops
      <3>1. i - 1 \in 0..(n - 1) /\ i \in 1..n /\ Item(f, i - 1) = seq[i] /\ i # n
        BY <1>1, <1>2, <1>4, <2>1
      <3>2. seq[i] # "LOOP"
        <4>1. CASE i = 1
          BY <1>2, <1>3, <4>1
        <4>2. CASE i # 1
          BY <1>2, <3>1, <4>2
        <4> QED BY <4>1, <4>2
      <3> QED BY <1>2, <1>5, <2>1, <3>1, <3>2
    <2> QED BY <2>1
  <1>11. Item(f, n - 1) = "LOOP" => n > 1 /\ <<f, n - 2>> \in Stops
    <2>1. ASSUME Item(f, n - 1) = "LOOP" PROVE n > 1 /\ <<f, n - 2>> \in Stops
      <3>1. seq[n] = "LOOP"
        BY <1>2, <1>4, <2>1
      <3>2. n # 1
        BY <1>2, <1>3, <3>1
      <3>3. n \in 2..n /\ n - 2 \in 0..(n - 1) /\ Item(f, n - 2) = seq[n - 1]
        BY <1>2, <1>4, <3>2
      <3> QED BY <1>2, <1>5, <3>1, <3>3
    <2> QED BY <2>1
  <1>12. <<f, 0>> \in Stops
    BY <1>1, FlowBegins
  <1> QED BY <1>1, <1>2, <1>6, <1>7, <1>8, <1>9, <1>10, <1>11, <1>12 DEF n

\* The first item behind the barriers that follow position i.
After(f, i) == CHOOSE j \in (i + 1)..Len(Flows[f]) :
                   /\ Item(f, j) # "BARRIER"
                   /\ \A h \in (i + 1)..(j - 1) : Item(f, h) = "BARRIER"

\* There is one, and it is a step.
LEMMA AfterBarriers ==
    ASSUME NEW f, NEW i, <<f, i>> \in Stops, Item(f, i + 1) = "BARRIER"
    PROVE  After(f, i) \in Nat /\ After(f, i) > i + 1 /\ <<f, After(f, i)>> \in Stops
  <1> DEFINE n == Len(Flows[f])
             seq == Flows[f]
             T == {j \in (i + 1)..n : Item(f, j) # "BARRIER"}
             Ends(j) == Item(f, j) # "BARRIER" /\ \A h \in (i + 1)..(j - 1) : Item(f, h) = "BARRIER"
  <1>1. f \in DOMAIN Flows /\ i \in Nat /\ n \in Nat /\ i + 1 < n - 1
    BY Around
  <1>2. /\ seq \in Seq(DOMAIN Step \cup {"BARRIER", "LOOP"}) /\ seq[n] # "BARRIER"
        /\ \A j \in 2..n : seq[j] = "LOOP" => j = n /\ seq[j - 1] \in DOMAIN Step
        /\ \A j \in 1..n : seq[j] \in DOMAIN Step \cup {"BARRIER", "LOOP"}
        /\ "BARRIER" \notin DOMAIN Step
    BY <1>1, FlowsAssumption DEF Markers
  <1>3. \A j \in Nat : Item(f, j) = IF j < n THEN seq[j + 1] ELSE "END"
    BY DEF Item
  <1>4. n \in T /\ T \subseteq Nat
    BY <1>1, <1>3
  <1>5. \E j \in T : \A h \in T : ~(<<h, j>> \in OpToRel(<, Nat))
    <2> HIDE DEF T
    <2> QED BY <1>4, WFMin, NatLessThanWellFounded, Zenon
  <1>6. PICK j \in T : \A h \in T : ~(<<h, j>> \in OpToRel(<, Nat))
    BY <1>5
  <1>7. \A h \in T : ~(h < j)
    <2>1. ASSUME NEW h \in T, h < j PROVE FALSE
      <3>1. h \in Nat /\ j \in Nat
        BY <1>4
      <3>2. <<h, j>> \in OpToRel(<, Nat)
        BY <2>1, <3>1 DEF OpToRel
      <3> QED BY <1>6, <3>2
    <2> QED BY <2>1
  <1>8. j \in (i + 1)..n /\ Ends(j)
    <2>1. ASSUME NEW h \in (i + 1)..(j - 1) PROVE Item(f, h) = "BARRIER"
      <3>1. h \in (i + 1)..n /\ h < j
        BY <1>1
      <3> QED BY <1>7, <3>1
    <2> QED BY <2>1
  <1> DEFINE a == After(f, i)
  <1>9. a \in (i + 1)..n /\ Ends(a)
    BY <1>8 DEF After
  <1> HIDE DEF a, seq
  <1>10. a # i + 1
    BY <1>9
  <1>11. a < n
    <2>1. ASSUME a = n PROVE FALSE
      <3>1. n - 1 \in (i + 1)..(a - 1)
        BY <1>1, <2>1
      <3>2. Item(f, n - 1) = "BARRIER"
        BY <1>9, <3>1
      <3> QED BY <1>1, <1>2, <1>3, <3>2
    <2> QED BY <1>1, <1>9, <2>1
  <1>12. Item(f, a) = seq[a + 1] /\ Item(f, a - 1) = seq[a] /\ seq[a] = "BARRIER" /\ seq[a + 1] # "BARRIER"
    <2>1. a - 1 \in (i + 1)..(a - 1)
      BY <1>1, <1>9, <1>10
    <2> QED BY <1>1, <1>3, <1>9, <1>11, <2>1
  <1>13. seq[a + 1] \in DOMAIN Step
    <2>1. a + 1 \in 2..n /\ a + 1 \in 1..n /\ (a + 1) - 1 = a
      BY <1>1, <1>9, <1>11
    <2>2. seq[a + 1] = "LOOP" => seq[a] \in DOMAIN Step
      BY <1>2, <2>1
    <2>3. seq[a + 1] \in DOMAIN Step \cup {"BARRIER", "LOOP"}
      BY <1>2, <2>1
    <2> QED BY <1>2, <1>12, <2>2, <2>3
  <1> QED BY <1>1, <1>9, <1>10, <1>11, <1>12, <1>13, StopFacts DEF a

\* The flows that lead nowhere else than themselves keep the top slot.
Kin(s, t) == \A D : Plain(D) /\ TopFlow(s).steps \in D => TopFlow(t).steps \in D

\* A move in such a flow stays in them.
LEMMA ArrivedKin ==
    ASSUME NEW s, NEW t, NEW to, <<TopFlow(s).steps, to>> \in Stops, Arrived(t, TopFlow(s).steps, to)
    PROVE  Kin(s, t)
  <1> DEFINE f == TopFlow(s).steps
             step == Step[Item(f, to)]
  <1>1. CASE <<f, to>> \in Screens
    BY <1>1 DEF Arrived, Kin
  <1>2. CASE <<f, to>> \notin Screens
    <2>1. <<step.to, step.at>> \in Stops /\ TopFlow(t).steps = Lands[<<step.to, step.at>>][1]
      BY <1>2, LandsAssumption DEF Arrived
    <2>2. step.to \in DOMAIN Flows /\ step.to # None
      BY <2>1, StopFacts, FlowsAssumption
    <2>3. ASSUME NEW D, Plain(D), f \in D PROVE TopFlow(t).steps \in D
      <3>1. step.to \in D \cup {None}
        BY <2>3 DEF Plain
      <3>2. step.to \in D
        BY <2>2, <3>1
      <3> HIDE DEF step
      <3> QED BY <2>1, <2>3, <3>2 DEF Plain
    <2> QED BY <2>3 DEF Kin
  <1> QED BY <1>1, <1>2

\* And so does the flow a step leads to.
LEMMA LeadsKin ==
    ASSUME NEW s, NEW t, NEW i, <<TopFlow(s).steps, i>> \in Stops, NEW to \in DOMAIN Flows,
           to \in {Step[Item(TopFlow(s).steps, i)].validate, Step[Item(TopFlow(s).steps, i)].error},
           TopFlow(t).steps = Lands[<<to, 0>>][1]
    PROVE  Kin(s, t)
  <1> DEFINE f == TopFlow(s).steps
             step == Step[Item(f, i)]
  <1>1. <<to, 0>> \in Stops /\ to # None
    BY FlowBegins, FlowsAssumption
  <1>2. ASSUME NEW D, Plain(D), f \in D PROVE TopFlow(t).steps \in D
    <2>1. {step.validate, step.error} \subseteq D \cup {None}
      BY <1>2 DEF Plain
    <2>2. to \in D
      BY <1>1, <2>1
    <2> QED BY <1>1, <1>2, <2>2 DEF Plain
  <1> QED BY <1>2 DEF Kin

\* Where the right button leads, when it leads somewhere.
NextMoves(s) ==
    LET f == TopFlow(s)
    IN f.length # 0 /\ f.index < f.length - 1 /\ Item(f.steps, f.index + 1) # "BARRIER"
NextOf(s) ==
    LET f == TopFlow(s) IN IF Item(f.steps, f.index + 1) = "LOOP" THEN 0 ELSE f.index + 1

\* The top slot of a state that satisfies the invariant, when it has a flow.
LEMMA TopFacts ==
    ASSUME NEW s, Inv(s), TopFlow(s).length # 0
    PROVE  /\ <<TopFlow(s).steps, TopFlow(s).index>> \in Screens /\ <<TopFlow(s).steps, TopFlow(s).index>> \in Stops
           /\ TopFlow(s).length = Len(Flows[TopFlow(s).steps]) /\ TopFlow(s).index \in Nat
           /\ TopFlow(s).length \in Nat /\ TopFlow(s).length > 0 /\ TopFlow(s).index < TopFlow(s).length
           /\ Valid(s) /\ Placed(s, Top(s)) /\ Current(s, Top(s)) = Item(TopFlow(s).steps, TopFlow(s).index)
  <1>1. Placed(s, Top(s)) /\ s.count \in 1..Slots /\ Top(s) \in SlotNumbers
    BY InvFacts DEF TopFlow
  <1>2. <<TopFlow(s).steps, TopFlow(s).index>> \in Screens /\ TopFlow(s).length = Len(Flows[TopFlow(s).steps])
    BY <1>1 DEF Placed, TopFlow
  <1>3. <<TopFlow(s).steps, TopFlow(s).index>> \in Stops
    BY <1>2 DEF Screens
  <1>4. Current(s, Top(s)) = Item(TopFlow(s).steps, TopFlow(s).index)
    BY <1>1, PlacedStep DEF TopFlow
  <1> QED BY <1>1, <1>2, <1>3, <1>4, Around DEF Valid

\* ux_flow_next.
LEMMA FlowNextResult ==
    ASSUME NEW s, Inv(s)
    PROVE  /\ ~NextMoves(s) => FlowNext(s) = s
           /\ NextMoves(s) => /\ Relaid(s, FlowNext(s)) /\ <<TopFlow(s).steps, NextOf(s)>> \in Stops
                              /\ Arrived(FlowNext(s), TopFlow(s).steps, NextOf(s))
                              /\ NextOf(s) = 0 => Loops(TopFlow(s)) /\ TopFlow(s).index = TopFlow(s).length - 2
  <1> DEFINE f == TopFlow(s)
             i == f.index
             n == f.length
  <1>1. CASE n = 0
    BY <1>1 DEF FlowNext, Valid, NextMoves
  <1>2. CASE n # 0
    <2>1. /\ <<f.steps, i>> \in Stops /\ n = Len(Flows[f.steps]) /\ i \in Nat /\ n \in Nat /\ n > 0 /\ i < n
          /\ Valid(s)
      BY <1>2, TopFacts
    <2>2. CASE ~NextMoves(s)
      BY <1>2, <2>1, <2>2 DEF FlowNext, NextMoves
    <2>3. CASE NextMoves(s)
      <3>1. i < n - 1 /\ Item(f.steps, i + 1) # "BARRIER"
        BY <2>3 DEF NextMoves
      <3>2. CASE Item(f.steps, i + 1) = "LOOP"
        <4>1. FlowNext(s) = MoveTo(s, 0, 0, "FORWARD") /\ NextOf(s) = 0
          BY <2>1, <3>1, <3>2 DEF FlowNext, NextOf
        <4>2. i + 1 = n - 1 /\ <<f.steps, 0>> \in Stops
          BY <2>1, <3>2, Around
        <4>3. Loops(f)
          BY <2>1, <3>2, <4>2 DEF Loops
        <4>4. Relaid(s, FlowNext(s)) /\ Arrived(FlowNext(s), f.steps, 0)
          BY <1>2, <4>1, <4>2, <4>3, MoveToResult DEF Ways
        <4> QED BY <2>1, <2>3, <4>1, <4>2, <4>3, <4>4
      <3>3. CASE Item(f.steps, i + 1) # "LOOP"
        <4>1. FlowNext(s) = MoveTo(s, i, i + 1, "FORWARD") /\ NextOf(s) = i + 1
          BY <2>1, <3>1, <3>3 DEF FlowNext, NextOf
        <4>2. <<f.steps, i + 1>> \in Stops
          BY <2>1, <3>1, <3>3, Around
        <4>3. Relaid(s, FlowNext(s)) /\ Arrived(FlowNext(s), f.steps, i + 1)
          <5>1. ~(i + 1 < i) /\ i + 1 # i /\ i + 1 \in Nat
            BY <2>1
          <5> QED BY <1>2, <2>1, <4>1, <4>2, <5>1, MoveToResult DEF Ways
        <4> QED BY <2>1, <2>3, <4>1, <4>2, <4>3
      <3> QED BY <3>2, <3>3
    <2> QED BY <2>2, <2>3
  <1> QED BY <1>1, <1>2

\* Where the left button leads, when it leads somewhere.
PrevMoves(s) ==
    LET f == TopFlow(s)
    IN /\ f.length # 0
       /\ IF f.index = 0 THEN Loops(f) ELSE Item(f.steps, f.index - 1) # "BARRIER"
PrevOf(s) == LET f == TopFlow(s) IN IF f.index = 0 THEN f.length - 2 ELSE f.index - 1

\* ux_flow_prev.
LEMMA FlowPrevResult ==
    ASSUME NEW s, Inv(s)
    PROVE  /\ ~PrevMoves(s) => FlowPrev(s) = s
           /\ PrevMoves(s) => /\ Relaid(s, FlowPrev(s)) /\ <<TopFlow(s).steps, PrevOf(s)>> \in Stops
                              /\ Arrived(FlowPrev(s), TopFlow(s).steps, PrevOf(s))
                              /\ TopFlow(s).index = 0 => Loops(TopFlow(s)) /\ TopFlow(s).length > 1
  <1> DEFINE f == TopFlow(s)
             i == f.index
             n == f.length
             from == IF i = 0 THEN n - 1 ELSE i
  <1>1. CASE n = 0
    BY <1>1 DEF FlowPrev, Valid, PrevMoves
  <1>2. CASE n # 0
    <2>1. /\ <<f.steps, i>> \in Stops /\ n = Len(Flows[f.steps]) /\ i \in Nat /\ n \in Nat /\ n > 0 /\ i < n
          /\ Valid(s)
      BY <1>2, TopFacts
    <2>2. CASE ~PrevMoves(s)
      BY <1>2, <2>1, <2>2 DEF FlowPrev, PrevMoves
    <2>3. CASE PrevMoves(s)
      <3>1. i = 0 => Loops(f) /\ n > 1 /\ <<f.steps, n - 2>> \in Stops
        <4>1. i = 0 => Loops(f)
          BY <2>3 DEF PrevMoves
        <4>2. Loops(f) => Item(f.steps, Len(Flows[f.steps]) - 1) = "LOOP"
          BY <2>1 DEF Loops
        <4>3. i = 0 => Len(Flows[f.steps]) > 1 /\ <<f.steps, Len(Flows[f.steps]) - 2>> \in Stops
          BY <2>1, <4>1, <4>2, Around
        <4> QED BY <2>1, <4>1, <4>3
      <3>2. i # 0 => Item(f.steps, i - 1) # "BARRIER" /\ n > 1 /\ <<f.steps, i - 1>> \in Stops
        <4>1. i # 0 => Item(f.steps, i - 1) # "BARRIER"
          BY <2>3 DEF PrevMoves
        <4>2. i # 0 => i > 0 /\ n > 1
          BY <2>1
        <4>3. i # 0 => <<f.steps, i - 1>> \in Stops
          BY <2>1, <4>1, <4>2, Around
        <4> QED BY <4>1, <4>2, <4>3
      <3>3. FlowPrev(s) = MoveTo(s, from, from - 1, "BACKWARD")
        BY <2>1, <3>1, <3>2 DEF FlowPrev
      <3>4. from - 1 = PrevOf(s) /\ from \in Nat /\ from - 1 \in Nat /\ from - 1 < from /\ from - 1 # from
        BY <2>1, <3>1, <3>2, SMTT(60) DEF PrevOf
      <3>5. <<f.steps, from - 1>> \in Stops
        BY <2>1, <3>1, <3>2
      <3> HIDE DEF from
      <3>6. Relaid(s, FlowPrev(s)) /\ Arrived(FlowPrev(s), f.steps, from - 1)
        BY <1>2, <3>3, <3>4, <3>5, MoveToResult DEF Ways
      <3> QED BY <2>3, <3>1, <3>4, <3>5, <3>6
    <2> QED BY <2>2, <2>3
  <1> QED BY <1>1, <1>2

\* ux_flow_validate starts the flow of the step, or goes over the barriers, or around a loop.
LEMMA FlowValidateResult ==
    ASSUME NEW s, Inv(s)
    PROVE  FlowValidate(s) = s \/ (Relaid(s, FlowValidate(s)) /\ Kin(s, FlowValidate(s)))
  <1> DEFINE f == TopFlow(s)
             i == f.index
             n == f.length
             k == Top(s)
             to == Step[Current(s, k)].validate
             step == Step[Item(f.steps, i)]
             t == FlowValidate(s)
  <1>1. CASE n = 0
    BY <1>1 DEF FlowValidate, Valid
  <1>2. CASE n # 0
    <2>1. /\ <<f.steps, i>> \in Stops /\ n = Len(Flows[f.steps]) /\ i \in Nat /\ n \in Nat /\ n > 0 /\ i < n
          /\ Valid(s) /\ Placed(s, k) /\ Current(s, k) = Item(f.steps, i)
      BY <1>2, TopFacts
    <2>2. k \in SlotNumbers /\ f = s.flow[k] /\ s \in States /\ Ground(s, k) /\ Listed(s)
      BY InvFacts DEF TopFlow
    <2>3. to = step.validate /\ step \in StepKind /\ to # Menu
      <3>1. Item(f.steps, i) \in DOMAIN Step
        BY <2>1, StopFacts
      <3> QED BY <2>1, <3>1, FlowsAssumption, ListsAssumption
    <2>4. CASE to # None
      <3>1. t = FlowInit(s, k, to, 0)
        BY <2>1, <2>4 DEF FlowValidate, FlowInit
      <3>2. to \in DOMAIN Flows /\ <<to, 0>> \in Stops
        BY <2>3, <2>4, FlowBegins DEF StepKind
      <3>3. Relaid(s, FlowInit(s, k, to, 0)) /\ TopFlow(FlowInit(s, k, to, 0)).steps = Lands[<<to, 0>>][1]
        <4>1. k = Top(s) /\ Ground(s, k) /\ <<to, 0>> \in Stops /\ (to = Menu => s.list \in DOMAIN Lists)
          BY <2>2, <2>3, <3>2
        <4> HIDE DEF f, k, to, step
        <4> QED BY <4>1, FlowInitRelaid
      <3>4. to \in {step.validate, step.error}
        BY <2>3
      <3> HIDE DEF t, to, step
      <3>5. Kin(s, t)
        BY <2>1, <3>1, <3>2, <3>3, <3>4, LeadsKin DEF step
      <3> QED BY <3>1, <3>3, <3>5 DEF t
    <2>5. CASE to = None /\ Item(f.steps, i + 1) = "BARRIER"
      <3> DEFINE a == After(f.steps, i)
                 u == Moved(s, a - 1, a)
      <3>1. a \in Nat /\ a > i + 1 /\ <<f.steps, a>> \in Stops
        BY <2>1, <2>5, AfterBarriers
      <3>2. t = InitStep(u, k, "FORWARD")
        BY <2>1, <2>5 DEF FlowValidate, After
      <3> HIDE DEF a, t
      <3>3. a - 1 \in Nat /\ ~(a < a - 1) /\ a # a - 1
        BY <2>1, <3>1
      <3>4. /\ Framed(s, u, k) /\ u.page = s.page /\ u.pages = s.pages
            /\ u.flow[k].steps = f.steps /\ u.flow[k].length = n
            /\ u.flow[k].index = a /\ u.flow[k].prev = a - 1
        BY <2>2, <3>1, <3>3, MovedResult
      <3> HIDE DEF u
      <3>5. Stopped(u, k)
        BY <1>2, <2>1, <3>1, <3>4 DEF Stopped, Framed
      <3>6. f.steps = Menu => s.list \in DOMAIN Lists
        BY <2>2 DEF Listed
      <3>7. Relaid(s, InitStep(u, k, "FORWARD")) /\ Arrived(InitStep(u, k, "FORWARD"), f.steps, a)
        BY <3>3, <3>4, <3>5, <3>6, InitStepRelaid DEF Ways
      <3>8. Kin(s, t)
        BY <3>1, <3>2, <3>7, ArrivedKin
      <3> QED BY <3>2, <3>7, <3>8 DEF t
    <2>6. CASE to = None /\ Item(f.steps, i + 1) = "LOOP"
      <3>1. t = MoveTo(s, 0, 0, "FORWARD")
        BY <2>1, <2>6 DEF FlowValidate, MoveTo
      <3>2. i + 1 = n - 1 /\ <<f.steps, 0>> \in Stops
        BY <2>1, <2>6, Around, ZenonT(60)
      <3>3. Loops(f)
        BY <2>1, <2>6, <3>2 DEF Loops
      <3> HIDE DEF t
      <3>4. Relaid(s, t) /\ Arrived(t, f.steps, 0)
        BY <1>2, <3>1, <3>2, <3>3, MoveToResult DEF Ways
      <3>5. Kin(s, t)
        BY <3>2, <3>4, ArrivedKin
      <3> QED BY <3>4, <3>5 DEF t
    <2>7. CASE to = None /\ Item(f.steps, i + 1) \notin {"BARRIER", "LOOP"}
      BY <2>7 DEF FlowValidate
    <2> QED BY <2>4, <2>5, <2>6, <2>7
  <1> QED BY <1>1, <1>2

\* ux_flow_error starts the error flow of the step, if it has one.
LEMMA FlowErrorResult ==
    ASSUME NEW s, Inv(s)
    PROVE  FlowError(s) = s \/ (Relaid(s, FlowError(s)) /\ Kin(s, FlowError(s)))
  <1> DEFINE f == TopFlow(s)
             i == f.index
             k == Top(s)
             to == Step[Current(s, k)].error
             step == Step[Item(f.steps, i)]
             t == FlowError(s)
  <1>1. CASE f.length = 0 \/ to = None
    BY <1>1 DEF FlowError
  <1>2. CASE f.length # 0 /\ to # None
    <2>1. <<f.steps, i>> \in Stops /\ Current(s, k) = Item(f.steps, i)
          /\ i \in Nat /\ f.length \in Nat /\ i < f.length
      BY <1>2, TopFacts
    <2>2. s \in States /\ Ground(s, k) /\ k \in SlotNumbers
      BY InvFacts
    <2>3. to = step.error /\ step \in StepKind /\ to # Menu
      <3>1. Item(f.steps, i) \in DOMAIN Step
        BY <2>1, StopFacts
      <3> QED BY <2>1, <3>1, FlowsAssumption, ListsAssumption
    <2>4. t = FlowInit(s, k, to, 0)
      BY <1>2, <2>1 DEF FlowError
    <2>5. to \in DOMAIN Flows /\ <<to, 0>> \in Stops
      BY <1>2, <2>3, FlowBegins DEF StepKind
    <2>6. Relaid(s, FlowInit(s, k, to, 0)) /\ TopFlow(FlowInit(s, k, to, 0)).steps = Lands[<<to, 0>>][1]
      BY <2>2, <2>3, <2>5, FlowInitRelaid
    <2>7. to \in {step.validate, step.error}
      BY <2>3
    <2> HIDE DEF t, to, step
    <2>8. Kin(s, t)
      BY <2>1, <2>4, <2>5, <2>6, <2>7, LeadsKin DEF step
    <2> QED BY <2>4, <2>6, <2>8 DEF t
  <1> QED BY <1>1, <1>2

-----------------------------------------------------------------------------
(* Drawing again, the buttons and the ticks. *)

\* The flows and the pages stay, and the slots keep their steps.
Calm(s, t) ==
    /\ t.flow = s.flow /\ t.page = s.page /\ t.count = s.count
    /\ \A j \in SlotNumbers : t.stack[j].of = s.stack[j].of

\* The mask and the time of the buttons matter to nothing else.
LEMMA SameSlots ==
    ASSUME NEW s, Inv(s), NEW t \in States, t.count = s.count, t.stack = s.stack, t.flow = s.flow,
           t.page = s.page, t.pages = s.pages, t.list = s.list, t.item = s.item
    PROVE  Inv(t) /\ Calm(s, t)
  <1>1. Top(t) = Top(s) /\ TopFlow(t) = TopFlow(s) /\ TopSlot(t) = TopSlot(s) /\ TopStep(t) = TopStep(s)
    BY DEF Top, TopFlow, TopSlot, TopStep
  <1>2. Hides(t, TopStep(s).kind) = Hides(s, TopStep(s).kind)
    BY <1>1, HidesSame
  <1>3. Base(t)
    BY DEF Inv, Base, Listed, Apart
  <1>4. PageFits(t)
    BY <1>1 DEF Inv, PageFits, Paged
  <1>5. Painted(t)
    BY <1>1, <1>2 DEF Inv, Painted
  <1> QED BY <1>3, <1>4, <1>5 DEF Inv, Calm

\* Drawing a slot keeps the invariant, when all that is shown of the top is drawn.
LEMMA RedrawnInv ==
    ASSUME NEW s, Inv(s), NEW k \in SlotNumbers, NEW t, Redrawn(s, t, k),
           k = Top(s) => t = s \/ t.stack[k].cursor = 0 \/ Drawn(s, t, k),
           s.stack[k] = NoSlot => t.stack[k] = NoSlot
    PROVE  Inv(t) /\ Calm(s, t)
  <1>1. CASE t = s
    BY <1>1 DEF Calm
  <1>2. CASE t # s
    <2>1. /\ s \in States /\ Base(s) /\ Listed(s) /\ Apart(s) /\ s.count \in 1..Slots /\ Top(s) \in SlotNumbers
          /\ \A j \in SlotNumbers : Good(s.stack[j], s.flow[j])
          /\ s.flow[k].length # 0 => Occupied(s.stack[k], s.flow[k])
          /\ s.flow[k].length = 0 => s.stack[k] = NoSlot
          /\ PageFits(s) /\ Painted(s)
      BY InvFacts DEF Inv, Base
    <2>2. /\ t \in States /\ t.count = s.count /\ t.list = s.list /\ t.item = s.item /\ t.flow = s.flow
          /\ t.page = s.page /\ t.pages = s.pages
          /\ \A j \in SlotNumbers \ {k} : t.stack[j] = s.stack[j]
          /\ t.stack[k].screen = s.stack[k].screen /\ t.stack[k].button = s.stack[k].button
          /\ t.stack[k].timer = s.stack[k].timer /\ t.stack[k].of = s.stack[k].of
          /\ t.stack[k].interval = s.stack[k].interval
      BY DEF Redrawn, Framed
    <2>21. \A j \in SlotNumbers : t.stack[j].of = s.stack[j].of /\ t.stack[j].button = s.stack[j].button
      BY <2>2
    <2>3. Top(t) = Top(s) /\ TopFlow(t) = TopFlow(s) /\ TopStep(t) = TopStep(s)
          /\ TopSlot(t) = t.stack[Top(s)] /\ TopStep(s) = Step[s.stack[Top(s)].of]
      BY <2>1, <2>2, <2>21 DEF Top, TopFlow, TopStep, TopSlot
    <2>4. s.stack[k] = NoSlot => t.stack[k] = NoSlot
      OBVIOUS
    <2>5. k = Top(s) => t.stack[k].cursor = 0 \/ Drawn(s, t, k)
      BY <1>2
    <2>6. Good(t.stack[k], t.flow[k])
      BY <2>1, <2>2, <2>4 DEF Good, Occupied, Timed
    <2>7. \A j \in SlotNumbers : Good(t.stack[j], t.flow[j])
      BY <2>1, <2>2, <2>6
    <2>8. Base(t)
      <3>1. \A j \in SlotNumbers : s.stack[j] = NoSlot => t.stack[j] = NoSlot
        BY <2>2, <2>4
      <3>2. Listed(t)
        BY <2>1, <2>2 DEF Listed
      <3>3. 0 \in SlotNumbers
        BY SlotsAssumption DEF SlotNumbers
      <3>4. Apart(t)
        BY <2>1, <2>2, <2>21, <3>3, ApartSame
      <3> QED BY <2>1, <2>2, <3>1, <3>2, <3>4 DEF Base
    <2>9. PageFits(t)
      BY <2>1, <2>2, <2>3 DEF PageFits, Paged
    <2>10. Painted(t)
      <3>1. Hides(t, TopStep(s).kind) = Hides(s, TopStep(s).kind)
        BY <2>2, <2>3, HidesSame
      <3>2. CASE k = Top(s)
        BY <2>3, <2>5, <3>1, <3>2 DEF Painted, Drawn
      <3>3. CASE k # Top(s)
        <4>1. TopSlot(t) = TopSlot(s)
          BY <2>1, <2>2, <2>3, <3>3 DEF TopSlot
        <4> QED BY <2>1, <2>3, <3>1, <4>1 DEF Painted
      <3> QED BY <3>2, <3>3
    <2> QED BY <2>2, <2>21, <2>7, <2>8, <2>9, <2>10 DEF Inv, Calm
  <1> QED BY <1>1, <1>2

\* UX_DISPLAY_NEXT_ELEMENT.
LEMMA DisplayNextInv ==
    ASSUME NEW s, Inv(s)
    PROVE  Inv(DisplayNext(s)) /\ Calm(s, DisplayNext(s)) /\ DisplayNext(s).mask = s.mask
  <1>1. s \in States /\ 0 \in SlotNumbers
    BY InvFacts, SlotsAssumption DEF SlotNumbers
  <1>2. s.stack[0] = NoSlot => DisplayNext(s) = s
    BY <1>1, DisplayNextResult DEF NoSlot
  <1>3. Redrawn(s, DisplayNext(s), 0) /\ (DisplayNext(s) = s \/ Drawn(s, DisplayNext(s), 0))
    BY <1>1, DisplayNextResult
  <1>4. DisplayNext(s).mask = s.mask
    BY <1>3 DEF Redrawn, Framed
  <1> QED BY <1>1, <1>2, <1>3, <1>4, RedrawnInv

\* Buttons held or released.
LEMMA PushedInv ==
    ASSUME NEW s, Inv(s), NEW new \in SUBSET Keys
    PROVE  /\ Inv(Pushed(s, new)) /\ Calm(s, Pushed(s, new)) /\ Pushed(s, new).stack = s.stack
           /\ new = {} => Pushed(s, new).mask = {}
           /\ new # {} => Pushed(s, new).mask = s.mask \cup new
  <1> DEFINE kept == IF new = {} THEN {} ELSE s.mask \cup new
             same == IF new = {} \/ new # kept THEN 0 ELSE Held(s, new)
             t == Pushed(s, new)
  <1>1. s \in States /\ s.mask \in SUBSET Keys /\ s.same \in 0..Fast /\ Fast \in Nat \ {0}
    BY InvFacts, StateFields, SlotsAssumption
  <1>2. kept \in SUBSET Keys /\ same \in 0..Fast
    BY <1>1 DEF Held, Smaller
  <1>3. t = [s EXCEPT !.mask = kept, !.same = same]
    BY DEF Pushed
  <1> HIDE DEF same
  <1>4. t \in States /\ t.mask = kept
    BY <1>1, <1>2, <1>3 DEF States
  <1>5. /\ t.count = s.count /\ t.stack = s.stack /\ t.flow = s.flow
        /\ t.page = s.page /\ t.pages = s.pages /\ t.list = s.list /\ t.item = s.item
    BY <1>1, <1>3 DEF States
  <1> HIDE DEF t
  <1> QED BY <1>4, <1>5, SameSlots DEF t

\* A timer counts down, starts again, or is stopped.
Counts(slot, timer, interval) ==
    \/ timer = 0 /\ interval = 0
    \/ slot.timer # 0 /\ interval = slot.interval /\ (slot.timer <= slot.interval => timer <= interval)

\* So it stays the timer of the step on the screen.
LEMMA DownInv ==
    ASSUME NEW s, Inv(s), NEW k \in SlotNumbers, NEW timer \in Nat, NEW interval \in Nat,
           Counts(s.stack[k], timer, interval), NEW t, t = TimerSet(s, k, timer, interval)
    PROVE  Inv(t) /\ Calm(s, t) /\ Framed(s, t, k)
  <1>1. /\ s \in States /\ Base(s) /\ Listed(s) /\ Apart(s) /\ s.count \in 1..Slots /\ Top(s) \in SlotNumbers
        /\ \A j \in SlotNumbers : Good(s.stack[j], s.flow[j])
        /\ s.flow[k].length # 0 => Occupied(s.stack[k], s.flow[k])
        /\ s.flow[k].length = 0 => s.stack[k] = NoSlot
        /\ PageFits(s) /\ Painted(s)
    BY InvFacts DEF Inv, Base
  <1>2. /\ Framed(s, t, k) /\ t.flow = s.flow /\ t.page = s.page /\ t.pages = s.pages
        /\ t.stack[k].screen = s.stack[k].screen /\ t.stack[k].cursor = s.stack[k].cursor
        /\ t.stack[k].button = s.stack[k].button /\ t.stack[k].timer = timer
        /\ t.stack[k].interval = interval
        /\ t.stack[k].of = s.stack[k].of /\ t.stack[k].drawn = s.stack[k].drawn
    BY <1>1, SetTimer
  <1>21. \A j \in SlotNumbers :
            /\ t.stack[j].of = s.stack[j].of /\ t.stack[j].button = s.stack[j].button
            /\ t.stack[j].cursor = s.stack[j].cursor /\ t.stack[j].drawn = s.stack[j].drawn
    BY <1>2 DEF Framed
  <1>3. Top(t) = Top(s) /\ TopFlow(t) = TopFlow(s) /\ TopStep(t) = TopStep(s)
        /\ TopSlot(t).cursor = TopSlot(s).cursor /\ TopSlot(t).drawn = TopSlot(s).drawn
    BY <1>1, <1>2, <1>21 DEF Top, TopFlow, TopStep, TopSlot, Framed
  <1>4. s.stack[k] = NoSlot => t.stack[k] = NoSlot
    <2>1. ASSUME s.stack[k] = NoSlot PROVE t.stack[k] = NoSlot
      <3>1. s.stack[k].timer = 0 /\ s.stack[k].interval = 0
        BY <2>1 DEF NoSlot
      <3>2. timer = 0 /\ interval = 0
        BY <3>1 DEF Counts
      <3>3. t.stack[k] \in SlotStates /\ s.stack[k] \in SlotStates
        BY <1>1, <1>2, StateFields DEF Framed
      <3> QED BY <1>2, <2>1, <3>1, <3>2, <3>3 DEF SlotStates
    <2> QED BY <2>1
  <1>5. Timed(s.stack[k]) => Timed(t.stack[k])
    BY <1>2 DEF Timed, Counts
  <1>6. Good(t.stack[k], t.flow[k])
    BY <1>1, <1>2, <1>4, <1>5 DEF Good, Occupied
  <1>7. \A j \in SlotNumbers : Good(t.stack[j], t.flow[j])
    BY <1>1, <1>2, <1>6 DEF Framed
  <1>8. Base(t)
    <2>1. \A j \in SlotNumbers : s.stack[j] = NoSlot => t.stack[j] = NoSlot
      BY <1>2, <1>4 DEF Framed
    <2>2. Listed(t)
      BY <1>1, <1>2 DEF Listed, Framed
    <2>3. 0 \in SlotNumbers
      BY SlotsAssumption DEF SlotNumbers
    <2>4. Apart(t)
      BY <1>1, <1>2, <1>21, <2>3, ApartSame DEF Framed
    <2> QED BY <1>1, <1>2, <2>1, <2>2, <2>4 DEF Base, Framed
  <1>9. PageFits(t)
    BY <1>1, <1>2, <1>3 DEF PageFits, Paged
  <1>10. Painted(t)
    <2>1. Hides(t, TopStep(s).kind) = Hides(s, TopStep(s).kind)
      BY <1>2, <1>3, HidesSame DEF Framed
    <2> QED BY <1>1, <1>3, <2>1 DEF Painted
  <1> QED BY <1>2, <1>21, <1>7, <1>8, <1>9, <1>10 DEF Inv, Calm, Framed

\* Another page of the text on top.
Turned(s, t, p) ==
    /\ Inv(t) /\ Framed(s, t, Top(s)) /\ t.page = p /\ t.pages = s.pages
    /\ TopFlow(t).steps = TopFlow(s).steps /\ TopFlow(t).index = TopFlow(s).index
    /\ TopFlow(t).length = TopFlow(s).length /\ TopFlow(t).entered = TopFlow(s).entered
    /\ TopFlow(t).opened = TopFlow(s).opened \cup {p} /\ TopSlot(t).of = TopSlot(s).of

\* ux_layout_paging_redisplay_common and the display.
LEMMA TurnedResult ==
    ASSUME NEW s, Inv(s), Paged(s), NEW p \in 0..(TopStep(s).pages - 1)
    PROVE  Turned(s, StackDisplay(PagingRedisplay([s EXCEPT !.page = p], Top(s)), Top(s)), p)
  <1> DEFINE k == Top(s)
             u == [s EXCEPT !.page = p]
             v == PagingRedisplay(u, k)
             t == StackDisplay(v, k)
             name == s.stack[k].of
  <1>1. /\ s \in States /\ Base(s) /\ Listed(s) /\ k \in SlotNumbers /\ Ground(s, k)
        /\ s.flow[k].length # 0 /\ Occupied(s.stack[k], s.flow[k]) /\ Placed(s, k)
        /\ \A j \in SlotNumbers : Good(s.stack[j], s.flow[j])
        /\ Step[name].kind = "pages" /\ s.pages = Step[name].pages
    BY InvFacts DEF Inv, PageFits, Paged, TopFlow, TopStep, TopSlot
  <1>2. Current(s, k) = name /\ name \in DOMAIN Step /\ Step[name].pages \in Nat
    BY <1>1, PlacedStep DEF Occupied
  <1>3. p \in Nat /\ p < s.pages /\ TopStep(s) = Step[name]
    BY <1>1, <1>2 DEF TopStep, TopSlot
  <1>4. /\ u \in States /\ u.page = p /\ u.pages = s.pages /\ u.flow = s.flow /\ u.stack = s.stack
        /\ u.count = s.count /\ u.list = s.list /\ u.item = s.item /\ u.mask = s.mask /\ u.same = s.same
    BY <1>1, <1>3 DEF States
  <1> HIDE DEF u, k
  <1>5. Placed(u, k) /\ Current(u, k) = name
    BY <1>1, <1>2, <1>4 DEF Placed, Current
  <1>6. /\ Framed(u, v, k) /\ v.page = p /\ v.pages = s.pages
        /\ v.flow[k] = [s.flow[k] EXCEPT !.opened = @ \cup {p}]
        /\ v.stack[k].screen /\ v.stack[k].of = name
        /\ v.stack[k].button = "pages" /\ v.stack[k].timer = s.stack[k].timer
        /\ v.stack[k].interval = s.stack[k].interval
    BY <1>1, <1>4, <1>5, PagingRedisplayResult
  <1> HIDE DEF v
  <1>7. v \in States /\ Top(v) = k
    BY <1>4, <1>6 DEF Framed, Top, k
  <1>8. Redrawn(v, t, k) /\ Drawn(v, t, k)
    BY <1>1, <1>7, StackDisplayResult
  <1> HIDE DEF t
  <1>9. Framed(s, t, k)
    BY <1>4, <1>6, <1>8 DEF Framed, Redrawn
  <1>10. /\ t.page = p /\ t.pages = s.pages /\ t.flow[k] = v.flow[k] /\ t.stack[k].screen
         /\ t.stack[k].of = name /\ t.stack[k].button = "pages" /\ t.stack[k].timer = s.stack[k].timer
         /\ t.stack[k].interval = s.stack[k].interval
    BY <1>6, <1>8 DEF Redrawn
  <1>11. /\ t.flow[k].steps = s.flow[k].steps /\ t.flow[k].index = s.flow[k].index
         /\ t.flow[k].prev = s.flow[k].prev /\ t.flow[k].length = s.flow[k].length
         /\ t.flow[k].entered = s.flow[k].entered /\ t.flow[k].opened = s.flow[k].opened \cup {p}
    <2>1. s.flow[k] \in FlowStates
      BY <1>1, StateFields
    <2> QED BY <1>6, <1>10, <2>1 DEF FlowStates
  <1>12. Top(t) = k /\ TopFlow(t) = t.flow[k] /\ TopFlow(s) = s.flow[k] /\ TopSlot(t) = t.stack[k]
         /\ TopSlot(s) = s.stack[k]
    BY <1>9 DEF Framed, Top, k, TopFlow, TopSlot
  <1>13. Occupied(t.stack[k], t.flow[k])
    BY <1>1, <1>10, <1>11 DEF Occupied, ButtonFor, Timed
  <1>14. \A j \in SlotNumbers : Good(t.stack[j], t.flow[j])
    BY <1>1, <1>9, <1>11, <1>13 DEF Good, Framed
  <1>15. Base(t)
    <2>1. k \in Nat /\ s.count \in Nat /\ k < s.count
      BY <1>1, StateFields DEF Ground, SlotNumbers
    <2>2. \A j \in SlotNumbers : j >= s.count => j # k
      BY <2>1
    <2>3. \A j \in SlotNumbers : t.flow[j].steps = s.flow[j].steps
      BY <1>9, <1>11 DEF Framed
    <2>4. Listed(t)
      BY <1>1, <1>9, <2>3 DEF Listed, Framed
    <2>5. Apart(t)
      BY <1>1, <1>9, ApartTop DEF Base, k
    <2> QED BY <1>1, <1>9, <2>2, <2>4, <2>5 DEF Base, Framed
  <1>16. PageFits(t)
    BY <1>1, <1>2, <1>3, <1>10, <1>12 DEF PageFits, TopStep
  <1>17. Painted(t)
    <2>1. t.count = v.count /\ TopFlow(t) = TopFlow(v) /\ t.page = v.page /\ t.pages = v.pages
          /\ t.list = v.list /\ t.item = v.item
      BY <1>8 DEF Redrawn, Framed, TopFlow, Top
    <2>2. Hides(t, Step[name].kind) = Hides(v, Step[name].kind)
      BY <2>1, HidesSame
    <2> QED BY <1>6, <1>8, <1>10, <1>12, <2>2 DEF Painted, Drawn, TopStep
  <1> QED BY <1>9, <1>10, <1>11, <1>12, <1>14, <1>15, <1>16, <1>17 DEF Turned, Inv, t, v, u, k

\* The list on top with another item, or another list.
LEMMA ListedAgain ==
    ASSUME NEW s, Inv(s), TopFlow(s).length # 0, TopStep(s).kind = "list",
           NEW u \in States, u.count = s.count, u.stack = s.stack, u.flow = s.flow, u.page = s.page,
           u.pages = s.pages, u.list \in DOMAIN Lists, u.item \in 0..(Lists[u.list].items - 1)
    PROVE  LET t == StackDisplay(LayoutInit(u, Top(s), "list"), Top(s))
           IN Inv(t) /\ Calm(s, t) /\ Framed(u, t, Top(s))
  <1> DEFINE k == Top(s)
             v == LayoutInit(u, k, "list")
             t == StackDisplay(v, k)
             name == s.stack[k].of
  <1>1. /\ s \in States /\ Base(s) /\ Listed(s) /\ k \in SlotNumbers /\ Ground(s, k)
        /\ s.flow[k].length # 0 /\ Occupied(s.stack[k], s.flow[k]) /\ Placed(s, k)
        /\ \A j \in SlotNumbers : Good(s.stack[j], s.flow[j])
        /\ Step[name].kind = "list" /\ s.page <= s.pages
    BY InvFacts DEF Inv, TopFlow, TopStep, TopSlot
  <1>2. Current(s, k) = name /\ name \in DOMAIN Step /\ Step[name].timeout \in Nat
    BY <1>1, PlacedStep DEF Occupied
  <1> HIDE DEF k
  <1>3. Placed(u, k) /\ Current(u, k) = name /\ Top(u) = k
    BY <1>1, <1>2 DEF Placed, Current, Top, k
  <1>4. /\ Framed(u, v, k) /\ v.page = s.page /\ v.pages = s.pages /\ v.flow[k] = s.flow[k]
        /\ v.stack[k].screen /\ v.stack[k].of = name
        /\ v.stack[k].button = "list" /\ (~KeepTicker => v.stack[k].timer = 0)
    BY <1>1, <1>3, LayoutInitResult
  <1> HIDE DEF v
  <1>5. v \in States /\ Top(v) = k
    BY <1>3, <1>4 DEF Framed, Top
  <1>6. Redrawn(v, t, k) /\ Drawn(v, t, k)
    BY <1>1, <1>5, StackDisplayResult
  <1> HIDE DEF t
  <1>7. Framed(u, t, k)
    BY <1>4, <1>6 DEF Framed, Redrawn
  <1>8. /\ t.page = s.page /\ t.pages = s.pages /\ t.flow[k] = s.flow[k] /\ t.stack[k].screen
        /\ t.stack[k].of = name /\ t.stack[k].button = "list" /\ (~KeepTicker => t.stack[k].timer = 0)
    BY <1>4, <1>6 DEF Redrawn
  <1>9. /\ t \in States /\ t.count = s.count /\ t.list = u.list /\ t.item = u.item
        /\ \A j \in SlotNumbers : t.flow[j] = s.flow[j]
        /\ \A j \in SlotNumbers \ {k} : t.stack[j] = s.stack[j]
    BY <1>7, <1>8 DEF Framed
  <1>10. t.flow = s.flow
    <2>1. t.flow \in [SlotNumbers -> FlowStates] /\ s.flow \in [SlotNumbers -> FlowStates]
      BY <1>1, <1>9, StateFields
    <2> QED BY <1>9, <2>1
  <1>11. Top(t) = k /\ TopFlow(t) = t.flow[k] /\ TopSlot(t) = t.stack[k]
    BY <1>9 DEF Top, k, TopFlow, TopSlot
  <1>12. Occupied(t.stack[k], t.flow[k])
    BY <1>1, <1>2, <1>8 DEF Occupied, ButtonFor, Timed
  <1>13. \A j \in SlotNumbers : Good(t.stack[j], t.flow[j])
    BY <1>1, <1>8, <1>9, <1>12 DEF Good
  <1>14. Base(t)
    <2>1. k \in Nat /\ s.count \in Nat /\ k < s.count
      BY <1>1, StateFields DEF Ground, SlotNumbers
    <2>2. \A j \in SlotNumbers : j >= s.count => j # k
      BY <2>1
    <2>3. Listed(t)
      BY <1>9 DEF Listed
    <2>4. u.stack[0] = s.stack[0] /\ u.count = s.count
      OBVIOUS
    <2>5. Apart(u)
      BY <1>1, <2>4, ApartSame DEF Base
    <2>6. Apart(t)
      BY <1>3, <1>7, <2>5, ApartTop
    <2> QED BY <1>1, <1>9, <2>2, <2>3, <2>6 DEF Base
  <1>15. PageFits(t)
    BY <1>1, <1>8, <1>11 DEF PageFits, Paged, TopStep
  <1>16. Painted(t)
    <2>1. t.count = v.count /\ TopFlow(t) = TopFlow(v) /\ t.page = v.page /\ t.pages = v.pages
          /\ t.list = v.list /\ t.item = v.item
      BY <1>6 DEF Redrawn, Framed, TopFlow, Top
    <2>2. Hides(t, Step[name].kind) = Hides(v, Step[name].kind)
      BY <2>1, HidesSame
    <2> QED BY <1>4, <1>6, <1>8, <1>11, <2>2 DEF Painted, Drawn, TopStep
  <1>17. Calm(s, t)
    BY <1>8, <1>9, <1>10 DEF Calm
  <1> QED BY <1>7, <1>13, <1>14, <1>15, <1>16, <1>17 DEF Inv, t, v, k

\* What an operation of the top slot comes to: nothing but drawing, a step laid out that
\* the step before leads to, or a page turned.
Changes(s, t) ==
    /\ t.mask = s.mask
    /\ \/ Calm(s, t)
       \/ Relaid(s, t) /\ Kin(s, t) /\ TopFlow(s).length # 0
       \/ Paged(s) /\ \E p \in {s.page - 1, s.page + 1} : Turned(s, t, p)

\* The left and the right buttons of a flow.
LEMMA MovesChange ==
    ASSUME NEW s, Inv(s)
    PROVE  /\ Inv(FlowNext(s)) /\ Changes(s, FlowNext(s))
           /\ Inv(FlowPrev(s)) /\ Changes(s, FlowPrev(s))
           /\ Inv(FlowValidate(s)) /\ Changes(s, FlowValidate(s))
           /\ Inv(FlowError(s)) /\ Changes(s, FlowError(s))
  <1>1. Calm(s, s)
    BY DEF Calm
  <1>2. NextMoves(s) => Relaid(s, FlowNext(s)) /\ Kin(s, FlowNext(s)) /\ TopFlow(s).length # 0
    BY FlowNextResult, ArrivedKin DEF NextMoves
  <1>3. PrevMoves(s) => Relaid(s, FlowPrev(s)) /\ Kin(s, FlowPrev(s)) /\ TopFlow(s).length # 0
    BY FlowPrevResult, ArrivedKin DEF PrevMoves
  <1>4. (~NextMoves(s) => FlowNext(s) = s) /\ (~PrevMoves(s) => FlowPrev(s) = s)
    BY FlowNextResult, FlowPrevResult
  <1>5. FlowValidate(s) = s \/ (Relaid(s, FlowValidate(s)) /\ Kin(s, FlowValidate(s)))
    BY FlowValidateResult
  <1>6. FlowError(s) = s \/ (Relaid(s, FlowError(s)) /\ Kin(s, FlowError(s)))
    BY FlowErrorResult
  <1>61. TopFlow(s).length = 0 => FlowValidate(s) = s /\ FlowError(s) = s
    BY DEF FlowValidate, FlowError, Valid
  <1>7. \A t : Relaid(s, t) => Inv(t) /\ t.mask = s.mask
    BY DEF Relaid, Framed
  <1>8. Inv(FlowNext(s)) /\ Changes(s, FlowNext(s))
    BY <1>1, <1>2, <1>4, <1>7 DEF Changes
  <1>9. Inv(FlowPrev(s)) /\ Changes(s, FlowPrev(s))
    BY <1>1, <1>3, <1>4, <1>7 DEF Changes
  <1>10. Inv(FlowValidate(s)) /\ Changes(s, FlowValidate(s))
    BY <1>1, <1>5, <1>61, <1>7 DEF Changes
  <1>11. Inv(FlowError(s)) /\ Changes(s, FlowError(s))
    BY <1>1, <1>6, <1>61, <1>7 DEF Changes
  <1> QED BY <1>8, <1>9, <1>10, <1>11

\* The buttons of the top slot are those of its step.
LEMMA TopButton ==
    ASSUME NEW s, Inv(s)
    PROVE  /\ TopFlow(s).length = 0 => s.stack[Top(s)].button = None
           /\ TopFlow(s).length # 0 =>
                 /\ s.stack[Top(s)].button = ButtonFor(TopStep(s).kind)
                 /\ TopStep(s).kind \in {"text", "pages", "list"}
                 /\ TopSlot(s).of = Current(s, Top(s))
           /\ Paged(s) <=> s.stack[Top(s)].button = "pages"
           /\ s.stack[Top(s)].button = "list" =>
                 TopFlow(s).length # 0 /\ TopStep(s).kind = "list" /\ TopFlow(s).steps = Menu
  <1> DEFINE k == Top(s)
  <1>1. k \in SlotNumbers /\ TopFlow(s) = s.flow[k] /\ TopSlot(s) = s.stack[k] /\ TopStep(s) = Step[s.stack[k].of]
    BY InvFacts DEF TopFlow, TopSlot, TopStep
  <1>2. s.flow[k].length = 0 => s.stack[k].button = None
    BY <1>1, InvFacts DEF NoSlot
  <1>3. s.flow[k].length # 0 =>
           /\ s.stack[k].button = ButtonFor(Step[s.stack[k].of].kind)
           /\ s.stack[k].of = Current(s, k)
           /\ Step[s.stack[k].of].kind \in {"text", "pages", "list"}
           /\ Step[s.stack[k].of].kind = "list" => s.flow[k].steps = Menu
    <2>1. ASSUME s.flow[k].length # 0 PROVE Occupied(s.stack[k], s.flow[k]) /\ Placed(s, k)
      BY <1>1, <2>1, InvFacts
    <2>2. Placed(s, k) => /\ Current(s, k) = Item(s.flow[k].steps, s.flow[k].index)
                          /\ Step[Current(s, k)].kind \in {"text", "pages", "list"}
                          /\ Step[Current(s, k)].kind = "list" => s.flow[k].steps = Menu
      BY <1>1, PlacedStep
    <2> QED BY <2>1, <2>2 DEF Occupied
  <1> HIDE DEF k
  <1>4. Paged(s) <=> s.stack[k].button = "pages"
    BY <1>1, <1>2, <1>3 DEF Paged, ButtonFor, None
  <1>5. s.stack[k].button = "list" => s.flow[k].length # 0 /\ Step[s.stack[k].of].kind = "list"
    BY <1>1, <1>2, <1>3 DEF ButtonFor, None
  <1> QED BY <1>1, <1>2, <1>3, <1>4, <1>5 DEF k

\* The pages and the list of slot 0 are on top.
LEMMA ZeroButton ==
    ASSUME NEW s, Inv(s)
    PROVE  s.stack[0].button \in {"pages", "list"} => Top(s) = 0 /\ s.count = 1
  <1>1. Apart(s) /\ s.count \in 1..Slots
    BY InvFacts DEF Base
  <1>2. s.stack[0].button \in {"pages", "list"} => ~(s.count > 1)
    BY <1>1 DEF Apart, None
  <1> QED BY <1>1, <1>2 DEF Top

\* ux_layout_paging_next and ux_layout_paging_prev turn a page.
LEMMA PagesButtonResult ==
    ASSUME NEW s, Inv(s), Paged(s), NEW reaction \in {"previous", "next", "validate"}, KeepsButton(s, reaction)
    PROVE  /\ Inv(PagesButton(s, reaction)) /\ Changes(s, PagesButton(s, reaction))
           /\ reaction = "next" => Turned(s, PagesButton(s, reaction), s.page + 1)
           /\ reaction = "previous" => Turned(s, PagesButton(s, reaction), s.page - 1)
  <1> DEFINE p == IF reaction = "next" THEN s.page + 1 ELSE s.page - 1
             k == Top(s)
  <1>1. CASE reaction = "validate"
    BY <1>1 DEF PagesButton, Changes, Calm
  <1>2. CASE reaction # "validate"
    <2>1. s \in States /\ s.page \in Nat /\ s.pages \in Nat
      BY InvFacts, StateFields
    <2>2. s.pages = TopStep(s).pages /\ s.page < s.pages
      BY DEF Inv, PageFits
    <2>3. (reaction = "next" => s.page # s.pages - 1) /\ (reaction = "previous" => s.page # 0)
      BY DEF KeepsButton
    <2>4. p \in 0..(TopStep(s).pages - 1) /\ p \in {s.page - 1, s.page + 1}
          /\ (reaction = "next" => p = s.page + 1) /\ (reaction = "previous" => p = s.page - 1)
      BY <1>2, <2>1, <2>2, <2>3
    <2>5. [s EXCEPT !.page = IF reaction = "next" THEN @ + 1 ELSE @ - 1] = [s EXCEPT !.page = p]
      BY <2>1 DEF States
    <2>6. PagesButton(s, reaction) = StackDisplay(PagingRedisplay([s EXCEPT !.page = p], k), k)
      BY <1>2, <2>5 DEF PagesButton
    <2> HIDE DEF p
    <2>7. Turned(s, PagesButton(s, reaction), p)
      BY <2>4, <2>6, TurnedResult
    <2> QED BY <2>4, <2>7 DEF Changes, Turned, Framed
  <1> QED BY <1>1, <1>2

\* No flow that leads nowhere shows the list.
LEMMA ListKin ==
    ASSUME NEW s, Inv(s), TopFlow(s).length # 0, TopStep(s).kind = "list", NEW t
    PROVE  Kin(s, t)
  <1>1. <<TopFlow(s).steps, TopFlow(s).index>> \in Stops
        /\ Step[Item(TopFlow(s).steps, TopFlow(s).index)].kind = "list"
    BY TopFacts, TopButton DEF TopStep
  <1> QED BY <1>1 DEF Kin, Plain

\* ux_menulist_button shows another item, or starts the flow of the selection.
LEMMA ListButtonResult ==
    ASSUME NEW s, Inv(s), s.stack[Top(s)].button = "list", NEW reaction \in {"previous", "next", "validate"}
    PROVE  /\ Inv(ListButton(s, reaction)) /\ Changes(s, ListButton(s, reaction))
           /\ LET item == IF reaction = "next" THEN s.item + 1 ELSE s.item - 1
              IN reaction # "validate" =>
                    /\ Calm(s, ListButton(s, reaction))
                    /\ IF item \in 0..(Lists[s.list].items - 1) THEN ListButton(s, reaction).item = item
                       ELSE ListButton(s, reaction) = s
  <1> DEFINE k == Top(s)
             item == IF reaction = "next" THEN s.item + 1 ELSE s.item - 1
  <1>1. TopFlow(s).length # 0 /\ TopStep(s).kind = "list" /\ TopFlow(s).steps = Menu
    BY TopButton
  <1>2. s \in States /\ k \in SlotNumbers /\ Ground(s, k) /\ Listed(s) /\ s.list \in DOMAIN Lists
    BY <1>1, InvFacts DEF Listed, TopFlow
  <1>3. CASE reaction = "validate"
    <2> DEFINE f == Lists[s.list].select
    <2>1. f \in DOMAIN Flows /\ f # Menu /\ <<f, 0>> \in Stops
      BY <1>2, ListsAssumption, FlowBegins
    <2>2. ListButton(s, reaction) = FlowInit(s, k, f, 0)
      BY <1>3 DEF ListButton
    <2> HIDE DEF f
    <2>3. Relaid(s, FlowInit(s, k, f, 0))
      BY <1>2, <2>1, FlowInitRelaid
    <2>4. Kin(s, FlowInit(s, k, f, 0))
      BY <1>1, ListKin
    <2> QED BY <1>1, <1>3, <2>2, <2>3, <2>4 DEF Changes, Relaid, Framed
  <1>4. CASE reaction # "validate" /\ item \in 0..(Lists[s.list].items - 1)
    <2> DEFINE u == [s EXCEPT !.item = item]
               t == StackDisplay(LayoutInit(u, k, "list"), k)
    <2>1. ListButton(s, reaction) = t
      BY <1>4 DEF ListButton
    <2>2. item \in Nat
      BY <1>2, <1>4, ListsAssumption
    <2> HIDE DEF item
    <2>3. /\ u \in States /\ u.count = s.count /\ u.stack = s.stack /\ u.flow = s.flow /\ u.page = s.page
          /\ u.pages = s.pages /\ u.list = s.list /\ u.item = item
      BY <1>2, <2>2 DEF States
    <2> HIDE DEF u
    <2>4. Inv(t) /\ Calm(s, t) /\ Framed(u, t, k)
      BY <1>1, <1>2, <1>4, <2>3, ListedAgain
    <2>5. t.item = item /\ t.mask = s.mask
      <3>1. u.mask = s.mask
        BY DEF u
      <3> QED BY <2>3, <2>4, <3>1 DEF Framed
    <2> QED BY <1>4, <2>1, <2>4, <2>5 DEF Changes, item
  <1>5. CASE reaction # "validate" /\ item \notin 0..(Lists[s.list].items - 1)
    <2>1. ListButton(s, reaction) = s
      BY <1>5 DEF ListButton
    <2> QED BY <1>5, <2>1 DEF Changes, Calm
  <1> QED BY <1>3, <1>4, <1>5

\* What a change of the buttons may amount to.
Reactions == {"nothing", "previous", "next", "validate"}

\* The callback of the buttons.
LEMMA ReactResult ==
    ASSUME NEW s, Inv(s), NEW reaction \in Reactions
    PROVE  Inv(React(s, reaction)) /\ Changes(s, React(s, reaction))
  <1> DEFINE button == s.stack[0].button
  <1>1. CASE reaction = "nothing"
    BY <1>1 DEF React, Changes, Calm
  <1>2. CASE reaction # "nothing" /\ button = "list"
    <2>1. React(s, reaction) = ListButton(s, reaction)
      BY <1>2 DEF React
    <2> QED BY <1>2, <2>1, ListButtonResult, ZeroButton DEF Reactions
  <1>3. CASE reaction # "nothing" /\ button = "pages" /\ KeepsButton(s, reaction)
    <2>1. React(s, reaction) = PagesButton(s, reaction)
      BY <1>3 DEF React
    <2>2. Paged(s)
      BY <1>3, TopButton, ZeroButton
    <2> QED BY <1>3, <2>1, <2>2, PagesButtonResult DEF Reactions
  <1>4. CASE reaction # "nothing" /\ button # "list" /\ ~(button = "pages" /\ KeepsButton(s, reaction))
    <2>1. React(s, reaction) = FlowButton(s, reaction)
      BY <1>4 DEF React
    <2>2. FlowButton(s, reaction) \in {FlowPrev(s), FlowNext(s), FlowValidate(s)}
      BY <1>4 DEF FlowButton, Reactions
    <2> QED BY <2>1, <2>2, MovesChange
  <1> QED BY <1>1, <1>2, <1>3, <1>4

\* Buttons amount to one of the reactions.
LEMMA ReactionKinds ==
    ASSUME NEW s \in States, NEW new
    PROVE  Reaction(s, new) \in Reactions
  <1>1. s.mask \in SUBSET {"LEFT", "RIGHT"}
    BY StateFields DEF Keys
  <1>2. s.mask = {} \/ s.mask = {"LEFT"} \/ s.mask = {"RIGHT"} \/ s.mask = Keys
    BY <1>1 DEF Keys
  <1>3. s.mask = Keys => s.mask # {"LEFT"} /\ s.mask # {"RIGHT"} /\ s.mask # {}
    BY DEF Keys
  <1> QED BY <1>2, <1>3 DEF Reaction, Reactions

\* UX_BUTTON_PUSH_EVENT and what is drawn after it.
LEMMA ButtonResult ==
    ASSUME NEW s, Inv(s), NEW new \in SUBSET Keys
    PROVE  LET u == Pushed(s, new)
               v == React(u, Reaction(s, new))
               t == DisplayNext(Pressed(s, new))
           IN \/ /\ s.stack[0].button = None /\ Inv(t) /\ Calm(s, t) /\ t.mask = s.mask
              \/ /\ s.stack[0].button # None
                 /\ Inv(u) /\ Calm(s, u) /\ Changes(u, v) /\ Inv(v) /\ Calm(v, t) /\ Inv(t)
                 /\ t = DisplayNext(v) /\ t.mask = u.mask /\ u.stack = s.stack
  <1> DEFINE u == Pushed(s, new)
             v == React(u, Reaction(s, new))
             t == DisplayNext(Pressed(s, new))
  <1>1. CASE s.stack[0].button = None
    <2>1. t = DisplayNext(s)
      BY <1>1 DEF Pressed
    <2> QED BY <1>1, <2>1, DisplayNextInv
  <1>2. CASE s.stack[0].button # None
    <2>1. t = DisplayNext(v)
      BY <1>2 DEF Pressed
    <2>2. Inv(u) /\ Calm(s, u) /\ u.stack = s.stack
      BY PushedInv
    <2>3. Reaction(s, new) \in Reactions
      BY ReactionKinds, InvFacts
    <2> HIDE DEF u, t
    <2>4. Inv(v) /\ Changes(u, v)
      BY <2>2, <2>3, ReactResult
    <2> HIDE DEF v
    <2>5. Inv(t) /\ Calm(v, t) /\ t.mask = v.mask
      BY <2>1, <2>4, DisplayNextInv
    <2>6. t.mask = u.mask
      BY <2>4, <2>5 DEF Changes
    <2> QED BY <1>2, <2>1, <2>2, <2>4, <2>5, <2>6 DEF u, v, t
  <1> QED BY <1>1, <1>2

\* ux_layout_ticker_callback.
LEMMA RingsResult ==
    ASSUME NEW s, Inv(s)
    PROVE  \E u : Inv(u) /\ Calm(s, u) /\ u.mask = s.mask /\ Rings(s) = FlowValidate(u)
  <1> DEFINE u == TimerSet(s, Top(s), 0, 0)
  <1>1. Top(s) \in SlotNumbers /\ Counts(s.stack[Top(s)], 0, 0)
    BY InvFacts DEF Counts
  <1>2. Rings(s) = FlowValidate(u)
    BY DEF Rings, TimerSet
  <1> HIDE DEF u
  <1>3. u = TimerSet(s, Top(s), 0, 0)
    BY DEF u
  <1>4. Inv(u) /\ Calm(s, u) /\ Framed(s, u, Top(s))
    BY <1>1, <1>3, DownInv
  <1> QED BY <1>2, <1>4 DEF Framed

\* UX_TICKER_EVENT.
LEMMA TickedResult ==
    ASSUME NEW s, Inv(s)
    PROVE  \E u : /\ Inv(u) /\ Calm(s, u) /\ u.mask = s.mask
                  /\ Inv(Ticked(s)) /\ Changes(u, Ticked(s))
  <1> DEFINE slot == s.stack[0]
             left == IF slot.timer = 1 THEN slot.interval ELSE slot.timer - 1
             down == TimerSet(s, 0, left, slot.interval)
  <1>0. \A v : Changes(v, v)
    BY DEF Changes, Calm
  <1>1. s \in States /\ 0 \in SlotNumbers /\ slot.timer \in Nat /\ slot.interval \in Nat
    BY InvFacts, SlotsAssumption, SlotFields DEF SlotNumbers
  <1>2. CASE slot.timer = 0
    <2>1. Ticked(s) = s
      BY <1>2 DEF Ticked
    <2>2. Calm(s, s)
      BY DEF Calm
    <2> QED BY <1>0, <2>1, <2>2
  <1>3. CASE slot.timer # 0
    <2>1. left \in Nat /\ Counts(slot, left, slot.interval)
      BY <1>1, <1>3 DEF Counts
    <2>2. [s EXCEPT !.stack[0].timer = left] = down
      <3>1. s.stack \in [SlotNumbers -> SlotStates] /\ slot \in SlotStates
        BY <1>1, StateFields
      <3>2. [slot EXCEPT !.timer = left] = [slot EXCEPT !.timer = left, !.interval = slot.interval]
        BY <3>1 DEF SlotStates
      <3>3. [s EXCEPT !.stack[0].timer = left]
               = [s EXCEPT !.stack = [s.stack EXCEPT ![0] = [slot EXCEPT !.timer = left]]]
        BY <1>1, <3>1 DEF States, SlotStates
      <3> HIDE DEF left
      <3>4. down = [s EXCEPT !.stack = [s.stack EXCEPT ![0] = [slot EXCEPT !.timer = left, !.interval = slot.interval]]]
        <4>1. down = TimerPut(s, 0, left, slot.interval)
          BY <1>1, <2>1, TimerSlot
        <4> QED BY <4>1 DEF TimerPut
      <3> QED BY <3>2, <3>3, <3>4
    <2>3. Ticked(s) = IF slot.timer = 1 THEN Rings(down) ELSE down
      BY <1>3, <2>2 DEF Ticked
    <2>4. down = TimerSet(s, 0, left, slot.interval)
      OBVIOUS
    <2> HIDE DEF down, left
    <2>5. Inv(down) /\ Calm(s, down) /\ Framed(s, down, 0)
      BY <1>1, <2>1, <2>4, DownInv
    <2>6. CASE slot.timer = 1
      <3>1. PICK u : Inv(u) /\ Calm(down, u) /\ u.mask = down.mask /\ Rings(down) = FlowValidate(u)
        BY <2>5, RingsResult
      <3>2. Inv(FlowValidate(u)) /\ Changes(u, FlowValidate(u))
        BY <3>1, MovesChange
      <3>3. Calm(s, u) /\ u.mask = s.mask
        BY <2>5, <3>1 DEF Calm, Framed
      <3> QED BY <2>3, <2>6, <3>1, <3>2, <3>3
    <2>7. CASE slot.timer # 1
      BY <1>0, <2>3, <2>5, <2>7 DEF Framed
    <2> QED BY <2>6, <2>7
  <1> QED BY <1>2, <1>3

\* UX_REDISPLAY.
LEMMA RedisplayResult ==
    ASSUME NEW s, Inv(s)
    PROVE  LET t == DisplayNext([s EXCEPT !.mask = {}, !.same = 0, !.stack[0].cursor = 0])
           IN Inv(t) /\ Calm(s, t)
  <1> DEFINE v == [s EXCEPT !.mask = {}, !.same = 0, !.stack[0].cursor = 0]
             u == [s EXCEPT !.mask = {}, !.same = 0]
             w == [u EXCEPT !.stack[0].cursor = 0]
  <1>1. s \in States /\ 0 \in SlotNumbers
    BY InvFacts, SlotsAssumption DEF SlotNumbers
  <1>2. v = w
    BY <1>1 DEF States
  <1>3. /\ u \in States /\ u.count = s.count /\ u.stack = s.stack /\ u.flow = s.flow
        /\ u.page = s.page /\ u.pages = s.pages /\ u.list = s.list /\ u.item = s.item
    <2>1. 0 \in 0..Fast /\ {} \in SUBSET Keys
      BY SlotsAssumption
    <2>2. u \in States
      BY <1>1, <2>1 DEF States
    <2> QED BY <1>1, <2>2 DEF States
  <1> HIDE DEF u
  <1>4. Inv(u) /\ Calm(s, u)
    BY <1>3, SameSlots
  <1>5. Redrawn(u, w, 0) /\ w.stack[0].cursor = 0 /\ (u.stack[0] = NoSlot => w.stack[0] = NoSlot)
    BY <1>1, <1>3, CursorReset
  <1> HIDE DEF w
  <1>6. Inv(w) /\ Calm(u, w)
    BY <1>1, <1>4, <1>5, RedrawnInv
  <1>7. Inv(DisplayNext(w)) /\ Calm(w, DisplayNext(w))
    BY <1>6, DisplayNextInv
  <1>8. Calm(s, DisplayNext(w))
    BY <1>4, <1>6, <1>7 DEF Calm
  <1> QED BY <1>2, <1>7, <1>8

\* What starts on an empty stack, or over what was there: one slot, newly laid out.
Starts(s, t) ==
    /\ t.mask = s.mask /\ s.count = 1
    /\ Calm(s, t) \/ (t.count = 1 /\ TopFlow(t).length # 0 /\ (LoopsUnpaged => Fresh(t)))

\* An application starts one of its flows.
LEMMA StartFlowResult ==
    ASSUME NEW s, Inv(s), s.count = 1, NEW f \in AppFlows
    PROVE  Inv(FlowInit(s, 0, f, 0)) /\ Starts(s, FlowInit(s, 0, f, 0))
  <1>1. Ground(s, 0) /\ Top(s) = 0
    BY InvFacts DEF Top
  <1>2. f \in DOMAIN Flows /\ f # Menu /\ <<f, 0>> \in Stops
    BY FlowsAssumption, ListsAssumption, FlowBegins
  <1>3. Relaid(s, FlowInit(s, 0, f, 0))
    BY <1>1, <1>2, FlowInitRelaid
  <1> QED BY <1>3 DEF Relaid, Framed, Starts

\* An application shows one of its lists.
LEMMA StartListResult ==
    ASSUME NEW s, Inv(s), s.count = 1, NEW list \in DOMAIN Lists, NEW item \in 0..(Lists[list].items - 1)
    PROVE  Inv(MenuInit(s, 0, list, item)) /\ Starts(s, MenuInit(s, 0, list, item))
  <1> DEFINE t == [s EXCEPT !.list = list, !.item = item]
             u == MenuInit(s, 0, list, item)
  <1>1. s \in States /\ Base(s) /\ Ground(s, 0) /\ Top(s) = 0 /\ 0 \in SlotNumbers
    BY InvFacts DEF Top
  <1>2. item \in Nat
    BY ListsAssumption
  <1>3. /\ t \in States /\ t.count = s.count /\ t.stack = s.stack /\ t.flow = s.flow /\ t.page = s.page
        /\ t.pages = s.pages /\ t.list = list /\ t.item = item /\ t.mask = s.mask
    BY <1>1, <1>2 DEF States
  <1>4. u = IF Current(t, 0) \in Markers \/ Step[Current(t, 0)].kind # "list"
              THEN FlowInit(t, 0, Menu, 0) ELSE StackDisplay(LayoutInit(t, 0, "list"), 0)
    BY DEF MenuInit
  <1> HIDE DEF t, u
  <1>5. CASE Current(t, 0) \in Markers \/ Step[Current(t, 0)].kind # "list"
    <2>1. Base(t)
      BY <1>1, <1>3 DEF Base, Listed, Apart
    <2>2. Ground(t, 0) /\ Top(t) = 0
      BY <1>1, <1>3, <2>1 DEF Ground, Top
    <2>3. <<Menu, 0>> \in Stops
      BY FlowsAssumption, FlowBegins
    <2>4. Relaid(t, FlowInit(t, 0, Menu, 0))
      BY <1>3, <2>2, <2>3, FlowInitRelaid
    <2> QED BY <1>3, <1>4, <1>5, <2>4 DEF Relaid, Framed, Starts, u
  <1>6. CASE Current(t, 0) \notin Markers /\ Step[Current(t, 0)].kind = "list"
    <2>1. u = StackDisplay(LayoutInit(t, 0, "list"), 0)
      BY <1>4, <1>6
    <2>2. s.flow[0].length # 0
      BY <1>3, <1>6 DEF Current, Markers
    <2>3. Occupied(s.stack[0], s.flow[0]) /\ Placed(s, 0)
      BY <1>1, <2>2, InvFacts
    <2>4. Current(t, 0) = Item(s.flow[0].steps, s.flow[0].index)
      BY <1>3, <2>2 DEF Current
    <2>5. TopFlow(s).length # 0 /\ TopStep(s).kind = "list"
      BY <1>1, <1>6, <2>2, <2>3, <2>4 DEF Occupied, TopFlow, TopStep, TopSlot
    <2>6. Inv(u) /\ Calm(s, u) /\ Framed(t, u, 0)
      BY <1>1, <1>3, <2>1, <2>5, ListedAgain
    <2> QED BY <1>3, <2>6 DEF Framed, Starts, u
  <1> QED BY <1>5, <1>6

-----------------------------------------------------------------------------
(* ux_stack.c. *)

\* A state with other slots, and another number of them.
Stacked(s, t, stack, flow, count) ==
    /\ t \in States /\ t.count = count /\ t.stack = stack /\ t.flow = flow /\ t.page = s.page
    /\ t.pages = s.pages /\ t.list = s.list /\ t.item = s.item /\ t.mask = s.mask /\ t.same = s.same

\* What a slot without a flow is.
LEMMA EmptySlot ==
    /\ NoSlot \in SlotStates /\ NoFlow \in FlowStates /\ Good(NoSlot, NoFlow)
    /\ NoFlow.length = 0 /\ NoFlow.steps = None /\ NoFlow.steps # Menu /\ NoSlot.of = None
    /\ [NoSlot EXCEPT !.cursor = 0] = NoSlot
  BY DEF NoSlot, NoFlow, SlotStates, FlowStates, Good, None, Menu

\* A slot whose elements are to be drawn again keeps its step.
LEMMA GoodReset ==
    ASSUME NEW slot \in SlotStates, NEW flow, Good(slot, flow)
    PROVE  /\ [slot EXCEPT !.cursor = 0] \in SlotStates /\ Good([slot EXCEPT !.cursor = 0], flow)
           /\ [slot EXCEPT !.cursor = 0].of = slot.of
  <1> DEFINE reset == [slot EXCEPT !.cursor = 0]
  <1>1. reset \in SlotStates /\ reset.screen = slot.screen /\ reset.button = slot.button
        /\ reset.timer = slot.timer /\ reset.of = slot.of /\ reset.interval = slot.interval
    BY DEF SlotStates
  <1>2. slot = NoSlot => reset = NoSlot
    BY EmptySlot
  <1> HIDE DEF reset
  <1>3. Good(reset, flow)
    BY <1>1, <1>2 DEF Good, Occupied, Timed
  <1> QED BY <1>1, <1>3 DEF reset

\* ux_stack_push leaves the slots as they are: those above the top are empty.
LEMMA PushResult ==
    ASSUME NEW s, Inv(s), s.count < Slots, s.stack[0].button \in {None, "flow"}
    PROVE  /\ Stacked(s, StackPush(s), s.stack, s.flow, s.count + 1)
           /\ Ground(StackPush(s), s.count) /\ Top(StackPush(s)) = s.count
  <1> DEFINE t == StackPush(s)
             k == s.count
  <1>1. /\ s \in States /\ Base(s) /\ Listed(s) /\ \A j \in SlotNumbers : Good(s.stack[j], s.flow[j])
        /\ s.stack \in [SlotNumbers -> SlotStates] /\ s.flow \in [SlotNumbers -> FlowStates]
    BY InvFacts, StateFields
  <1>2. k \in Nat /\ k + 1 \in 1..Slots /\ k \in SlotNumbers /\ Slots \in Nat
    BY <1>1, StateFields, SlotsAssumption DEF SlotNumbers
  <1>3. s.stack[k] = NoSlot /\ s.flow[k] = NoFlow
    BY <1>1, <1>2 DEF Base
  <1>4. [s.stack EXCEPT ![k] = NoSlot] = s.stack /\ [s.flow EXCEPT ![k] = NoFlow] = s.flow
    BY <1>1, <1>2, <1>3
  <1>5. t = [s EXCEPT !.count = k + 1, !.stack = [s.stack EXCEPT ![k] = NoSlot],
                      !.flow = [s.flow EXCEPT ![k] = NoFlow]]
    BY <1>1 DEF StackPush, States
  <1>6. t = [s EXCEPT !.count = k + 1, !.stack = s.stack, !.flow = s.flow]
    BY <1>4, <1>5
  <1> HIDE DEF t
  <1>7. Stacked(s, t, s.stack, s.flow, k + 1)
    <2>1. t \in States
      BY <1>1, <1>2, <1>6 DEF States
    <2> QED BY <1>1, <1>6, <2>1 DEF States, Stacked
  <1>8. Listed(t)
    BY <1>1, <1>7 DEF Listed, Stacked
  <1>9. \A j \in SlotNumbers : j >= k + 1 => j >= k
    BY <1>2 DEF SlotNumbers
  <1>10. Base(t)
    BY <1>1, <1>7, <1>8, <1>9 DEF Base, Stacked, Apart
  <1>11. Ground(t, k)
    BY <1>1, <1>2, <1>7, <1>10 DEF Ground, Stacked
  <1>12. Top(t) = k
    BY <1>2, <1>7 DEF Top, Stacked
  <1> QED BY <1>7, <1>11, <1>12 DEF t

\* The slots after ux_stack_pop.
PoppedStack(s) == [[s.stack EXCEPT ![s.count - 1] = NoSlot] EXCEPT ![s.count - 2] = [@ EXCEPT !.cursor = 0]]
PoppedFlow(s) == [s.flow EXCEPT ![s.count - 1] = NoFlow]

\* ux_stack_pop wipes the top slot, and has the next one drawn again.
LEMMA PopResult ==
    ASSUME NEW s \in States, s.count > 1
    PROVE  /\ Stacked(s, StackPop(s), PoppedStack(s), PoppedFlow(s), s.count - 1)
           /\ Top(StackPop(s)) = s.count - 2 /\ s.count - 2 \in SlotNumbers /\ s.count - 1 \in SlotNumbers
           /\ \A j \in SlotNumbers :
                 /\ StackPop(s).stack[j] = IF j = s.count - 1 THEN NoSlot
                                           ELSE IF j = s.count - 2 THEN [s.stack[j] EXCEPT !.cursor = 0]
                                           ELSE s.stack[j]
                 /\ StackPop(s).flow[j] = IF j = s.count - 1 THEN NoFlow ELSE s.flow[j]
  <1> DEFINE n == s.count - 1
             m == n - 1
             t == StackPop(s)
             stack == [s.stack EXCEPT ![n] = NoSlot]
             reset == [s.stack[m] EXCEPT !.cursor = 0]
  <1>1. s.stack \in [SlotNumbers -> SlotStates] /\ s.flow \in [SlotNumbers -> FlowStates] /\ s.count \in 1..Slots
    BY StateFields
  <1>2. n \in SlotNumbers /\ m \in SlotNumbers /\ m # n /\ n \in 1..Slots /\ m = s.count - 2
    BY <1>1, SlotsAssumption DEF SlotNumbers
  <1>3. t = [s EXCEPT !.count = n, !.stack[n] = NoSlot, !.flow[n] = NoFlow, !.stack[m].cursor = 0]
    BY DEF StackPop
  <1> HIDE DEF n, m, t
  <1>4. t = [s EXCEPT !.count = n, !.stack = [stack EXCEPT ![m] = [@ EXCEPT !.cursor = 0]],
                      !.flow = [s.flow EXCEPT ![n] = NoFlow]]
    BY <1>1, <1>2, <1>3 DEF States, SlotStates
  <1>5. reset \in SlotStates
    BY <1>1, <1>2 DEF SlotStates
  <1>6. stack \in [SlotNumbers -> SlotStates] /\ stack[m] = s.stack[m]
        /\ [s.flow EXCEPT ![n] = NoFlow] \in [SlotNumbers -> FlowStates]
    BY <1>1, <1>2, EmptySlot
  <1>7. [stack EXCEPT ![m] = [@ EXCEPT !.cursor = 0]] = [stack EXCEPT ![m] = reset]
    BY <1>6
  <1> HIDE DEF reset
  <1>8. [stack EXCEPT ![m] = reset] \in [SlotNumbers -> SlotStates]
    BY <1>5, <1>6
  <1>9. t \in States
    BY <1>2, <1>4, <1>6, <1>7, <1>8 DEF States
  <1>10. Stacked(s, t, [stack EXCEPT ![m] = [@ EXCEPT !.cursor = 0]], [s.flow EXCEPT ![n] = NoFlow], n)
    BY <1>4, <1>9 DEF States, Stacked
  <1>11. t.stack = [stack EXCEPT ![m] = reset] /\ t.flow = [s.flow EXCEPT ![n] = NoFlow] /\ t.count = n
    BY <1>7, <1>10 DEF Stacked
  <1>12. \A j \in SlotNumbers :
             /\ t.stack[j] = IF j = n THEN NoSlot ELSE IF j = m THEN reset ELSE s.stack[j]
             /\ t.flow[j] = IF j = n THEN NoFlow ELSE s.flow[j]
    BY <1>1, <1>2, <1>6, <1>11
  <1>13. Top(t) = m
    BY <1>11 DEF Top, m
  <1>14. \A j \in SlotNumbers : j = m => reset = [s.stack[j] EXCEPT !.cursor = 0]
    BY DEF reset
  <1>15. /\ \A j \in SlotNumbers :
              /\ t.stack[j] = IF j = n THEN NoSlot
                              ELSE IF j = m THEN [s.stack[j] EXCEPT !.cursor = 0] ELSE s.stack[j]
              /\ t.flow[j] = IF j = n THEN NoFlow ELSE s.flow[j]
    BY <1>12, <1>14
  <1> QED BY <1>2, <1>10, <1>13, <1>15 DEF n, t, PoppedStack, PoppedFlow

\* Popping a stack whose slots below the top are good leaves a ground to draw on.
LEMMA PoppedGround ==
    ASSUME NEW s \in States, s.count > 1, s.count > 2 => s.stack[0].button \in {None, "flow"},
           \A j \in SlotNumbers : j < s.count - 1 =>
               Good(s.stack[j], s.flow[j]) /\ (s.flow[j].steps = Menu => s.list \in DOMAIN Lists),
           \A j \in SlotNumbers : j >= s.count => s.stack[j] = NoSlot /\ s.flow[j] = NoFlow,
           s.list # None => s.item \in 0..(Lists[s.list].items - 1)
    PROVE  /\ Ground(StackPop(s), Top(StackPop(s)))
           /\ \A j \in SlotNumbers : Good(StackPop(s).stack[j], StackPop(s).flow[j])
  <1> DEFINE t == StackPop(s)
             n == s.count - 1
             m == s.count - 2
  <1>1. /\ t \in States /\ t.count = n /\ Top(t) = m /\ Top(t) \in SlotNumbers /\ t.list = s.list /\ t.item = s.item
        /\ \A j \in SlotNumbers :
              /\ t.stack[j] = IF j = n THEN NoSlot
                              ELSE IF j = m THEN [s.stack[j] EXCEPT !.cursor = 0] ELSE s.stack[j]
              /\ t.flow[j] = IF j = n THEN NoFlow ELSE s.flow[j]
    BY PopResult DEF Stacked
  <1>2. s.count \in Nat /\ n \in Nat /\ m < n /\ \A j \in SlotNumbers : j \in Nat /\ s.stack[j] \in SlotStates
    BY StateFields DEF SlotNumbers
  <1>3. \A j \in SlotNumbers :
            j < n => Good(s.stack[j], s.flow[j]) /\ (s.flow[j].steps = Menu => s.list \in DOMAIN Lists)
    OBVIOUS
  <1>4. \A j \in SlotNumbers : j >= n + 1 => s.stack[j] = NoSlot /\ s.flow[j] = NoFlow
    BY <1>2
  <1> HIDE DEF n, m, t
  <1>5. ASSUME NEW j \in SlotNumbers
        PROVE  /\ Good(t.stack[j], t.flow[j])
               /\ j >= n => t.stack[j] = NoSlot /\ t.flow[j] = NoFlow
               /\ t.flow[j].steps = Menu => s.list \in DOMAIN Lists
    <2>1. CASE j = n
      BY <1>1, <2>1, EmptySlot
    <2>2. CASE j < n
      <3>1. Good(s.stack[j], s.flow[j]) /\ (s.flow[j].steps = Menu => s.list \in DOMAIN Lists)
        BY <1>3, <2>2
      <3>2. j # n /\ ~(j >= n)
        BY <1>2, <2>2
      <3>3. Good([s.stack[j] EXCEPT !.cursor = 0], s.flow[j])
        BY <1>2, <3>1, GoodReset
      <3> QED BY <1>1, <3>1, <3>2, <3>3
    <2>3. CASE j > n
      <3>1. j # n /\ j # m /\ j >= n + 1
        BY <1>1, <1>2, <2>3
      <3> QED BY <1>1, <1>4, <3>1, EmptySlot
    <2> QED BY <1>2, <2>1, <2>2, <2>3
  <1>6. Listed(t)
    BY <1>1, <1>5 DEF Listed
  <1>61. Apart(t)
    <2>1. ASSUME t.count > 1 PROVE t.stack[0].button \in {None, "flow"}
      <3>1. s.count > 2 /\ 0 \in SlotNumbers /\ 0 # n
        BY <1>1, <1>2, <2>1, SlotsAssumption DEF n, SlotNumbers
      <3>2. t.stack[0] = s.stack[0] \/ t.stack[0] = [s.stack[0] EXCEPT !.cursor = 0]
        BY <1>1, <3>1
      <3>3. s.stack[0] \in SlotStates
        BY <1>2, <3>1
      <3>4. [s.stack[0] EXCEPT !.cursor = 0].button = s.stack[0].button
        BY <3>3 DEF SlotStates
      <3> QED BY <3>1, <3>2, <3>4
    <2> QED BY <2>1 DEF Apart
  <1>7. Base(t)
    BY <1>1, <1>5, <1>6, <1>61 DEF Base
  <1>8. Top(t) < t.count
    BY <1>1, <1>2
  <1>9. Ground(t, Top(t))
    BY <1>1, <1>5, <1>7, <1>8 DEF Ground
  <1> QED BY <1>5, <1>9 DEF t

\* The top is laid out again, in the step it is at.
Again(s, t) ==
    /\ Inv(t) /\ Framed(s, t, Top(s))
    /\ TopFlow(t).steps = TopFlow(s).steps /\ TopFlow(t).index = TopFlow(s).index
    /\ TopFlow(t).length = TopFlow(s).length /\ TopSlot(t).of = TopSlot(s).of
    /\ TopFlow(s).length # 0 => Placed(s, Top(s)) /\ Shown(s, t, Top(s), "again")
    /\ TopFlow(s).length = 0 => t.flow = s.flow /\ t.page = s.page

\* That is what ux_stack_redisplay does.
LEMMA RedisplayAgain ==
    ASSUME NEW s, Ground(s, Top(s)), \A j \in SlotNumbers : Good(s.stack[j], s.flow[j]), s.page <= s.pages
    PROVE  Again(s, StackRedisplay(s))
  <1> DEFINE k == Top(s)
             t == StackRedisplay(s)
  <1>1. k \in SlotNumbers /\ s \in States /\ Base(s) /\ Listed(s) /\ s.count \in 1..Slots /\ Ground(s, k)
    BY StateFields DEF Ground, Base
  <1>2. Good(s.stack[k], s.flow[k]) /\ k = Top(s) /\ TopFlow(s) = s.flow[k] /\ TopSlot(s) = s.stack[k]
    BY <1>1 DEF TopFlow, TopSlot
  <1> HIDE DEF k
  <1>3. CASE s.flow[k].length # 0
    <2>1. Occupied(s.stack[k], s.flow[k]) /\ Placed(s, k)
      BY <1>1, <1>2, <1>3 DEF Good, Occupied, Placed
    <2>2. Current(s, k) \notin Markers /\ Current(s, k) = Item(s.flow[k].steps, s.flow[k].index)
      BY <1>1, <2>1, PlacedStep
    <2>3. t = ShowStep(s, k, "again")
      BY <1>1, <1>2, <2>1, <2>2, InitScreen DEF StackRedisplay
    <2> HIDE DEF t
    <2>4. Shown(s, t, k, "again")
      BY <1>1, <2>1, <2>3, ShowStepResult
    <2>5. Reached(s, k, "again")
      BY <2>1 DEF Occupied, Reached
    <2>6. s.flow[k].steps = Menu => s.list \in DOMAIN Lists
      BY <1>1 DEF Listed
    <2>7. Framed(s, s, k)
      BY <1>1 DEF Framed
    <2>8. Inv(t) /\ Framed(s, t, k)
      BY <1>1, <1>2, <2>1, <2>4, <2>5, <2>6, <2>7, ShownInv
    <2>9. Top(t) = k /\ TopFlow(t) = t.flow[k] /\ TopSlot(t) = t.stack[k]
      BY <1>2, <2>8 DEF Framed, Top, TopFlow, TopSlot
    <2>10. t.stack[k].of = s.stack[k].of
      BY <2>1, <2>2, <2>4 DEF Occupied, Shown
    <2> QED BY <1>2, <1>3, <2>1, <2>4, <2>8, <2>9, <2>10 DEF Again, Shown, t
  <1>4. CASE s.flow[k].length = 0
    <2>1. Current(s, k) \in Markers
      BY <1>4 DEF Current, Markers
    <2>2. t = StackDisplay(s, k)
      BY <1>2, <2>1 DEF StackRedisplay
    <2>3. s.stack[k] = NoSlot
      BY <1>2, <1>4 DEF Good
    <2>4. Inv(s)
      <3>1. PageFits(s) /\ Painted(s)
        BY <1>2, <1>4 DEF PageFits, Paged, Painted
      <3> QED BY <1>1, <3>1 DEF Inv
    <2> HIDE DEF t
    <2>5. Redrawn(s, t, k) /\ Drawn(s, t, k) /\ t.stack[k] = NoSlot
      BY <1>1, <1>2, <2>2, <2>3, StackDisplayResult
    <2>6. Inv(t) /\ Calm(s, t)
      BY <1>1, <1>2, <2>4, <2>5, RedrawnInv
    <2>7. Framed(s, t, k) /\ t.flow = s.flow /\ t.page = s.page
      BY <2>5 DEF Redrawn
    <2>8. Top(t) = k /\ TopFlow(t) = TopFlow(s) /\ TopSlot(t) = t.stack[k]
      BY <1>2, <2>6, <2>7 DEF Calm, Top, TopFlow, TopSlot
    <2> QED BY <1>2, <1>4, <2>3, <2>5, <2>6, <2>7, <2>8 DEF Again, t
  <1> QED BY <1>3, <1>4

\* Slots moved up by one from k on, and down by one to k.
Raised(t, array, k, empty) ==
    \A j \in SlotNumbers : t[j] = IF j < k THEN array[j] ELSE IF j = k THEN empty ELSE array[j - 1]
Lowered(t, array, k) ==
    \A j \in SlotNumbers : t[j] = IF j < k \/ j = Slots - 1 THEN array[j] ELSE array[j + 1]

\* ux_stack_insert raises the slots, ux_stack_remove lowers them.
LEMMA AboveUp ==
    ASSUME NEW S, NEW array \in [SlotNumbers -> S], NEW k \in SlotNumbers, NEW empty \in S,
           NEW t, t = Above(array, k, 1, empty)
    PROVE  t \in [SlotNumbers -> S] /\ Raised(t, array, k, empty)
  <1>1. k \in Nat /\ Slots \in Nat
    BY SlotsAssumption DEF SlotNumbers
  <1>2. \A j \in SlotNumbers : ~(j < k) /\ j # k => j - 1 \in SlotNumbers
    BY <1>1 DEF SlotNumbers
  <1>3. Above(array, k, 1, empty) =
            [j \in SlotNumbers |-> IF j < k THEN array[j] ELSE IF j = k THEN empty ELSE array[j - 1]]
    BY DEF Above, SlotNumbers
  <1> QED BY <1>2, <1>3 DEF Raised

\* The same for ux_stack_remove.
LEMMA AboveDown ==
    ASSUME NEW S, NEW array \in [SlotNumbers -> S], NEW k \in SlotNumbers, NEW empty \in S,
           NEW t, t = Above(array, k, -1, empty)
    PROVE  t \in [SlotNumbers -> S] /\ Lowered(t, array, k)
  <1>1. k \in Nat /\ Slots \in Nat
    BY SlotsAssumption DEF SlotNumbers
  <1>2. \A j \in SlotNumbers : ~(j < k) /\ j # Slots - 1 => j + 1 \in SlotNumbers
    BY <1>1 DEF SlotNumbers
  <1>3. \A j \in SlotNumbers : j - (-1) = j + 1
    BY DEF SlotNumbers
  <1>4. Above(array, k, -1, empty) = [j \in SlotNumbers |-> IF j < k \/ j = Slots - 1 THEN array[j] ELSE array[j + 1]]
    BY <1>3 DEF Above, SlotNumbers
  <1> QED BY <1>2, <1>4 DEF Lowered

\* ux_stack_insert makes room under the top.
LEMMA InsertResult ==
    ASSUME NEW s, Inv(s), s.count < Slots, NEW t, t = StackInsert(s, Top(s))
    PROVE  /\ t \in States /\ t.count = s.count + 1 /\ Top(t) = Top(s) + 1 /\ Top(t) \in SlotNumbers
           /\ t.page = s.page /\ t.pages = s.pages /\ t.list = s.list /\ t.item = s.item /\ t.mask = s.mask
           /\ Base(t)
           /\ \A j \in SlotNumbers :
                 /\ Good(t.stack[j], t.flow[j])
                 /\ t.stack[j] = (IF j < Top(s) THEN s.stack[j] ELSE IF j = Top(s) THEN NoSlot ELSE s.stack[j - 1])
                 /\ t.flow[j] = (IF j < Top(s) THEN s.flow[j] ELSE IF j = Top(s) THEN NoFlow ELSE s.flow[j - 1])
  <1> DEFINE k == Top(s)
             stack == Above(s.stack, k, 1, NoSlot)
             flow == Above(s.flow, k, 1, NoFlow)
             In(j) == IF j < k THEN s.stack[j] ELSE IF j = k THEN NoSlot ELSE s.stack[j - 1]
             On(j) == IF j < k THEN s.flow[j] ELSE IF j = k THEN NoFlow ELSE s.flow[j - 1]
  <1>1. /\ s \in States /\ Base(s) /\ Listed(s) /\ \A j \in SlotNumbers : Good(s.stack[j], s.flow[j])
        /\ s.stack \in [SlotNumbers -> SlotStates] /\ s.flow \in [SlotNumbers -> FlowStates]
        /\ \A j \in SlotNumbers : j >= s.count => s.stack[j] = NoSlot /\ s.flow[j] = NoFlow
    BY InvFacts, StateFields DEF Base
  <1>2. k = s.count - 1 /\ k \in SlotNumbers /\ k \in Nat /\ s.count \in Nat
        /\ k + 1 \in SlotNumbers /\ s.count + 1 \in 1..Slots
    BY <1>1, StateFields, SlotsAssumption DEF SlotNumbers, Top
  <1> HIDE DEF k
  <1>3. stack \in [SlotNumbers -> SlotStates] /\ flow \in [SlotNumbers -> FlowStates]
        /\ \A j \in SlotNumbers : stack[j] = In(j) /\ flow[j] = On(j)
    <2>1. NoSlot \in SlotStates /\ NoFlow \in FlowStates
      BY EmptySlot
    <2>2. s.stack \in [SlotNumbers -> SlotStates] /\ s.flow \in [SlotNumbers -> FlowStates] /\ k \in SlotNumbers
      BY <1>1, <1>2
    <2>3. stack \in [SlotNumbers -> SlotStates] /\ Raised(stack, s.stack, k, NoSlot)
      BY <2>1, <2>2, AboveUp
    <2>4. flow \in [SlotNumbers -> FlowStates] /\ Raised(flow, s.flow, k, NoFlow)
      BY <2>1, <2>2, AboveUp
    <2> HIDE DEF stack, flow
    <2> QED BY <2>3, <2>4 DEF Raised
  <1>4. t = [s EXCEPT !.count = s.count + 1, !.stack = stack, !.flow = flow]
    BY <1>1 DEF StackInsert, States, k
  <1> HIDE DEF stack, flow
  <1>5. /\ t \in States /\ t.count = s.count + 1 /\ t.stack = stack /\ t.flow = flow /\ t.page = s.page
        /\ t.pages = s.pages /\ t.list = s.list /\ t.item = s.item /\ t.mask = s.mask
    <2>1. t \in States
      BY <1>1, <1>2, <1>3, <1>4 DEF States
    <2> QED BY <1>1, <1>4, <2>1 DEF States
  <1>6. Top(t) = k + 1
    BY <1>2, <1>5 DEF Top
  <1>7. ASSUME NEW j \in SlotNumbers
        PROVE  /\ Good(In(j), On(j)) /\ (On(j).steps = Menu => s.list \in DOMAIN Lists)
               /\ j >= s.count + 1 => In(j) = NoSlot /\ On(j) = NoFlow
    <2>1. \A h \in SlotNumbers : s.flow[h].steps = Menu => s.list \in DOMAIN Lists
      BY <1>1 DEF Listed
    <2>2. CASE j < k
      <3>1. ~(j >= s.count + 1)
        BY <1>2, <2>2 DEF SlotNumbers
      <3> QED BY <1>1, <2>1, <2>2, <3>1
    <2>3. CASE j = k
      <3>1. ~(j < k)
        BY <1>2, <2>3
      <3> QED BY <2>3, <3>1, EmptySlot
    <2>4. CASE ~(j < k) /\ j # k
      <3>1. j - 1 \in SlotNumbers /\ (j >= s.count + 1 => j - 1 >= s.count)
        BY <1>2, <2>4, SlotsAssumption DEF SlotNumbers
      <3> QED BY <1>1, <2>1, <2>4, <3>1
    <2> QED BY <2>2, <2>3, <2>4
  <1>8. ASSUME NEW j \in SlotNumbers
        PROVE  /\ Good(t.stack[j], t.flow[j]) /\ (t.flow[j].steps = Menu => s.list \in DOMAIN Lists)
               /\ t.stack[j] = In(j) /\ t.flow[j] = On(j)
               /\ j >= s.count + 1 => t.stack[j] = NoSlot /\ t.flow[j] = NoFlow
    <2>1. t.stack[j] = In(j) /\ t.flow[j] = On(j)
      BY <1>3, <1>5
    <2> HIDE DEF In, On
    <2> QED BY <1>7, <2>1
  <1>9. Listed(t)
    BY <1>1, <1>5, <1>8 DEF Listed
  <1>91. Apart(t)
    <2>1. 0 \in SlotNumbers
      BY SlotsAssumption DEF SlotNumbers
    <2>2. CASE k = 0
      <3>1. ~(0 < k)
        BY <2>2
      <3>2. In(0) = NoSlot
        BY <2>2, <3>1
      <3> QED BY <1>8, <2>1, <3>2 DEF Apart, NoSlot
    <2>3. CASE k # 0
      <3>1. 0 < k /\ s.count > 1
        BY <1>2, <2>3
      <3>2. In(0) = s.stack[0]
        BY <3>1
      <3> QED BY <1>1, <1>8, <2>1, <3>1, <3>2 DEF Apart, Base
    <2> QED BY <2>2, <2>3
  <1>10. Base(t)
    BY <1>5, <1>8, <1>9, <1>91 DEF Base
  <1> QED BY <1>2, <1>5, <1>6, <1>8, <1>10 DEF k

\* A flow put under a top that is no text in pages leaves the top as it is.
Under(s, t, f) ==
    /\ Inv(t) /\ t.count = s.count + 1 /\ Top(t) = Top(s) + 1 /\ t.mask = s.mask
    /\ TopFlow(t) = TopFlow(s) /\ TopSlot(t) = TopSlot(s) /\ ~Paged(t)
    /\ \A j \in SlotNumbers : j < Top(s) => t.stack[j] = s.stack[j] /\ t.flow[j] = s.flow[j]
    /\ \A j \in SlotNumbers : j > Top(t) => t.stack[j] = NoSlot /\ t.flow[j] = NoFlow
    /\ t.flow[Top(s)].steps = Lands[<<f, 0>>][1]
    /\ Step[t.stack[Top(s)].of].kind # "pages" => t.page = 0

\* ux_stack_insert and the first step of a dialog.
LEMMA BelowResult ==
    ASSUME NEW s, Inv(s), s.count < Slots, s.stack[Top(s)].button # "pages", NEW f \in Dialogs,
           NEW t, t = FlowInit(StackInsert(s, Top(s)), Top(s), f, 0)
    PROVE  Under(s, t, f)
  <1> DEFINE k == Top(s)
             v == StackInsert(s, k)
             u == FlowStart(v, k, f, 0)
  <1>1. /\ v \in States /\ v.count = s.count + 1 /\ Top(v) = k + 1 /\ Top(v) \in SlotNumbers
        /\ v.list = s.list /\ v.item = s.item /\ v.mask = s.mask /\ Base(v)
        /\ \A j \in SlotNumbers :
              /\ Good(v.stack[j], v.flow[j])
              /\ v.stack[j] = (IF j < k THEN s.stack[j] ELSE IF j = k THEN NoSlot ELSE s.stack[j - 1])
              /\ v.flow[j] = (IF j < k THEN s.flow[j] ELSE IF j = k THEN NoFlow ELSE s.flow[j - 1])
    BY InsertResult
  <1>2. s \in States /\ k \in SlotNumbers /\ k \in Nat /\ ~Paged(s) /\ k = s.count - 1 /\ s.count \in 1..Slots
        /\ \A j \in SlotNumbers : j >= s.count => s.stack[j] = NoSlot /\ s.flow[j] = NoFlow
    BY InvFacts, StateFields, TopButton DEF Base, Top
  <1>3. t = FlowInit(v, k, f, 0)
    OBVIOUS
  <1>4. TopFlow(s) = s.flow[k] /\ TopSlot(s) = s.stack[k]
    BY DEF TopFlow, TopSlot
  <1> HIDE DEF v, k
  <1>5. f \in DOMAIN Flows /\ f # Menu /\ <<f, 0>> \in Stops
    BY FlowsAssumption, ListsAssumption, FlowBegins
  <1>6. /\ Framed(v, u, k) /\ Placed(u, k) /\ u.stack = v.stack /\ u.page = 0 /\ u.pages = 0
        /\ u.flow[k].steps = Lands[<<f, 0>>][1] /\ u.flow[k].index = Lands[<<f, 0>>][2]
        /\ u.flow[k].prev = (IF u.flow[k].index = 0 THEN 0 ELSE u.flow[k].index - 1)
        /\ u.flow[k].steps # Menu
    BY <1>1, <1>2, <1>5, FlowStartResult
  <1>7. t = ShowStep(u, k, "START")
    BY <1>1, <1>2, <1>3, <1>5, FlowInitShows
  <1> HIDE DEF u
  <1>8. Shown(u, t, k, "START")
    BY <1>2, <1>6, <1>7, ShowStepResult DEF Ways
  <1>9. u \in States /\ u.flow[k].index \in Nat
    BY <1>2, <1>6, SlotFields DEF Framed
  <1>10. Reached(u, k, "START")
    BY <1>6, <1>9 DEF Reached
  <1>11. Occupied(t.stack[k], t.flow[k]) /\ t.flow[k].length # 0
    BY <1>2, <1>6, <1>8, <1>10, ShownOccupied
  <1>12. Framed(v, t, k)
    BY <1>6, <1>8, FramedTwice DEF Shown
  <1>13. /\ t \in States /\ t.count = v.count /\ Top(t) = k + 1
         /\ t.list = s.list /\ t.item = s.item /\ t.mask = s.mask
         /\ \A j \in SlotNumbers \ {k} : t.stack[j] = v.stack[j] /\ t.flow[j] = v.flow[j]
    BY <1>1, <1>12 DEF Framed, Top
  <1>14. \A j \in SlotNumbers : Good(t.stack[j], t.flow[j])
    BY <1>1, <1>11, <1>13 DEF Good
  <1>15. /\ v.stack[k + 1] = s.stack[k] /\ v.flow[k + 1] = s.flow[k] /\ k + 1 # k
    <2>1. ~(k + 1 < k) /\ k + 1 # k /\ (k + 1) - 1 = k
      BY <1>2
    <2> QED BY <1>1, <2>1
  <1>16. TopFlow(t) = TopFlow(s) /\ TopSlot(t) = TopSlot(s)
    BY <1>1, <1>4, <1>13, <1>15 DEF TopFlow, TopSlot
  <1>17. ~Paged(t) /\ TopStep(t) = TopStep(s)
    BY <1>2, <1>16 DEF Paged, TopStep
  <1>18. t.flow[k].steps = u.flow[k].steps /\ t.stack[k].of = Current(u, k)
         /\ (Step[Current(u, k)].kind # "pages" => t.page = 0 /\ t.pages = 0)
         /\ (Step[Current(u, k)].kind = "pages" =>
                 t.pages = Pages(u, k) /\ t.page = Smaller(Asked(u, Pages(u, k)), Pages(u, k) - 1))
    BY <1>6, <1>8 DEF Shown
  <1>19. PageFits(t)
    <2>1. Pages(u, k) \in Nat /\ (Step[Current(u, k)].kind = "pages" => Pages(u, k) > 0)
      BY <1>2, <1>6, PlacedStep DEF Pages
    <2>2. Asked(u, Pages(u, k)) \in Nat
      <3>1. Direction(u) \in Ways
        BY DEF Direction, Ways
      <3> QED BY <1>6, <2>1, <3>1 DEF Asked, Ways
    <2>3. t.page <= t.pages
      BY <1>18, <2>1, <2>2 DEF Smaller
    <2> QED BY <1>17, <2>3 DEF PageFits
  <1>20. Listed(t)
    <2>1. \A j \in SlotNumbers : v.flow[j].steps = Menu => v.list \in DOMAIN Lists
      BY <1>1 DEF Base, Listed
    <2>2. \A j \in SlotNumbers : t.flow[j].steps = Menu => t.list \in DOMAIN Lists
      BY <1>1, <1>6, <1>13, <1>18, <2>1
    <2> QED BY <1>1, <1>13, <2>2 DEF Base, Listed
  <1>21. Base(t)
    <2>1. \A j \in SlotNumbers : j >= v.count => j # k
      BY <1>1, <1>2 DEF SlotNumbers
    <2>2. Apart(t)
      <3>1. 0 \in SlotNumbers
        BY SlotsAssumption DEF SlotNumbers
      <3>2. CASE k # 0
        <4>1. t.stack[0] = v.stack[0]
          BY <1>13, <3>1, <3>2
        <4> QED BY <1>1, <1>13, <4>1 DEF Base, Apart
      <3>3. CASE k = 0
        <4>1. Current(u, k) = Item(Lands[<<f, 0>>][1], Lands[<<f, 0>>][2])
          BY <1>2, <1>6, PlacedStep
        <4>2. Step[Current(u, k)].kind = "text"
          BY <4>1, DialogsAssumption
        <4>3. t.stack[k].button = "flow"
          BY <1>8, <4>2 DEF Shown, ButtonFor
        <4> QED BY <3>3, <4>3 DEF Apart
      <3> QED BY <3>2, <3>3
    <2> QED BY <1>1, <1>13, <1>20, <2>1, <2>2 DEF Base
  <1>22. Painted(t)
    <2>1. ASSUME TopFlow(s).length # 0 PROVE Hides(t, TopStep(s).kind) = Hides(s, TopStep(s).kind)
      <3>1. t.count \in 1..Slots /\ s.count \in 1..Slots
        BY <1>2, <1>13, StateFields
      <3>2. TopStep(s).kind # "pages"
        BY <1>2, <2>1 DEF Paged
      <3> QED BY <1>13, <1>16, <3>1, <3>2, HidesTop
    <2> QED BY <1>16, <1>17, <2>1 DEF Inv, Painted
  <1>23. \A j \in SlotNumbers : j < k => t.stack[j] = s.stack[j] /\ t.flow[j] = s.flow[j]
    <2>1. \A j \in SlotNumbers : j < k => j # k
      BY <1>2
    <2> QED BY <1>1, <1>13, <2>1
  <1>24. \A j \in SlotNumbers : j > Top(t) => t.stack[j] = NoSlot /\ t.flow[j] = NoFlow
    <2>1. \A j \in SlotNumbers : j > Top(t) => j >= t.count
      BY <1>1, <1>2, <1>13 DEF SlotNumbers
    <2> QED BY <1>21, <2>1 DEF Base
  <1> QED BY <1>1, <1>6, <1>13, <1>14, <1>16, <1>17, <1>18, <1>19, <1>21, <1>22, <1>23, <1>24 DEF Inv, Under, k

\* A stack whose top is gone, or the slot under the top: what there was is as it was.
Uncovered(s, t, k) ==
    /\ Ground(t, Top(t)) /\ \A j \in SlotNumbers : Good(t.stack[j], t.flow[j])
    /\ t.count = s.count - 1 /\ Top(t) = Top(s) - 1
    /\ t.page = s.page /\ t.pages = s.pages /\ t.mask = s.mask
    /\ \A j \in SlotNumbers : j < Top(t) => t.stack[j] = s.stack[j] /\ t.flow[j] = s.flow[j]
    /\ \A j \in SlotNumbers : j > Top(t) => t.stack[j] = NoSlot /\ t.flow[j] = NoFlow
    /\ t.stack[Top(t)].of = s.stack[k].of /\ t.flow[Top(t)] = s.flow[k]

\* ux_stack_pop.
LEMMA PopUncovers ==
    ASSUME NEW s, Inv(s), s.count > 1, NEW t, t = StackPop(s)
    PROVE  Uncovered(s, t, Top(s) - 1) /\ t.page <= t.pages
  <1>1. /\ s \in States /\ Base(s) /\ Listed(s) /\ \A j \in SlotNumbers : Good(s.stack[j], s.flow[j])
        /\ s.page <= s.pages /\ s.count \in Nat
        /\ \A j \in SlotNumbers : s.stack[j] \in SlotStates
        /\ \A j \in SlotNumbers : j >= s.count => s.stack[j] = NoSlot /\ s.flow[j] = NoFlow
    BY InvFacts, StateFields DEF Base
  <1>2. Ground(t, Top(t)) /\ \A j \in SlotNumbers : Good(t.stack[j], t.flow[j])
    BY <1>1, PoppedGround DEF Listed, Base, Apart
  <1> DEFINE n == s.count - 1
             m == s.count - 2
  <1>3. /\ t.count = n /\ Top(t) = m /\ m \in SlotNumbers
        /\ t.page = s.page /\ t.pages = s.pages /\ t.mask = s.mask
        /\ \A j \in SlotNumbers :
              /\ t.stack[j] = IF j = n THEN NoSlot
                              ELSE IF j = m THEN [s.stack[j] EXCEPT !.cursor = 0] ELSE s.stack[j]
              /\ t.flow[j] = IF j = n THEN NoFlow ELSE s.flow[j]
    BY <1>1, PopResult DEF Stacked
  <1>4. /\ m < n /\ m = Top(s) - 1 /\ m # n
        /\ \A j \in SlotNumbers : (j < m => j # n /\ j # m) /\ (j > m /\ j # n => j >= s.count /\ j # m)
    BY <1>1 DEF Top, SlotNumbers
  <1> HIDE DEF n, m
  <1>5. \A j \in SlotNumbers : j < m => t.stack[j] = s.stack[j] /\ t.flow[j] = s.flow[j]
    BY <1>3, <1>4
  <1>6. \A j \in SlotNumbers : j > m => t.stack[j] = NoSlot /\ t.flow[j] = NoFlow
    BY <1>1, <1>3, <1>4, ZenonT(60)
  <1>7. t.stack[m].of = s.stack[m].of /\ t.flow[m] = s.flow[m]
    <2>1. t.stack[m] = [s.stack[m] EXCEPT !.cursor = 0] /\ t.flow[m] = s.flow[m]
      BY <1>3, <1>4
    <2>2. s.stack[m] \in SlotStates /\ Good(s.stack[m], s.flow[m])
      BY <1>1, <1>3
    <2> QED BY <2>1, <2>2, GoodReset
  <1>8. t.page <= t.pages
    BY <1>1, <1>3
  <1> QED BY <1>2, <1>3, <1>4, <1>5, <1>6, <1>7, <1>8 DEF Uncovered, n

\* ux_stack_remove, of the slot under the top.
LEMMA RemoveUncovers ==
    ASSUME NEW s, Inv(s), s.count > 1, NEW t, t = StackRemove(s, Top(s) - 1)
    PROVE  Uncovered(s, t, Top(s)) /\ t.page <= t.pages
  <1> DEFINE k == Top(s) - 1
             stack == Above(s.stack, k, -1, NoSlot)
             flow == Above(s.flow, k, -1, NoFlow)
             u == [s EXCEPT !.stack = stack, !.flow = flow]
  <1>1. /\ s \in States /\ Base(s) /\ Listed(s) /\ \A j \in SlotNumbers : Good(s.stack[j], s.flow[j])
        /\ s.page <= s.pages /\ s.stack \in [SlotNumbers -> SlotStates] /\ s.flow \in [SlotNumbers -> FlowStates]
        /\ \A j \in SlotNumbers : j >= s.count => s.stack[j] = NoSlot /\ s.flow[j] = NoFlow
    BY InvFacts, StateFields DEF Base
  <1>2. s.count \in 1..Slots /\ s.count \in Nat /\ Slots \in Nat /\ k \in SlotNumbers /\ k \in Nat
        /\ k + 1 = Top(s) /\ k = s.count - 2 /\ Top(s) \in SlotNumbers /\ k # Slots - 1
    BY <1>1, StateFields, SlotsAssumption DEF SlotNumbers, Top
  <1>3. t = StackPop(u)
    BY <1>1 DEF StackRemove, States
  <1> HIDE DEF k
  <1>4. stack \in [SlotNumbers -> SlotStates] /\ Lowered(stack, s.stack, k)
        /\ flow \in [SlotNumbers -> FlowStates] /\ Lowered(flow, s.flow, k)
    <2>1. NoSlot \in SlotStates /\ NoFlow \in FlowStates
      BY EmptySlot
    <2>2. s.stack \in [SlotNumbers -> SlotStates] /\ k \in SlotNumbers
      BY <1>1, <1>2
    <2>3. s.flow \in [SlotNumbers -> FlowStates]
      BY <1>1
    <2>4. stack \in [SlotNumbers -> SlotStates] /\ Lowered(stack, s.stack, k)
      BY <2>1, <2>2, AboveDown
    <2>5. flow \in [SlotNumbers -> FlowStates] /\ Lowered(flow, s.flow, k)
      BY <2>1, <2>2, <2>3, AboveDown
    <2> QED BY <2>4, <2>5
  <1> HIDE DEF stack, flow
  <1>5. /\ u \in States /\ u.count = s.count /\ u.stack = stack /\ u.flow = flow
        /\ u.page = s.page /\ u.pages = s.pages /\ u.list = s.list /\ u.item = s.item /\ u.mask = s.mask
    BY <1>1, <1>4 DEF States
  <1> HIDE DEF u
  <1>6. \A j \in SlotNumbers : j < k => u.stack[j] = s.stack[j] /\ u.flow[j] = s.flow[j]
    BY <1>4, <1>5 DEF Lowered
  <1>7. u.stack[k] = s.stack[Top(s)] /\ u.flow[k] = s.flow[Top(s)]
    <2>1. ~(k < k \/ k = Slots - 1)
      BY <1>2
    <2>2. u.stack[k] = s.stack[k + 1] /\ u.flow[k] = s.flow[k + 1]
      BY <1>2, <1>4, <1>5, <2>1 DEF Lowered
    <2> QED BY <1>2, <2>2
  <1>8. ASSUME NEW j \in SlotNumbers, j >= s.count PROVE u.stack[j] = NoSlot /\ u.flow[j] = NoFlow
    <2>1. ~(j < k) /\ j \in Nat
      BY <1>2, <1>8 DEF SlotNumbers
    <2>2. CASE j = Slots - 1
      BY <1>1, <1>4, <1>5, <1>8, <2>2 DEF Lowered
    <2>3. CASE j # Slots - 1
      <3>1. j + 1 \in SlotNumbers /\ j + 1 >= s.count
        BY <1>2, <1>8, <2>1, <2>3 DEF SlotNumbers
      <3>2. u.stack[j] = s.stack[j + 1] /\ u.flow[j] = s.flow[j + 1]
        BY <1>4, <1>5, <2>1, <2>3 DEF Lowered
      <3> QED BY <1>1, <3>1, <3>2
    <2> QED BY <2>2, <2>3
  <1>9. ASSUME NEW j \in SlotNumbers, j < u.count - 1
        PROVE  Good(u.stack[j], u.flow[j]) /\ (u.flow[j].steps = Menu => u.list \in DOMAIN Lists)
    <2>1. j < k \/ j = k
      BY <1>2, <1>5, <1>9 DEF SlotNumbers
    <2>2. \A h \in SlotNumbers : Good(s.stack[h], s.flow[h]) /\ (s.flow[h].steps = Menu => s.list \in DOMAIN Lists)
      BY <1>1 DEF Listed
    <2>3. CASE j < k
      BY <1>5, <1>6, <2>2, <2>3
    <2>4. CASE j = k
      BY <1>2, <1>5, <1>7, <2>2, <2>4
    <2> QED BY <2>1, <2>3, <2>4
  <1>10. u.list # None => u.item \in 0..(Lists[u.list].items - 1)
    BY <1>1, <1>5 DEF Listed
  <1>11. \A j \in SlotNumbers : j >= u.count => u.stack[j] = NoSlot /\ u.flow[j] = NoFlow
    BY <1>5, <1>8
  <1>12. u.count > 1
    BY <1>5
  <1>13. Ground(t, Top(t)) /\ \A j \in SlotNumbers : Good(t.stack[j], t.flow[j])
    <2>1. ASSUME u.count > 2 PROVE u.stack[0].button \in {None, "flow"}
      <3>1. 0 < k /\ 0 \in SlotNumbers /\ s.count > 1
        BY <1>2, <1>5, <2>1 DEF SlotNumbers
      <3> QED BY <1>1, <1>6, <3>1 DEF Base, Apart
    <2> QED BY <1>3, <1>5, <1>9, <1>10, <1>11, <1>12, <2>1, PoppedGround
  <1> DEFINE n == u.count - 1
             m == u.count - 2
  <1>14. /\ t.count = n /\ Top(t) = m /\ m \in SlotNumbers
         /\ t.page = u.page /\ t.pages = u.pages /\ t.mask = u.mask
         /\ \A j \in SlotNumbers :
               /\ t.stack[j] = IF j = n THEN NoSlot
                               ELSE IF j = m THEN [u.stack[j] EXCEPT !.cursor = 0] ELSE u.stack[j]
               /\ t.flow[j] = IF j = n THEN NoFlow ELSE u.flow[j]
    BY <1>3, <1>5, <1>12, PopResult DEF Stacked
  <1>15. /\ m = k /\ m # n
         /\ \A j \in SlotNumbers : (j < m => j # n /\ j # m) /\ (j > m /\ j # n => j >= u.count /\ j # m)
    BY <1>2, <1>5 DEF SlotNumbers
  <1> HIDE DEF m
  <1>16. n = s.count - 1
    BY <1>5
  <1> HIDE DEF n
  <1>17. \A j \in SlotNumbers : j < m => t.stack[j] = s.stack[j] /\ t.flow[j] = s.flow[j]
    BY <1>6, <1>14, <1>15, ZenonT(60)
  <1>18. \A j \in SlotNumbers : j > m => t.stack[j] = NoSlot /\ t.flow[j] = NoFlow
    BY <1>11, <1>14, <1>15, ZenonT(60)
  <1>19. t.stack[m].of = s.stack[Top(s)].of /\ t.flow[m] = s.flow[Top(s)]
    <2>1. t.stack[m] = [u.stack[m] EXCEPT !.cursor = 0] /\ t.flow[m] = u.flow[m]
      BY <1>14, <1>15
    <2>2. s.stack[Top(s)] \in SlotStates /\ Good(s.stack[Top(s)], s.flow[Top(s)])
      BY <1>1, <1>2
    <2> QED BY <1>7, <1>15, <2>1, <2>2, GoodReset, ZenonT(60)
  <1>20. Top(t) = Top(s) - 1
    BY <1>14, <1>15 DEF k
  <1> QED BY <1>1, <1>5, <1>13, <1>14, <1>16, <1>17, <1>18, <1>19, <1>20 DEF Uncovered

\* What is shown once it is uncovered.
LEMMA UncoveredAgain ==
    ASSUME NEW s, NEW t, NEW k, Uncovered(s, t, k), t.page <= t.pages
    PROVE  Again(t, StackRedisplay(t))
  BY RedisplayAgain DEF Uncovered

\* A dialog over the top.
Over(s, t, f) ==
    /\ Inv(t) /\ t.count = s.count + 1 /\ Top(t) = s.count /\ t.mask = s.mask
    /\ \A j \in SlotNumbers \ {Top(t)} : t.stack[j] = s.stack[j] /\ t.flow[j] = s.flow[j]
    /\ TopFlow(t).length # 0 /\ TopFlow(t).steps = Lands[<<f, 0>>][1]
    /\ ~Paged(t) => t.page = 0

\* A dialog in the place of the top, when the stack is full.
Instead(s, t, f) ==
    /\ Inv(t) /\ Framed(s, t, Top(s)) /\ Top(t) = Top(s)
    /\ TopFlow(t).length # 0 /\ TopFlow(t).steps = Lands[<<f, 0>>][1]
    /\ ~Paged(t) => t.page = 0

\* ux_stack_push and the first step of a dialog.
LEMMA OpenResult ==
    ASSUME NEW s, Inv(s), s.count < Slots, s.stack[0].button \in {None, "flow"}, NEW f \in Dialogs,
           NEW t, t = FlowInit(StackPush(s), Top(StackPush(s)), f, 0)
    PROVE  Over(s, t, f)
  <1> DEFINE u == StackPush(s)
  <1>1. Stacked(s, u, s.stack, s.flow, s.count + 1) /\ Ground(u, s.count) /\ Top(u) = s.count
    BY PushResult
  <1>2. t = FlowInit(u, s.count, f, 0)
    BY <1>1
  <1> HIDE DEF u
  <1>3. f # Menu /\ <<f, 0>> \in Stops
    BY FlowsAssumption, ListsAssumption, FlowBegins
  <1>4. Relaid(u, t) /\ TopFlow(t).steps = Lands[<<f, 0>>][1] /\ (~Paged(t) => t.page = 0)
    BY <1>1, <1>2, <1>3, FlowInitRelaid
  <1> QED BY <1>1, <1>4 DEF Relaid, Framed, Stacked, Over

\* ux_stack_push and ux_stack_insert do nothing when the stack is full.
LEMMA FullResult ==
    ASSUME NEW s, Inv(s), ~(s.count < Slots), NEW f \in Dialogs, NEW t,
           \/ t = FlowInit(StackPush(s), Top(StackPush(s)), f, 0)
           \/ t = FlowInit(StackInsert(s, Top(s)), Top(s), f, 0)
    PROVE  Instead(s, t, f)
  <1>1. t = FlowInit(s, Top(s), f, 0)
    BY DEF StackPush, StackInsert
  <1>2. f # Menu /\ <<f, 0>> \in Stops /\ Ground(s, Top(s))
    BY FlowsAssumption, ListsAssumption, FlowBegins, InvFacts
  <1>3. Relaid(s, t) /\ TopFlow(t).steps = Lands[<<f, 0>>][1] /\ (~Paged(t) => t.page = 0)
    BY <1>1, <1>2, FlowInitRelaid
  <1> QED BY <1>3 DEF Relaid, Instead

-----------------------------------------------------------------------------
(* Every step of the application. *)

\* The kinds of steps: the top is redrawn, laid out or turned; an application starts
\* something on an empty stack; a flow is put over the top, under it or in its place; a
\* slot goes away.
Turns(s, t) == \E u, v : Inv(u) /\ Calm(s, u) /\ Changes(u, v) /\ Inv(v) /\ Calm(v, t)
Covers(s, t) == \E f \in Dialogs : Over(s, t, f) \/ Under(s, t, f) \/ Instead(s, t, f)
Uncovers(s, t, k) ==
    \E u : s.count > 1 /\ Uncovered(s, u, k) /\ u.page <= u.pages /\ Again(u, t)
Kinds(s, t) ==
    Turns(s, t) \/ Starts(s, t) \/ Covers(s, t) \/ Uncovers(s, t, Top(s) - 1) \/ Uncovers(s, t, Top(s))

\* Drawing and nothing else is one of these.
LEMMA CalmTurns ==
    ASSUME NEW s, Inv(s), NEW t, Calm(s, t)
    PROVE  Turns(s, t)
  <1>1. Changes(s, s) /\ Calm(s, s)
    BY DEF Changes, Calm
  <1> QED BY <1>1 DEF Turns

\* Pressing a button.
LEMMA ButtonTurns ==
    ASSUME NEW s, Inv(s), NEW new \in SUBSET Keys
    PROVE  /\ Inv(DisplayNext(Pressed(s, new))) /\ Turns(s, DisplayNext(Pressed(s, new)))
           /\ new # {} /\ s.mask # {} => DisplayNext(Pressed(s, new)).mask # {}
  <1> DEFINE t == DisplayNext(Pressed(s, new))
             u == Pushed(s, new)
             v == React(u, Reaction(s, new))
  <1>1. \/ s.stack[0].button = None /\ Inv(t) /\ Calm(s, t) /\ t.mask = s.mask
        \/ Inv(u) /\ Calm(s, u) /\ Changes(u, v) /\ Inv(v) /\ Calm(v, t) /\ Inv(t) /\ t.mask = u.mask
    BY ButtonResult
  <1>2. new # {} /\ s.mask # {} => u.mask # {}
    BY PushedInv
  <1> HIDE DEF t, u, v
  <1>3. Turns(s, t)
    BY <1>1, CalmTurns DEF Turns
  <1> QED BY <1>1, <1>2, <1>3 DEF t

\* A tick.
LEMMA TickTurns ==
    ASSUME NEW s, Inv(s), NEW busy, NEW t, t = IF busy THEN Ticked(s) ELSE DisplayNext(Ticked(s))
    PROVE  Inv(t) /\ Turns(s, t) /\ t.mask = s.mask
  <1> DEFINE v == Ticked(s)
  <1>1. PICK u : Inv(u) /\ Calm(s, u) /\ u.mask = s.mask /\ Inv(v) /\ Changes(u, v)
    BY TickedResult
  <1>2. t = IF busy THEN v ELSE DisplayNext(v)
    OBVIOUS
  <1> HIDE DEF v
  <1>3. Inv(DisplayNext(v)) /\ Calm(v, DisplayNext(v)) /\ DisplayNext(v).mask = v.mask
    BY <1>1, DisplayNextInv
  <1>4. Inv(t) /\ Calm(v, t) /\ t.mask = v.mask
    <2>1. Calm(v, v)
      BY DEF Calm
    <2> QED BY <1>1, <1>2, <1>3, <2>1
  <1>5. v.mask = u.mask
    BY <1>1 DEF Changes
  <1> QED BY <1>1, <1>4, <1>5 DEF Turns

\* A slot goes away.
LEMMA GoneResult ==
    ASSUME NEW s, Inv(s), s.count > 1
    PROVE  /\ LET t == StackRedisplay(StackPop(s))
              IN Inv(t) /\ Uncovers(s, t, Top(s) - 1) /\ t.mask = s.mask
           /\ LET t == StackRedisplay(StackRemove(s, Top(s) - 1))
              IN Inv(t) /\ Uncovers(s, t, Top(s)) /\ t.mask = s.mask
  <1> DEFINE u == StackPop(s)
             v == StackRemove(s, Top(s) - 1)
  <1>1. Uncovered(s, u, Top(s) - 1) /\ u.page <= u.pages
    BY PopUncovers
  <1>2. Uncovered(s, v, Top(s)) /\ v.page <= v.pages
    BY RemoveUncovers
  <1> HIDE DEF u, v
  <1>3. Again(u, StackRedisplay(u)) /\ Again(v, StackRedisplay(v))
    BY <1>1, <1>2, UncoveredAgain
  <1>4. \A t, r : Again(t, r) => Inv(r) /\ r.mask = t.mask
    BY DEF Again, Framed
  <1>5. u.mask = s.mask /\ v.mask = s.mask
    BY <1>1, <1>2 DEF Uncovered
  <1>6. Uncovers(s, StackRedisplay(u), Top(s) - 1) /\ Uncovers(s, StackRedisplay(v), Top(s))
    BY <1>1, <1>2, <1>3 DEF Uncovers
  <1> QED BY <1>3, <1>4, <1>5, <1>6 DEF u, v

\* The invariant holds at first, with an empty stack.
LEMMA InitInv == Init => Inv(g) /\ locked \in BOOLEAN
  <1> SUFFICES ASSUME Init PROVE Inv(g) /\ locked \in BOOLEAN
    OBVIOUS
  <1>1. g = [count |-> 1, stack |-> [k \in SlotNumbers |-> NoSlot],
            flow |-> [k \in SlotNumbers |-> NoFlow], page |-> 0, pages |-> 0,
            list |-> None, item |-> 0, mask |-> {}, same |-> 0] /\ locked = FALSE
    BY DEF Init, SlotNumbers
  <1>2. /\ 1 \in 1..Slots /\ 0 \in 0..Fast /\ NoSlot \in SlotStates /\ NoFlow \in FlowStates /\ 0 \in SlotNumbers
    BY SlotsAssumption, EmptySlot DEF SlotNumbers
  <1>3. /\ g.count = 1 /\ g.page = 0 /\ g.pages = 0 /\ g.list = None
        /\ \A k \in SlotNumbers : g.stack[k] = NoSlot /\ g.flow[k] = NoFlow
    BY <1>1
  <1>4. g \in States
    BY <1>1, <1>2 DEF States
  <1>5. Listed(g)
    BY <1>3, EmptySlot DEF Listed
  <1>6. Base(g)
    BY <1>3, <1>4, <1>5 DEF Base, Apart
  <1>7. \A k \in SlotNumbers : Good(g.stack[k], g.flow[k])
    BY <1>3, EmptySlot
  <1>8. TopFlow(g).length = 0
    BY <1>2, <1>3, EmptySlot DEF TopFlow, Top
  <1>9. PageFits(g) /\ Painted(g)
    BY <1>3, <1>8 DEF PageFits, Paged, Painted
  <1> QED BY <1>1, <1>6, <1>7, <1>9 DEF Inv

\* And every step keeps it; but for the events that take the fingers off, none does.
LEMMA NextInv ==
    ASSUME Inv(g), locked \in BOOLEAN, Next
    PROVE  /\ Inv(g') /\ locked' \in BOOLEAN /\ Kinds(g, g')
           /\ Button({}) \/ Redisplay \/ (g.mask # {} => g'.mask # {})
  <1>1. ASSUME NEW new \in SUBSET Keys, Button(new)
        PROVE  Inv(g') /\ Turns(g, g') /\ (new # {} /\ g.mask # {} => g'.mask # {}) /\ locked' \in BOOLEAN
    BY <1>1, ButtonTurns DEF Button
  <1>2. ASSUME NEW busy \in BOOLEAN, Tick(busy)
        PROVE  Inv(g') /\ Turns(g, g') /\ g'.mask = g.mask /\ locked' \in BOOLEAN
    <2>1. g' = (IF busy THEN Ticked(g) ELSE DisplayNext(Ticked(g))) /\ locked' \in BOOLEAN
      BY <1>2 DEF Tick
    <2> QED BY <2>1, TickTurns
  <1>3. ASSUME Redisplay PROVE Inv(g') /\ Turns(g, g') /\ locked' \in BOOLEAN
    <2>1. Inv(g') /\ Calm(g, g') /\ locked' \in BOOLEAN
      BY <1>3, RedisplayResult DEF Redisplay
    <2> QED BY <2>1, CalmTurns
  <1>4. ASSUME Lock PROVE Inv(g') /\ Turns(g, g') /\ g'.mask = g.mask /\ locked' \in BOOLEAN
    <2>1. g' = g /\ locked' \in BOOLEAN /\ Calm(g, g)
      BY <1>4 DEF Lock, Calm
    <2> QED BY <2>1, CalmTurns
  <1>5. ASSUME NEW f \in AppFlows, StartFlow(f)
        PROVE  Inv(g') /\ Starts(g, g') /\ g'.mask = g.mask /\ locked' \in BOOLEAN
    <2>1. g.count = 1 /\ g' = FlowInit(g, 0, f, 0) /\ locked' = locked
      BY <1>5 DEF StartFlow, Does
    <2>2. Inv(g') /\ Starts(g, g')
      BY <2>1, StartFlowResult
    <2> QED BY <2>1, <2>2 DEF Starts
  <1>6. ASSUME NEW list \in DOMAIN Lists, NEW item \in 0..(Lists[list].items - 1), StartList(list, item)
        PROVE  Inv(g') /\ Starts(g, g') /\ g'.mask = g.mask /\ locked' \in BOOLEAN
    <2>1. g.count = 1 /\ g' = MenuInit(g, 0, list, item) /\ locked' = locked
      BY <1>6 DEF StartList, Does
    <2>2. Inv(g') /\ Starts(g, g')
      BY <2>1, StartListResult
    <2> QED BY <2>1, <2>2 DEF Starts
  <1>7. ASSUME Error PROVE Inv(g') /\ Turns(g, g') /\ g'.mask = g.mask /\ locked' \in BOOLEAN
    <2>1. g' = FlowError(g) /\ locked' = locked
      BY <1>7 DEF Error, Does
    <2>2. Inv(g') /\ Changes(g, g')
      BY <2>1, MovesChange
    <2>3. Calm(g, g) /\ Calm(g', g')
      BY DEF Calm
    <2> QED BY <2>1, <2>2, <2>3 DEF Turns, Changes
  <1>8. ASSUME NEW f \in Dialogs, OpenModal(f)
        PROVE  Inv(g') /\ Covers(g, g') /\ g'.mask = g.mask /\ locked' \in BOOLEAN
    <2>1. /\ g' = FlowInit(StackPush(g), Top(StackPush(g)), f, 0) /\ locked' = locked
          /\ g.stack[0].button \in {None, "flow"}
      BY <1>8 DEF OpenModal, Does
    <2>2. CASE g.count < Slots
      <3>1. Over(g, g', f)
        BY <2>1, <2>2, OpenResult
      <3> QED BY <2>1, <3>1 DEF Covers, Over
    <2>3. CASE ~(g.count < Slots)
      <3>1. Instead(g, g', f)
        BY <2>1, <2>3, FullResult
      <3> QED BY <2>1, <3>1 DEF Covers, Instead, Framed
    <2> QED BY <2>2, <2>3
  <1>9. ASSUME NEW f \in Dialogs, InsertBelow(f)
        PROVE  Inv(g') /\ Covers(g, g') /\ g'.mask = g.mask /\ locked' \in BOOLEAN
    <2>1. g.stack[Top(g)].button # "pages"
          /\ g' = FlowInit(StackInsert(g, Top(g)), Top(g), f, 0) /\ locked' = locked
      BY <1>9 DEF InsertBelow, Does
    <2>2. CASE g.count < Slots
      <3>1. Under(g, g', f)
        BY <2>1, <2>2, BelowResult
      <3> QED BY <2>1, <3>1 DEF Covers, Under
    <2>3. CASE ~(g.count < Slots)
      <3>1. Instead(g, g', f)
        BY <2>1, <2>3, FullResult
      <3> QED BY <2>1, <3>1 DEF Covers, Instead, Framed
    <2> QED BY <2>2, <2>3
  <1>10. ASSUME CloseModal PROVE Inv(g') /\ Uncovers(g, g', Top(g) - 1) /\ g'.mask = g.mask /\ locked' \in BOOLEAN
    <2>1. g.count > 1 /\ g' = StackRedisplay(StackPop(g)) /\ locked' = locked
      BY <1>10 DEF CloseModal, Does
    <2> QED BY <2>1, GoneResult
  <1>11. ASSUME RemoveBelow PROVE Inv(g') /\ Uncovers(g, g', Top(g)) /\ g'.mask = g.mask /\ locked' \in BOOLEAN
    <2>1. g.count > 1 /\ g' = StackRedisplay(StackRemove(g, Top(g) - 1)) /\ locked' = locked
      BY <1>11 DEF RemoveBelow, Does
    <2> QED BY <2>1, GoneResult
  <1>12. CASE \E new \in SUBSET Keys : Button(new)
    <2>1. PICK new \in SUBSET Keys : Button(new)
      BY <1>12
    <2> QED BY <1>1, <2>1 DEF Kinds
  <1>13. CASE Redisplay
    BY <1>3, <1>13 DEF Kinds
  <1>14. CASE (\E busy \in BOOLEAN : Tick(busy)) \/ Lock \/ Error
    BY <1>2, <1>4, <1>7, <1>14 DEF Kinds
  <1>15. CASE (\E f \in AppFlows : StartFlow(f)) \/ \E f \in Dialogs : OpenModal(f) \/ InsertBelow(f)
    BY <1>5, <1>8, <1>9, <1>15 DEF Kinds
  <1>16. CASE \E list \in DOMAIN Lists : \E item \in 0..(Lists[list].items - 1) : StartList(list, item)
    BY <1>6, <1>16 DEF Kinds
  <1>17. CASE CloseModal \/ RemoveBelow
    BY <1>10, <1>11, <1>17 DEF Kinds
  <1> QED BY <1>12, <1>13, <1>14, <1>15, <1>16, <1>17 DEF Next

\* The invariant of every behaviour.
Safe == Inv(g) /\ locked \in BOOLEAN

\* It is inductive.
LEMMA SafeStep == Safe /\ [Next]_vars => Safe'
  <1> SUFFICES ASSUME Safe, [Next]_vars PROVE Safe'
    OBVIOUS
  <1>1. CASE Next
    <2>1. Inv(g') /\ locked' \in BOOLEAN
      BY <1>1, NextInv DEF Safe
    <2> QED BY <2>1 DEF Safe
  <1>2. CASE UNCHANGED vars
    BY <1>2 DEF Safe, vars
  <1> QED BY <1>1, <1>2

\* Every reachable state satisfies it, whatever the flows are: a slot with a flow shows the
\* screen of its step with that step's buttons, the page exists, the arrows are current.
THEOREM AlwaysSafe == Spec => []Safe
  <1>1. Init => Safe
    BY InitInv DEF Safe
  <1> QED BY <1>1, SafeStep, PTL DEF Spec

-----------------------------------------------------------------------------
(* The properties. *)

\* A timer that runs is the one the step of its slot arms.
LEMMA TimersBelong ==
    ASSUME ~KeepTicker, Safe
    PROVE  NoStrayTimeout
  <1>1. g \in States /\ g.count \in 1..Slots /\ Slots \in Nat /\ Inv(g)
    BY InvFacts, SlotsAssumption DEF Safe
  <1>2. SUFFICES ASSUME NEW k \in 0..(g.count - 1), g.stack[k].timer # 0
                 PROVE  /\ g.flow[k].length # 0 /\ g.stack[k].timer <= g.stack[k].interval
                        /\ g.stack[k].interval = Step[Current(g, k)].timeout
    BY DEF NoStrayTimeout
  <1>3. k \in SlotNumbers
    BY <1>1 DEF SlotNumbers
  <1>4. CASE g.flow[k].length = 0
    <2>1. g.stack[k] = NoSlot
      BY <1>1, <1>3, <1>4, InvFacts
    <2> QED BY <1>2, <2>1 DEF NoSlot
  <1>5. CASE g.flow[k].length # 0
    <2>1. Occupied(g.stack[k], g.flow[k]) /\ Placed(g, k)
      BY <1>1, <1>3, <1>5, InvFacts
    <2>2. g.stack[k].of = Current(g, k)
      BY <1>3, <2>1, PlacedStep DEF Occupied
    <2>3. Timed(g.stack[k])
      BY <2>1 DEF Occupied
    <2> QED BY <1>2, <1>5, <2>2, <2>3 DEF Timed
  <1> QED BY <1>4, <1>5

\* NoStrayTimeout, for any flows and timeouts, where a screen is laid out with no timer: a
\* step that was left does not validate the next one on behalf of the user.
THEOREM NoStrayTimeoutAlways ==
    ASSUME ~KeepTicker
    PROVE  Spec => []NoStrayTimeout
  <1>1. Safe => NoStrayTimeout
    BY TimersBelong
  <1> QED BY <1>1, AlwaysSafe, PTL

\* What is under the top stays at its step.
LEMMA PlacesBelow ==
    ASSUME NEW s, Inv(s), NEW t, Kinds(s, t), NEW k \in SlotNumbers, k < Top(s), k < Top(t)
    PROVE  Place(t, k) = Place(s, k)
  <1>1. s.count \in 1..Slots /\ Top(s) \in SlotNumbers /\ k \in Nat /\ s.count \in Nat /\ k # Top(s)
    BY InvFacts DEF SlotNumbers
  <1>2. \A u, v : Calm(u, v) => Place(v, k) = Place(u, k) /\ Top(v) = Top(u)
    BY DEF Calm, Place, Top
  <1>3. \A u, v : k # Top(u) /\ Framed(u, v, Top(u)) => Place(v, k) = Place(u, k)
    BY DEF Framed, Place
  <1>4. CASE Turns(s, t)
    <2>1. PICK u, v : Inv(u) /\ Calm(s, u) /\ Changes(u, v) /\ Inv(v) /\ Calm(v, t)
      BY <1>4 DEF Turns
    <2>2. Calm(u, v) \/ Framed(u, v, Top(u))
      BY <2>1 DEF Changes, Relaid, Turned
    <2> QED BY <1>1, <1>2, <1>3, <2>1, <2>2
  <1>5. CASE Starts(s, t)
    BY <1>1, <1>5 DEF Starts, Top
  <1>6. CASE Covers(s, t)
    <2>1. PICK f \in Dialogs : Over(s, t, f) \/ Under(s, t, f) \/ Instead(s, t, f)
      BY <1>6 DEF Covers
    <2>2. CASE Over(s, t, f)
      <3>1. k # Top(t)
        BY <1>1
      <3> QED BY <2>2, <3>1 DEF Over, Place
    <2>3. CASE Under(s, t, f)
      BY <2>3 DEF Under, Place
    <2>4. CASE Instead(s, t, f)
      BY <1>1, <1>3, <2>4 DEF Instead
    <2> QED BY <2>1, <2>2, <2>3, <2>4
  <1>7. ASSUME NEW h, Uncovers(s, t, h) PROVE Place(t, k) = Place(s, k)
    <2>1. PICK u : Uncovered(s, u, h) /\ Again(u, t)
      BY <1>7 DEF Uncovers
    <2>2. Top(t) = Top(u) /\ Framed(u, t, Top(u))
      BY <2>1 DEF Again, Framed, Top
    <2>3. k < Top(u) /\ k # Top(u)
      BY <1>1, <2>2
    <2>4. Place(u, k) = Place(s, k)
      BY <2>1, <2>3 DEF Uncovered, Place
    <2> QED BY <1>3, <2>2, <2>3, <2>4
  <1> QED BY <1>4, <1>5, <1>6, <1>7 DEF Kinds

\* A dialog opened over the top leaves it at its step, when there is room for both.
LEMMA PlaceCovered ==
    ASSUME Safe, g.count < Slots, NEW f \in Dialogs, OpenModal(f)
    PROVE  Place(g', Top(g)) = Place(g, Top(g))
  <1>1. Inv(g) /\ Over(g, g', f)
    BY OpenResult DEF Safe, OpenModal, Does
  <1>2. Top(g) # Top(g') /\ Top(g) \in SlotNumbers
    <2>1. g.count \in Nat /\ Top(g) \in SlotNumbers
      BY <1>1, InvFacts, StateFields
    <2> QED BY <1>1, <2>1 DEF Over, Top
  <1> QED BY <1>1, <1>2 DEF Over, Place

\* What is taken from under the top leaves it at its step.
LEMMA PlaceLowered ==
    ASSUME Safe, RemoveBelow
    PROVE  Place(g', Top(g')) = Place(g, Top(g))
  <1>1. Inv(g) /\ g.count > 1 /\ g' = StackRedisplay(StackRemove(g, Top(g) - 1))
    BY DEF Safe, RemoveBelow, Does
  <1>2. Uncovers(g, g', Top(g))
    BY <1>1, GoneResult
  <1>3. PICK u : Uncovered(g, u, Top(g)) /\ Again(u, g')
    BY <1>2 DEF Uncovers
  <1>4. TopFlow(u) = TopFlow(g) /\ TopSlot(u).of = TopSlot(g).of
    BY <1>3 DEF Uncovered, TopFlow, TopSlot
  <1>5. TopFlow(g').steps = TopFlow(u).steps /\ TopFlow(g').index = TopFlow(u).index
        /\ TopSlot(g').of = TopSlot(u).of
    BY <1>3 DEF Again
  <1> QED BY <1>4, <1>5 DEF Place, TopFlow, TopSlot

\* What is put under the top leaves it at its step, when there is room.
LEMMA PlaceRaised ==
    ASSUME Safe, g.count < Slots, NEW f \in Dialogs, InsertBelow(f)
    PROVE  Place(g', Top(g')) = Place(g, Top(g))
  <1>1. Under(g, g', f)
    BY BelowResult DEF Safe, InsertBelow, Does
  <1>2. TopFlow(g') = TopFlow(g) /\ TopSlot(g') = TopSlot(g)
    BY <1>1 DEF Under
  <1> QED BY <1>2 DEF Place, TopFlow, TopSlot

\* PlacesKept, for any flows and any number of slots: a screen put over another, or under
\* it, or taken away, takes the step of none, but when the stack is full.
THEOREM PlacesKeptAlways == Spec => PlacesKept
  <1> DEFINE A == /\ \A k \in 0..(Slots - 1) : k < Top(g) /\ k < Top(g') => Place(g', k) = Place(g, k)
                  /\ g.count < Slots /\ (\E f \in Dialogs : OpenModal(f)) => Place(g', Top(g)) = Place(g, Top(g))
                  /\ RemoveBelow \/ (g.count < Slots /\ \E f \in Dialogs : InsertBelow(f))
                        => Place(g', Top(g')) = Place(g, Top(g))
  <1>1. ASSUME Safe, Next PROVE A
    <2>1. Inv(g) /\ Kinds(g, g')
      BY <1>1, NextInv DEF Safe
    <2>2. \A k \in 0..(Slots - 1) : k < Top(g) /\ k < Top(g') => Place(g', k) = Place(g, k)
      BY <2>1, PlacesBelow DEF SlotNumbers
    <2> QED BY <1>1, <2>2, PlaceCovered, PlaceLowered, PlaceRaised
  <1>2. Safe /\ [Next]_vars => [A]_vars
    BY <1>1
  <1> QED BY <1>2, AlwaysSafe, PTL DEF Spec, PlacesKept

\* Buttons are released by the event that says so, and by a redisplay.
LEMMA ReleasedBy ==
    ASSUME Safe, [Next]_vars, Released # "nothing"
    PROVE  /\ Button({}) \/ (Redisplay /\ Calm(g, g'))
           /\ Released = Reaction(g, {})
           /\ Released \in Reactions
  <1>1. g.mask # {} /\ g'.mask = {} /\ Released = Reaction(g, {})
    BY DEF Released
  <1>2. Inv(g) /\ g \in States
    BY InvFacts DEF Safe
  <1>3. Button({}) \/ Redisplay
    BY <1>1, NextInv DEF Safe, vars
  <1>4. Redisplay => Calm(g, g')
    BY <1>2, RedisplayResult DEF Redisplay
  <1>5. Released \in Reactions
    BY <1>1, <1>2, ReactionKinds
  <1> QED BY <1>1, <1>3, <1>4, <1>5

\* A flow that moves to another step of its own moves to the one before or after, or around.
Neighbour(f, h, released) ==
    \/ h.index = f.index + 1 /\ released = "next"
    \/ h.index = f.index - 1 /\ released = "previous"
    \/ f.length > 0 /\ Item(f.steps, f.length - 1) = "LOOP" /\ {f.index, h.index} = {0, f.length - 2}

\* A position of the same flow is where the move went.
LEMMA ArrivedSame ==
    ASSUME GotosLeave, NEW t, NEW f, NEW to, <<f, to>> \in Stops, Arrived(t, f, to), TopFlow(t).steps = f
    PROVE  TopFlow(t).index = to /\ <<f, to>> \in Screens
  <1> DEFINE step == Step[Item(f, to)]
  <1>1. ASSUME <<f, to>> \notin Screens PROVE FALSE
    <2>1. TopFlow(t).steps = Lands[<<step.to, step.at>>][1]
      BY <1>1 DEF Arrived
    <2>2. Lands[<<step.to, step.at>>][1] # f
      BY <1>1 DEF GotosLeave
    <2> QED BY <2>1, <2>2
  <1> QED BY <1>1 DEF Arrived

\* The left and the right buttons of a state move to a neighbour.
LEMMA ReactNeighbour ==
    ASSUME GotosLeave, NEW s, Inv(s), NEW reaction \in {"previous", "next"}, NEW t, t = React(s, reaction),
           NEW k \in SlotNumbers, t.flow[k].steps = s.flow[k].steps, t.flow[k].index # s.flow[k].index
    PROVE  Neighbour(s.flow[k], t.flow[k], reaction)
  <1> DEFINE button == s.stack[0].button
             f == TopFlow(s)
  <1>0. button \in {"pages", "list"} => button = s.stack[Top(s)].button
    BY ZeroButton
  <1>1. CASE button = "list"
    <2>1. t = ListButton(s, reaction)
      BY <1>1 DEF React
    <2>2. Calm(s, t)
      BY <1>0, <1>1, <2>1, ListButtonResult
    <2> QED BY <2>2 DEF Calm
  <1>2. CASE button = "pages" /\ KeepsButton(s, reaction)
    <2>1. t = PagesButton(s, reaction) /\ Paged(s)
      BY <1>0, <1>2, TopButton DEF React
    <2>2. PICK p : Turned(s, t, p)
      BY <1>2, <2>1, PagesButtonResult
    <2>3. t.flow[Top(s)].index = s.flow[Top(s)].index /\ \A j \in SlotNumbers \ {Top(s)} : t.flow[j] = s.flow[j]
      <3>1. Top(t) = Top(s)
        BY <2>2 DEF Turned, Framed, Top
      <3> QED BY <2>2, <3>1 DEF Turned, Framed, TopFlow
    <2> QED BY <2>3
  <1>3. CASE button # "list" /\ ~(button = "pages" /\ KeepsButton(s, reaction))
    <2>1. t = FlowButton(s, reaction)
      BY <1>3 DEF React
    <2>2. CASE reaction = "next"
      <3>1. t = FlowNext(s)
        BY <2>1, <2>2 DEF FlowButton
      <3>2. NextMoves(s)
        BY <3>1, FlowNextResult
      <3>3. Relaid(s, t) /\ <<f.steps, NextOf(s)>> \in Stops /\ Arrived(t, f.steps, NextOf(s))
            /\ (NextOf(s) = 0 => Loops(f) /\ f.index = f.length - 2)
        BY <3>1, <3>2, FlowNextResult
      <3>4. k = Top(s) /\ t.flow[k] = TopFlow(t) /\ s.flow[k] = f
        BY <3>3 DEF Relaid, Framed, TopFlow
      <3>5. TopFlow(t).index = NextOf(s)
        BY <3>3, <3>4, ArrivedSame
      <3>6. NextOf(s) \in {0, f.index + 1}
        BY DEF NextOf
      <3>7. CASE NextOf(s) = 0
        BY <3>3, <3>4, <3>5, <3>7 DEF Neighbour, Loops
      <3>8. CASE NextOf(s) = f.index + 1
        BY <2>2, <3>4, <3>5, <3>8 DEF Neighbour
      <3> QED BY <3>6, <3>7, <3>8
    <2>3. CASE reaction = "previous"
      <3>1. t = FlowPrev(s)
        BY <2>1, <2>3 DEF FlowButton
      <3>2. PrevMoves(s)
        BY <3>1, FlowPrevResult
      <3>3. Relaid(s, t) /\ <<f.steps, PrevOf(s)>> \in Stops /\ Arrived(t, f.steps, PrevOf(s))
            /\ (f.index = 0 => Loops(f))
        BY <3>1, <3>2, FlowPrevResult
      <3>4. k = Top(s) /\ t.flow[k] = TopFlow(t) /\ s.flow[k] = f
        BY <3>3 DEF Relaid, Framed, TopFlow
      <3>5. TopFlow(t).index = PrevOf(s)
        BY <3>3, <3>4, ArrivedSame
      <3>6. CASE f.index = 0
        BY <3>3, <3>4, <3>5, <3>6 DEF Neighbour, Loops, PrevOf
      <3>7. CASE f.index # 0
        BY <2>3, <3>4, <3>5, <3>7 DEF Neighbour, PrevOf
      <3> QED BY <3>6, <3>7
    <2> QED BY <2>2, <2>3
  <1> QED BY <1>1, <1>2, <1>3

\* BarrierHolds, for any flows whose steps go to other flows than their own: the left and
\* the right buttons never take a flow across a barrier.
THEOREM BarrierHoldsAlways ==
    ASSUME GotosLeave
    PROVE  Spec => BarrierHolds
  <1> DEFINE Kept(k) == LET f == g.flow[k]
                            h == g'.flow[k]
                            loop == f.length > 0 /\ Item(f.steps, f.length - 1) = "LOOP"
                        IN (Released \in {"previous", "next"} /\ h.steps = f.steps /\ h.index # f.index) =>
                              \/ h.index = f.index + 1 /\ Released = "next"
                              \/ h.index = f.index - 1 /\ Released = "previous"
                              \/ loop /\ {f.index, h.index} = {0, f.length - 2}
             A == \A k \in 0..(Slots - 1) : Kept(k)
  <1>1. ASSUME Safe, [Next]_vars PROVE A
    <2>1. SUFFICES ASSUME NEW k \in SlotNumbers, Released \in {"previous", "next"},
                          g'.flow[k].steps = g.flow[k].steps, g'.flow[k].index # g.flow[k].index
                   PROVE  Neighbour(g.flow[k], g'.flow[k], Released)
      BY DEF SlotNumbers, Neighbour
    <2>2. Button({}) /\ Released = Reaction(g, {})
      <3>1. ~Calm(g, g')
        BY <2>1 DEF Calm
      <3>2. Released = Reaction(g, {})
        BY <2>1 DEF Released
      <3> QED BY <1>1, <2>1, <3>1, <3>2, ReleasedBy
    <2> DEFINE u == Pushed(g, {})
               v == React(u, Reaction(g, {}))
    <2>3. g' = DisplayNext(Pressed(g, {})) /\ Inv(g)
      BY <1>1, <2>2 DEF Button, Safe
    <2>4. \/ Calm(g, g')
          \/ Inv(u) /\ Calm(g, u) /\ Calm(v, g')
      BY <2>3, ButtonResult
    <2> HIDE DEF u
    <2>5. Inv(u) /\ u.flow = g.flow /\ g'.flow = v.flow
      BY <2>1, <2>4 DEF Calm
    <2>6. v = React(u, Released)
      BY <2>2
    <2> HIDE DEF v
    <2>7. Neighbour(u.flow[k], v.flow[k], Released)
      BY <1>1, <2>1, <2>5, <2>6, ReactNeighbour
    <2> QED BY <2>5, <2>7
  <1>2. Safe /\ [Next]_vars => [A]_vars
    BY <1>1
  <1> QED BY <1>2, AlwaysSafe, PTL DEF Spec, BarrierHolds

\* Every state is well formed.
LEMMA SafeWellFormed ==
    ASSUME Safe
    PROVE  WellFormed
  <1>1. /\ Inv(g) /\ g \in States /\ Listed(g) /\ Base(g) /\ g.count \in 1..Slots
        /\ g.page <= g.pages /\ locked \in BOOLEAN
    BY InvFacts DEF Safe
  <1>2. g.page \in Nat /\ g.pages \in Nat /\ g.mask \in SUBSET Keys /\ g.same \in 0..Fast
    BY <1>1, StateFields
  <1>3. ASSUME NEW k \in SlotNumbers
        PROVE  /\ g.stack[k].cursor \in 0..5 /\ g.stack[k].drawn \subseteq {Elements[e] : e \in 1..4}
               /\ g.stack[k].button \in {None, "flow", "pages", "list"}
               /\ g.flow[k].length # 0 => Current(g, k) \in DOMAIN Step
               /\ k >= g.count => g.stack[k] = NoSlot /\ g.flow[k] = NoFlow
    <2>1. g.stack[k].cursor \in {0, 4, 5} /\ g.stack[k].drawn \subseteq All
          /\ g.stack[k].button \in {None, "flow", "pages", "list"}
      BY <1>1, <1>3, SlotFields
    <2>2. ASSUME g.flow[k].length # 0 PROVE Current(g, k) \in DOMAIN Step
      <3>1. Placed(g, k)
        BY <1>1, <1>3, <2>2, InvFacts
      <3> QED BY <1>3, <3>1, PlacedStep
    <2>3. k >= g.count => g.stack[k] = NoSlot /\ g.flow[k] = NoFlow
      BY <1>1, <1>3 DEF Base
    <2>4. g.stack[k].cursor \in 0..5
      BY <2>1
    <2>5. g.stack[k].drawn \subseteq {Elements[e] : e \in 1..4}
      BY <2>1, AllElements
    <2> QED BY <2>1, <2>2, <2>3, <2>4, <2>5
  <1>4. g.page \in 0..g.pages
    BY <1>1, <1>2
  <1>5. g.list # None => g.item \in 0..(Lists[g.list].items - 1)
    BY <1>1 DEF Listed
  <1> QED BY <1>1, <1>2, <1>3, <1>4, <1>5 DEF WellFormed, SlotNumbers

\* The marks of a flow tell where its buttons lead.
LEMMA MarksTrue ==
    ASSUME NEW s, Inv(s), TopFlow(s).length # 0
    PROVE  (IsFirst(s) <=> ~PrevMoves(s)) /\ (IsLast(s) <=> ~NextMoves(s))
  <1> DEFINE f == TopFlow(s)
             i == f.index
             n == f.length
  <1>1. /\ <<f.steps, i>> \in Stops /\ n = Len(Flows[f.steps]) /\ i \in Nat /\ n \in Nat /\ n > 0 /\ i < n
        /\ Valid(s)
    BY TopFacts
  <1>2. Item(f.steps, i + 1) = "BARRIER" => i + 1 < n - 1
    BY <1>1, Around
  <1>3. IsFirst(s) <=> ~PrevMoves(s)
    BY <1>1 DEF IsFirst, PrevMoves
  <1>4. IsLast(s) <=> ~NextMoves(s)
    BY <1>1, <1>2 DEF IsLast, NextMoves
  <1> QED BY <1>3, <1>4

\* And the buttons lead somewhere else.
LEMMA MovesDiffer ==
    ASSUME GotosLeave, LoopsOfTwo, NEW s, Inv(s), TopFlow(s).length # 0
    PROVE  (NextMoves(s) <=> FlowNext(s) # s) /\ (PrevMoves(s) <=> FlowPrev(s) # s)
  <1> DEFINE f == TopFlow(s)
             i == f.index
             n == f.length
  <1>1. /\ <<f.steps, i>> \in Stops /\ n = Len(Flows[f.steps]) /\ i \in Nat /\ n \in Nat /\ n > 0 /\ i < n
    BY TopFacts
  <1>2. Loops(f) => n # 2
    <2>1. ASSUME Loops(f), n = 2 PROVE FALSE
      <3>1. Item(f.steps, 1) = "LOOP"
        BY <2>1 DEF Loops
      <3>2. Flows[f.steps][2] = "LOOP" /\ Len(Flows[f.steps]) = 2
        BY <1>1, <2>1, <3>1 DEF Item
      <3>3. f.steps \in DOMAIN Flows
        BY <1>1, StopFacts
      <3> QED BY <3>2, <3>3 DEF LoopsOfTwo
    <2> QED BY <2>1
  <1>3. ASSUME NextMoves(s), FlowNext(s) = s PROVE FALSE
    <2>1. <<f.steps, NextOf(s)>> \in Stops /\ Arrived(s, f.steps, NextOf(s))
          /\ (NextOf(s) = 0 => Loops(f) /\ i = n - 2)
      BY <1>3, FlowNextResult
    <2>2. i = NextOf(s)
      BY <2>1, ArrivedSame
    <2>3. NextOf(s) = 0 \/ NextOf(s) = i + 1
      BY DEF NextOf
    <2>4. i \in Nat /\ n \in Nat
      BY <1>1
    <2> HIDE DEF i, n
    <2>5. CASE NextOf(s) = 0
      <3>1. i = 0 /\ i = n - 2 /\ n # 2
        BY <1>2, <2>1, <2>2, <2>5
      <3> QED BY <2>4, <3>1
    <2>6. CASE NextOf(s) = i + 1
      BY <2>2, <2>4, <2>6
    <2> QED BY <2>3, <2>5, <2>6
  <1>4. ASSUME PrevMoves(s), FlowPrev(s) = s PROVE FALSE
    <2>1. <<f.steps, PrevOf(s)>> \in Stops /\ Arrived(s, f.steps, PrevOf(s)) /\ (i = 0 => Loops(f))
      BY <1>4, FlowPrevResult
    <2>2. i = PrevOf(s)
      BY <2>1, ArrivedSame
    <2>3. (i = 0 => PrevOf(s) = n - 2) /\ (i # 0 => PrevOf(s) = i - 1)
      BY DEF PrevOf
    <2>4. i \in Nat /\ n \in Nat
      BY <1>1
    <2> HIDE DEF i, n
    <2>5. CASE i = 0
      <3>1. i = n - 2 /\ n # 2
        BY <1>2, <2>1, <2>2, <2>3, <2>5
      <3> QED BY <2>4, <2>5, <3>1
    <2>6. CASE i # 0
      BY <2>2, <2>3, <2>4, <2>6
    <2> QED BY <2>5, <2>6
  <1> QED BY <1>3, <1>4, FlowNextResult, FlowPrevResult

\* The arrow of a side is not hidden if and only if the button of that side leads somewhere.
LEMMA ArrowsLead ==
    ASSUME GotosLeave, LoopsOfTwo, NEW s, Inv(s), TopFlow(s).length # 0,
           s.stack[0].button = s.stack[Top(s)].button
    PROVE  /\ "left" \notin Hides(s, TopStep(s).kind) <=> React(s, "previous") # s
           /\ "right" \notin Hides(s, TopStep(s).kind) <=> React(s, "next") # s
  <1> DEFINE button == s.stack[Top(s)].button
             kind == TopStep(s).kind
             H == Hides(s, kind)
  <1>1. button = ButtonFor(kind) /\ kind \in {"text", "pages", "list"} /\ (Paged(s) <=> button = "pages")
    BY TopButton
  <1>2. FlowButton(s, "previous") = FlowPrev(s) /\ FlowButton(s, "next") = FlowNext(s)
    BY DEF FlowButton
  <1>3. /\ "left" \notin TextHides(s) <=> FlowPrev(s) # s
        /\ "right" \notin TextHides(s) <=> FlowNext(s) # s
    <2>1. "left" \in TextHides(s) <=> IsFirst(s)
      BY DEF TextHides
    <2>2. "right" \in TextHides(s) <=> IsLast(s)
      BY DEF TextHides
    <2> QED BY <2>1, <2>2, MarksTrue, MovesDiffer
  <1>4. CASE kind = "text"
    <2>1. button = "flow"
      BY <1>1, <1>4 DEF ButtonFor
    <2>2. React(s, "previous") = FlowPrev(s) /\ React(s, "next") = FlowNext(s)
      BY <1>2, <2>1 DEF React
    <2>3. H = TextHides(s) \cap {"left", "right"}
      BY <1>4 DEF Hides
    <2> QED BY <1>3, <2>2, <2>3
  <1>5. CASE kind = "pages"
    <2>1. button = "pages" /\ Paged(s)
      BY <1>1, <1>5 DEF ButtonFor
    <2>2. ("left" \in PagesHide(s) <=> s.page = 0) /\ ("right" \in PagesHide(s) <=> s.page = s.pages - 1)
      BY DEF PagesHide
    <2>3. H = TextHides(s) \cap PagesHide(s)
      BY <1>5 DEF Hides
    <2>4. (KeepsButton(s, "previous") <=> s.page # 0) /\ (KeepsButton(s, "next") <=> s.page # s.pages - 1)
      BY DEF KeepsButton
    <2>5. /\ React(s, "previous") = IF KeepsButton(s, "previous") THEN PagesButton(s, "previous") ELSE FlowPrev(s)
          /\ React(s, "next") = IF KeepsButton(s, "next") THEN PagesButton(s, "next") ELSE FlowNext(s)
      BY <1>2, <2>1 DEF React
    <2>6. s.page \in Nat
      BY InvFacts, StateFields
    <2>7. KeepsButton(s, "previous") => PagesButton(s, "previous") # s
      <3>1. KeepsButton(s, "previous") => PagesButton(s, "previous").page = s.page - 1
        BY <2>1, PagesButtonResult DEF Turned
      <3> QED BY <2>6, <3>1
    <2>8. KeepsButton(s, "next") => PagesButton(s, "next") # s
      <3>1. KeepsButton(s, "next") => PagesButton(s, "next").page = s.page + 1
        BY <2>1, PagesButtonResult DEF Turned
      <3> QED BY <2>6, <3>1
    <2> QED BY <1>3, <2>2, <2>3, <2>4, <2>5, <2>7, <2>8
  <1>6. CASE kind = "list"
    <2>1. button = "list"
      BY <1>1, <1>6 DEF ButtonFor
    <2>2. React(s, "previous") = ListButton(s, "previous") /\ React(s, "next") = ListButton(s, "next")
      BY <2>1 DEF React
    <2>3. H = ListHides(s)
      BY <1>6 DEF Hides
    <2>4. /\ "left" \in ListHides(s) <=> s.item - 1 \notin 0..(Lists[s.list].items - 1)
          /\ "right" \in ListHides(s) <=> s.item + 1 \notin 0..(Lists[s.list].items - 1)
      BY DEF ListHides
    <2>5. s.item \in Nat
      BY InvFacts, StateFields
    <2>6. IF s.item - 1 \in 0..(Lists[s.list].items - 1) THEN ListButton(s, "previous").item = s.item - 1
          ELSE ListButton(s, "previous") = s
      BY <2>1, ListButtonResult
    <2>7. IF s.item + 1 \in 0..(Lists[s.list].items - 1) THEN ListButton(s, "next").item = s.item + 1
          ELSE ListButton(s, "next") = s
      BY <2>1, ListButtonResult
    <2>8. s.item - 1 # s.item /\ s.item + 1 # s.item
      BY <2>5
    <2> QED BY <2>2, <2>3, <2>4, <2>6, <2>7, <2>8
  <1> QED BY <1>1, <1>4, <1>5, <1>6

\* ArrowsTrue, for any flows whose steps go to other flows than their own and whose loops
\* have two steps at least: the arrows of a drawn screen are those of the buttons that lead
\* to another page, step or item.
THEOREM ArrowsTrueAlways ==
    ASSUME GotosLeave, LoopsOfTwo
    PROVE  Spec => []ArrowsTrue
  <1>1. ASSUME Safe PROVE ArrowsTrue
    <2>1. Inv(g) /\ Painted(g)
      BY <1>1 DEF Safe, Inv
    <2>2. ASSUME g.stack[Top(g)].cursor >= 4, TopFlow(g).length # 0, Served
          PROVE  /\ "left" \in g.stack[Top(g)].drawn <=> React(g, "previous") # g
                 /\ "right" \in g.stack[Top(g)].drawn <=> React(g, "next") # g
      <3>1. g.stack[Top(g)].drawn = All \ Hides(g, TopStep(g).kind)
        BY <2>1, <2>2 DEF Painted, TopSlot
      <3>2. /\ "left" \notin Hides(g, TopStep(g).kind) <=> React(g, "previous") # g
            /\ "right" \notin Hides(g, TopStep(g).kind) <=> React(g, "next") # g
        BY <2>1, <2>2, ArrowsLead DEF Served
      <3>3. "left" \in All /\ "right" \in All
        BY DEF All
      <3> QED BY <3>1, <3>2, <3>3
    <2>3. WellFormed
      BY <1>1, SafeWellFormed
    <2> QED BY <2>2, <2>3 DEF ArrowsTrue
  <1>2. Safe => ArrowsTrue
    BY <1>1
  <1> QED BY <1>2, AlwaysSafe, PTL

-----------------------------------------------------------------------------
(* The pages read. *)

\* The parts of Reading.
OneOutside(D, s) == \A k \in SlotNumbers : \A j \in SlotNumbers : Outside(D, s, j) /\ Outside(D, s, k) => j = k
Wiped(D, s) == \A k \in SlotNumbers : Outside(D, s, k) /\ k # Top(s) => s.page = 0
Opened(s, k) ==
    s.flow[k].length # 0 /\ Step[s.stack[k].of].kind = "pages" =>
        s.flow[k].opened \subseteq 0..(Step[s.stack[k].of].pages - 1)
UpToPage(s) == Paged(s) /\ TopFlow(s).entered # "BACKWARD" => 0..s.page \subseteq TopFlow(s).opened

\* Reading is their conjunction.
LEMMA ReadingParts ==
    ASSUME NEW D, NEW s
    PROVE  Reading(D, s) <=> OneOutside(D, s) /\ Wiped(D, s) /\ (\A k \in SlotNumbers : Opened(s, k)) /\ UpToPage(s)
  BY DEF Reading, OneOutside, Wiped, Opened, UpToPage

\* A text in pages is outside the dialogs.
LEMMA PagesOutside ==
    ASSUME NEW D, Plain(D), NEW s, Inv(s), NEW k \in SlotNumbers, s.flow[k].length # 0,
           Step[s.stack[k].of].kind = "pages"
    PROVE  Outside(D, s, k)
  <1>1. Occupied(s.stack[k], s.flow[k])
    BY InvFacts
  <1>2. <<s.flow[k].steps, s.flow[k].index>> \in Stops
        /\ s.stack[k].of = Item(s.flow[k].steps, s.flow[k].index)
    BY <1>1 DEF Occupied, Screens
  <1>3. ASSUME s.flow[k].steps \in D PROVE FALSE
    BY <1>2, <1>3 DEF Plain
  <1> QED BY <1>3 DEF Outside

\* Drawing changes nothing of it.
LEMMA ReadingCalm ==
    ASSUME NEW D, NEW s, Inv(s), Reading(D, s), NEW t, Calm(s, t)
    PROVE  Reading(D, t)
  <1>1. Top(t) = Top(s) /\ TopFlow(t) = TopFlow(s) /\ Top(s) \in SlotNumbers
    BY InvFacts DEF Calm, Top, TopFlow
  <1>2. TopStep(t) = TopStep(s)
    BY <1>1 DEF Calm, TopStep, TopSlot
  <1>3. \A k \in SlotNumbers : Outside(D, t, k) <=> Outside(D, s, k)
    BY DEF Calm, Outside
  <1>4. OneOutside(D, t)
    BY <1>3, ReadingParts DEF OneOutside
  <1>5. Wiped(D, t)
    BY <1>1, <1>3, ReadingParts DEF Wiped, Calm
  <1>6. \A k \in SlotNumbers : Opened(t, k)
    <2>1. \A k \in SlotNumbers : Opened(s, k)
      BY ReadingParts
    <2> QED BY <2>1 DEF Opened, Calm
  <1>7. UpToPage(t)
    <2>1. UpToPage(s)
      BY ReadingParts
    <2> QED BY <1>1, <1>2, <2>1 DEF UpToPage, Paged, Calm
  <1> QED BY <1>4, <1>5, <1>6, <1>7, ReadingParts

\* The slots under a top that stays outside, or stays where it was.
LEMMA ReadingTop ==
    ASSUME NEW D, NEW s, Inv(s), Reading(D, s), NEW t, Framed(s, t, Top(s)),
           Outside(D, t, Top(s)) => Outside(D, s, Top(s))
    PROVE  /\ OneOutside(D, t) /\ Top(t) = Top(s)
           /\ \A k \in SlotNumbers : Outside(D, t, k) => Outside(D, s, k)
           /\ \A k \in SlotNumbers \ {Top(s)} : Opened(t, k)
  <1>1. \A k \in SlotNumbers : Outside(D, t, k) => Outside(D, s, k)
    BY DEF Framed, Outside
  <1>2. OneOutside(D, t)
    BY <1>1, ReadingParts DEF OneOutside
  <1>3. \A k \in SlotNumbers : Opened(s, k)
    BY ReadingParts
  <1>4. \A k \in SlotNumbers \ {Top(s)} : Opened(t, k)
    BY <1>3 DEF Opened, Framed
  <1>5. Top(t) = Top(s)
    BY DEF Framed, Top
  <1> QED BY <1>1, <1>2, <1>4, <1>5

\* A text in pages newly laid out has its page opened and no other.
LEMMA FreshReading ==
    ASSUME NEW t, Inv(t), Fresh(t)
    PROVE  Opened(t, Top(t)) /\ UpToPage(t)
  <1>1. t.page \in Nat
    BY InvFacts, StateFields
  <1>2. Paged(t) => t.page < TopStep(t).pages
    BY DEF Inv, PageFits
  <1>3. ASSUME Paged(t) PROVE TopFlow(t).opened \subseteq 0..(TopStep(t).pages - 1)
    <2>1. TopStep(t).pages \in Nat
      BY <1>1, <1>3, InvFacts, StateFields DEF Inv, PageFits
    <2> QED BY <1>1, <1>2, <1>3, <2>1 DEF Fresh
  <1>4. Opened(t, Top(t))
    BY <1>3 DEF Opened, Paged, TopFlow, TopStep, TopSlot
  <1>5. UpToPage(t)
    BY DEF UpToPage, Fresh
  <1> QED BY <1>4, <1>5

\* A step laid out by a flow that is on the screen.
LEMMA ReadingRelaid ==
    ASSUME NEW D, Plain(D), LoopsUnpaged, NEW s, Inv(s), Reading(D, s), NEW t,
           Relaid(s, t), Kin(s, t), TopFlow(s).length # 0
    PROVE  Reading(D, t)
  <1> DEFINE k == Top(s)
  <1>1. k \in SlotNumbers /\ Framed(s, t, k) /\ Inv(t) /\ Top(t) = k /\ Fresh(t) /\ (~Paged(t) => t.page \in {0, s.page})
    BY InvFacts DEF Relaid
  <1>2. Outside(D, t, k) => Outside(D, s, k)
    BY <1>1 DEF Outside, Kin, TopFlow
  <1>3. /\ OneOutside(D, t)
        /\ \A j \in SlotNumbers : Outside(D, t, j) => Outside(D, s, j)
        /\ \A j \in SlotNumbers \ {k} : Opened(t, j)
    BY <1>1, <1>2, ReadingTop
  <1>4. Opened(t, k) /\ UpToPage(t)
    BY <1>1, FreshReading
  <1>5. Wiped(D, t)
    <2>1. ASSUME NEW j \in SlotNumbers, Outside(D, t, j), j # k PROVE t.page = 0
      <3>1. s.page = 0
        BY <1>3, <2>1, ReadingParts DEF Wiped
      <3>2. ~Paged(t)
        <4>1. ASSUME Paged(t) PROVE FALSE
          <5>1. Outside(D, t, k)
            BY <1>1, <4>1, PagesOutside DEF Paged, TopFlow, TopStep, TopSlot
          <5> QED BY <1>1, <1>3, <2>1, <5>1 DEF OneOutside
        <4> QED BY <4>1
      <3> QED BY <1>1, <3>1, <3>2
    <2> QED BY <1>1, <2>1 DEF Wiped
  <1> QED BY <1>3, <1>4, <1>5, ReadingParts

\* A page turned.
LEMMA ReadingTurned ==
    ASSUME NEW D, Plain(D), NEW s, Inv(s), Reading(D, s), Paged(s), NEW p \in {s.page - 1, s.page + 1},
           NEW t, Turned(s, t, p)
    PROVE  Reading(D, t)
  <1> DEFINE k == Top(s)
  <1>1. k \in SlotNumbers /\ Framed(s, t, k) /\ Inv(t) /\ Top(t) = k /\ t.page = p
    BY InvFacts DEF Turned, Framed, Top
  <1>2. /\ TopFlow(t).steps = TopFlow(s).steps /\ TopFlow(t).length = TopFlow(s).length
        /\ TopFlow(t).entered = TopFlow(s).entered /\ TopFlow(t).opened = TopFlow(s).opened \cup {p}
        /\ TopStep(t) = TopStep(s) /\ TopFlow(s).length # 0 /\ TopStep(s).kind = "pages"
    BY DEF Turned, TopStep, Paged
  <1>3. Outside(D, t, k) => Outside(D, s, k)
    BY <1>1, <1>2 DEF Outside, TopFlow
  <1>4. /\ OneOutside(D, t)
        /\ \A j \in SlotNumbers : Outside(D, t, j) => Outside(D, s, j)
        /\ \A j \in SlotNumbers \ {k} : Opened(t, j)
    BY <1>1, <1>3, ReadingTop
  <1>5. Outside(D, s, k)
    BY <1>1, <1>2, PagesOutside DEF TopFlow, TopStep, TopSlot
  <1>6. Wiped(D, t)
    BY <1>1, <1>4, <1>5, ReadingParts DEF Wiped, OneOutside
  <1>7. s.page \in Nat /\ t.page \in Nat /\ t.page < TopStep(t).pages /\ TopStep(t).pages \in Nat
    <2>1. Paged(t)
      BY <1>2 DEF Paged
    <2> QED BY <1>1, <2>1, InvFacts, StateFields DEF Inv, PageFits
  <1>8. Opened(t, k)
    <2>1. Opened(s, k)
      BY <1>1, ReadingParts
    <2>2. TopFlow(s).opened \subseteq 0..(TopStep(s).pages - 1)
      BY <1>2, <2>1 DEF Opened, TopFlow, TopStep, TopSlot
    <2>3. p \in 0..(TopStep(t).pages - 1)
      BY <1>1, <1>7
    <2>4. TopFlow(t).opened \subseteq 0..(TopStep(t).pages - 1)
      BY <1>2, <2>2, <2>3
    <2> QED BY <1>1, <2>4 DEF Opened, TopFlow, TopStep, TopSlot
  <1>9. UpToPage(t)
    <2>1. UpToPage(s)
      BY ReadingParts
    <2>2. ASSUME TopFlow(t).entered # "BACKWARD" PROVE 0..t.page \subseteq TopFlow(t).opened
      <3>1. 0..s.page \subseteq TopFlow(s).opened
        BY <1>2, <2>1, <2>2 DEF UpToPage
      <3>2. \A i \in 0..t.page : i \in 0..s.page \/ i = p
        BY <1>1, <1>7
      <3> QED BY <1>2, <3>1, <3>2
    <2> QED BY <2>2 DEF UpToPage
  <1> QED BY <1>4, <1>6, <1>8, <1>9, ReadingParts

\* Drawing, laying out and turning pages.
LEMMA ReadingTurns ==
    ASSUME NEW D, Plain(D), LoopsUnpaged, NEW s, Inv(s), Reading(D, s), NEW t, Turns(s, t)
    PROVE  Reading(D, t)
  <1>1. PICK u, v : Inv(u) /\ Calm(s, u) /\ Changes(u, v) /\ Inv(v) /\ Calm(v, t)
    BY DEF Turns
  <1>2. Reading(D, u)
    BY <1>1, ReadingCalm
  <1>3. Reading(D, v)
    <2>1. CASE Calm(u, v)
      BY <1>1, <1>2, <2>1, ReadingCalm
    <2>2. CASE Relaid(u, v) /\ Kin(u, v) /\ TopFlow(u).length # 0
      BY <1>1, <1>2, <2>2, ReadingRelaid
    <2>3. CASE Paged(u) /\ \E p \in {u.page - 1, u.page + 1} : Turned(u, v, p)
      BY <1>1, <1>2, <2>3, ReadingTurned
    <2> QED BY <1>1, <2>1, <2>2, <2>3 DEF Changes
  <1> QED BY <1>1, <1>3, ReadingCalm

\* A stack of one slot.
LEMMA ReadingStarts ==
    ASSUME NEW D, LoopsUnpaged, NEW s, Inv(s), Reading(D, s), NEW t, Inv(t), Starts(s, t)
    PROVE  Reading(D, t)
  <1>1. CASE Calm(s, t)
    BY <1>1, ReadingCalm
  <1>2. CASE ~Calm(s, t)
    <2>1. t.count = 1 /\ Fresh(t)
      BY <1>2 DEF Starts
    <2>2. Top(t) = 0
      BY <2>1 DEF Top
    <2>3. \A k \in SlotNumbers : k # 0 => t.flow[k].length = 0
      <3>1. \A k \in SlotNumbers : k # 0 => k >= 1
        BY DEF SlotNumbers
      <3> QED BY <2>1, <3>1, EmptySlot DEF Inv, Base
    <2>4. OneOutside(D, t) /\ Wiped(D, t)
      BY <2>2, <2>3 DEF OneOutside, Wiped, Outside
    <2>5. Opened(t, Top(t)) /\ UpToPage(t)
      BY <2>1, FreshReading
    <2>6. \A k \in SlotNumbers : Opened(t, k)
      BY <2>2, <2>3, <2>5 DEF Opened
    <2> QED BY <2>4, <2>5, <2>6, ReadingParts
  <1> QED BY <1>1, <1>2

\* A dialog starts at a step of a flow that leads to no text in pages.
LEMMA DialogLands ==
    ASSUME NEW D, Plain(D), Dialogs \subseteq D, NEW f \in Dialogs
    PROVE  Lands[<<f, 0>>][1] \in D /\ Lands[<<f, 0>>][1] # None
  <1>1. <<f, 0>> \in Stops /\ f \in D
    BY FlowsAssumption, FlowBegins
  <1>2. Lands[<<f, 0>>][1] \in D
    BY <1>1 DEF Plain
  <1>3. Lands[<<f, 0>>] \in Screens /\ Lands[<<f, 0>>] \in Stops
    BY <1>1, LandsAssumption DEF Screens
  <1>4. <<Lands[<<f, 0>>][1], Lands[<<f, 0>>][2]>> \in Screens
    BY <1>3, StopPair
  <1> QED BY <1>2, <1>4, ScreenFacts

\* Nor does it show one.
LEMMA InsideUnpaged ==
    ASSUME NEW D, Plain(D), NEW t, Inv(t), NEW k \in SlotNumbers, t.flow[k].steps \in D, t.flow[k].steps # None
    PROVE  ~Outside(D, t, k) /\ t.flow[k].length # 0 /\ Step[t.stack[k].of].kind # "pages"
  <1>1. t.flow[k].length # 0
    BY InvFacts, EmptySlot
  <1>2. ~Outside(D, t, k)
    BY DEF Outside
  <1> QED BY <1>1, <1>2, PagesOutside

\* A dialog over the top.
LEMMA ReadingOver ==
    ASSUME NEW D, Plain(D), Dialogs \subseteq D, NEW s, Inv(s), Reading(D, s), NEW f \in Dialogs,
           NEW t, Over(s, t, f)
    PROVE  Reading(D, t)
  <1> DEFINE k == Top(t)
  <1>1. Inv(t) /\ k \in SlotNumbers /\ t.flow[k].steps \in D /\ t.flow[k].steps # None
    BY InvFacts, DialogLands DEF Over, TopFlow
  <1>2. ~Outside(D, t, k) /\ t.flow[k].length # 0 /\ Step[t.stack[k].of].kind # "pages"
    BY <1>1, InsideUnpaged
  <1>3. ~Paged(t) /\ t.page = 0
    BY <1>2 DEF Paged, TopStep, TopSlot, Over
  <1>4. \A j \in SlotNumbers : Outside(D, t, j) => Outside(D, s, j)
    BY <1>2 DEF Outside, Over
  <1>5. OneOutside(D, t)
    BY <1>4, ReadingParts DEF OneOutside
  <1>6. \A j \in SlotNumbers : Opened(t, j)
    <2>1. \A j \in SlotNumbers : Opened(s, j)
      BY ReadingParts
    <2> QED BY <1>2, <2>1 DEF Opened, Over
  <1>7. Wiped(D, t) /\ UpToPage(t)
    BY <1>3 DEF Wiped, UpToPage
  <1> QED BY <1>5, <1>6, <1>7, ReadingParts

\* A dialog in the place of the top.
LEMMA ReadingInstead ==
    ASSUME NEW D, Plain(D), Dialogs \subseteq D, NEW s, Inv(s), Reading(D, s), NEW f \in Dialogs,
           NEW t, Instead(s, t, f)
    PROVE  Reading(D, t)
  <1> DEFINE k == Top(s)
  <1>1. Inv(t) /\ k \in SlotNumbers /\ Top(t) = k /\ Framed(s, t, k)
        /\ t.flow[k].steps \in D /\ t.flow[k].steps # None
    BY InvFacts, DialogLands DEF Instead, TopFlow
  <1>2. ~Outside(D, t, k) /\ t.flow[k].length # 0 /\ Step[t.stack[k].of].kind # "pages"
    BY <1>1, InsideUnpaged
  <1>3. ~Paged(t) /\ t.page = 0
    BY <1>1, <1>2 DEF Paged, TopStep, TopSlot, Instead
  <1>4. OneOutside(D, t) /\ \A j \in SlotNumbers \ {k} : Opened(t, j)
    BY <1>1, <1>2, ReadingTop
  <1>5. \A j \in SlotNumbers : Opened(t, j)
    BY <1>2, <1>4 DEF Opened
  <1>6. Wiped(D, t) /\ UpToPage(t)
    BY <1>3 DEF Wiped, UpToPage
  <1> QED BY <1>4, <1>5, <1>6, ReadingParts

\* A dialog under the top.
LEMMA ReadingUnder ==
    ASSUME NEW D, Plain(D), Dialogs \subseteq D, NEW s, Inv(s), Reading(D, s), NEW f \in Dialogs,
           NEW t, Under(s, t, f)
    PROVE  Reading(D, t)
  <1> DEFINE k == Top(s)
             n == Top(t)
  <1>1. Inv(t) /\ k \in SlotNumbers /\ n \in SlotNumbers /\ n = k + 1 /\ k \in Nat
        /\ t.flow[k].steps \in D /\ t.flow[k].steps # None
    BY InvFacts, StateFields, DialogLands DEF Under
  <1>2. ~Outside(D, t, k) /\ t.flow[k].length # 0 /\ Step[t.stack[k].of].kind # "pages"
    BY <1>1, InsideUnpaged
  <1>3. ~Paged(t) /\ t.page = 0
    BY <1>2 DEF Under
  <1>4. /\ t.flow[n] = s.flow[k] /\ t.stack[n] = s.stack[k]
        /\ \A j \in SlotNumbers : j < k => t.stack[j] = s.stack[j] /\ t.flow[j] = s.flow[j]
        /\ \A j \in SlotNumbers : j > n => t.flow[j].length = 0
    BY EmptySlot DEF Under, TopFlow, TopSlot
  <1>5. \A j \in SlotNumbers : j < k \/ j = k \/ j = n \/ j > n
    BY <1>1 DEF SlotNumbers
  <1> HIDE DEF k, n
  <1>6. ASSUME NEW j \in SlotNumbers, Outside(D, t, j)
        PROVE  (j < k /\ Outside(D, s, j)) \/ (j = n /\ Outside(D, s, k))
    BY <1>2, <1>4, <1>5, <1>6 DEF Outside
  <1>7. OneOutside(D, t)
    <2>1. ASSUME NEW i \in SlotNumbers, NEW j \in SlotNumbers, Outside(D, s, i), Outside(D, s, j) PROVE i = j
      BY <2>1, ReadingParts DEF OneOutside
    <2>2. \A i \in SlotNumbers : i < k => i # k
      BY <1>1 DEF SlotNumbers
    <2> QED BY <1>1, <1>6, <2>1, <2>2 DEF OneOutside
  <1>8. \A j \in SlotNumbers : Opened(t, j)
    <2>1. \A j \in SlotNumbers : Opened(s, j)
      BY ReadingParts
    <2> QED BY <1>1, <1>2, <1>4, <1>5, <2>1 DEF Opened
  <1>9. Wiped(D, t) /\ UpToPage(t)
    BY <1>3 DEF Wiped, UpToPage
  <1> QED BY <1>7, <1>8, <1>9, ReadingParts

\* The slots of the stack a slot has gone from.
LEMMA UncoveredSlots ==
    ASSUME NEW s, Inv(s), s.count > 1, NEW k \in {Top(s) - 1, Top(s)}, NEW u, Uncovered(s, u, k),
           NEW t, Again(u, t), NEW n, n = Top(u)
    PROVE  /\ Inv(t) /\ Top(t) = n /\ n \in SlotNumbers /\ k \in SlotNumbers /\ n <= k /\ n < Top(s)
           /\ t.flow[n].steps = s.flow[k].steps /\ t.flow[n].length = s.flow[k].length
           /\ t.stack[n].of = s.stack[k].of
           /\ \A j \in SlotNumbers : j < n => t.stack[j] = s.stack[j] /\ t.flow[j] = s.flow[j]
           /\ \A j \in SlotNumbers : j > n => t.flow[j].length = 0
           /\ u.flow[n] = s.flow[k] /\ u.page = s.page
  <1>1. s \in States /\ s.count \in 1..Slots /\ Top(s) \in SlotNumbers /\ Slots \in Nat
    BY InvFacts, SlotsAssumption
  <1>2. Top(s) = s.count - 1
    BY DEF Top
  <1>3. n = Top(s) - 1 /\ n \in SlotNumbers /\ k \in SlotNumbers /\ n <= k /\ n < Top(s)
    BY <1>1, <1>2 DEF Uncovered, SlotNumbers
  <1>4. Inv(t) /\ t.count = u.count /\ Top(t) = n
    BY DEF Again, Framed, Top
  <1>5. /\ u.flow[n] = s.flow[k] /\ u.stack[n].of = s.stack[k].of /\ u.page = s.page
        /\ \A j \in SlotNumbers : j < n => u.stack[j] = s.stack[j] /\ u.flow[j] = s.flow[j]
        /\ \A j \in SlotNumbers : j > n => u.flow[j] = NoFlow
    BY DEF Uncovered
  <1>6. \A j \in SlotNumbers : j # n => t.stack[j] = u.stack[j] /\ t.flow[j] = u.flow[j]
    BY DEF Again, Framed
  <1>7. t.flow[n].steps = u.flow[n].steps /\ t.flow[n].length = u.flow[n].length /\ t.stack[n].of = u.stack[n].of
    BY <1>4 DEF Again, TopFlow, TopSlot
  <1>8. \A j \in SlotNumbers : (j < n \/ j > n) => j # n
    BY <1>3 DEF SlotNumbers
  <1> QED BY <1>3, <1>4, <1>5, <1>6, <1>7, <1>8, EmptySlot

\* The page that is shown again.
LEMMA UncoveredPage ==
    ASSUME NEW s, Inv(s), s.count > 1, NEW k \in {Top(s) - 1, Top(s)}, NEW u, Uncovered(s, u, k),
           NEW t, Again(u, t)
    PROVE  /\ ~Paged(t) => t.page = s.page
           /\ Paged(t) => /\ TopFlow(t).entered = s.flow[k].entered
                          /\ TopFlow(t).opened = s.flow[k].opened \cup {t.page}
                          /\ TopFlow(t).entered # "BACKWARD" => t.page <= 0 \/ t.page <= s.page
  <1> DEFINE n == Top(u)
             pages == Pages(u, n)
  <1>1. /\ Inv(t) /\ Top(t) = n /\ n \in SlotNumbers /\ t.flow[n].length = s.flow[k].length
        /\ u.flow[n] = s.flow[k] /\ u.page = s.page
    BY UncoveredSlots
  <1>2. TopFlow(u) = u.flow[n] /\ TopFlow(t) = t.flow[n] /\ TopStep(t) = Step[t.stack[n].of]
    BY <1>1 DEF TopFlow, TopStep, TopSlot
  <1> HIDE DEF n
  <1>3. CASE u.flow[n].length = 0
    <2>1. t.page = s.page
      BY <1>1, <1>2, <1>3 DEF Again
    <2> QED BY <1>1, <1>2, <1>3, <2>1 DEF Paged
  <1>4. CASE u.flow[n].length # 0
    <2>1. Placed(u, n) /\ Shown(u, t, n, "again")
      BY <1>2, <1>4 DEF Again, n
    <2>2. t.stack[n].of = Current(u, n)
      BY <2>1 DEF Shown
    <2>3. CASE Step[Current(u, n)].kind # "pages"
      <3>1. t.page = s.page
        BY <1>1, <2>1, <2>3 DEF Shown
      <3> QED BY <1>2, <2>2, <2>3, <3>1 DEF Paged
    <2>4. CASE Step[Current(u, n)].kind = "pages"
      <3>1. Paged(t)
        BY <1>1, <1>2, <1>4, <2>2, <2>4 DEF Paged
      <3>2. t.page = Smaller(Asked(u, pages), pages - 1)
        BY <2>1, <2>4 DEF Shown
      <3>3. t.flow[n].entered = u.flow[n].entered /\ t.flow[n].opened = u.flow[n].opened \cup {t.page}
        BY <2>1, <2>4 DEF Shown, Before
      <3>4. t.flow[n].index = u.flow[n].index /\ t.flow[n].prev = u.flow[n].prev
        BY <2>1 DEF Shown
      <3>5. ASSUME t.flow[n].entered # "BACKWARD" PROVE t.page <= 0 \/ t.page <= s.page
        <4>1. Occupied(t.stack[n], t.flow[n])
          BY <1>1, <1>4, InvFacts
        <4>2. ~(TopFlow(u).index < TopFlow(u).prev)
          BY <1>2, <3>4, <3>5, <4>1 DEF Occupied
        <4>3. Direction(u) \in {"START", "FORWARD"}
          BY <4>2 DEF Direction
        <4>4. Asked(u, pages) \in {0, s.page}
          BY <1>1, <4>3 DEF Asked
        <4>5. s.page \in Nat /\ t.page \in Nat /\ pages \in Nat
          BY <1>1, <2>1, PlacedStep, InvFacts, StateFields DEF Pages
        <4> HIDE DEF pages
        <4>6. Smaller(Asked(u, pages), pages - 1) <= Asked(u, pages)
          BY <4>4, <4>5 DEF Smaller
        <4> QED BY <3>2, <4>4, <4>5, <4>6
      <3> QED BY <1>1, <1>2, <3>1, <3>3, <3>5
    <2> QED BY <2>3, <2>4
  <1> QED BY <1>3, <1>4

\* A slot goes away.
LEMMA ReadingUncovers ==
    ASSUME NEW D, Plain(D), NEW s, Inv(s), Reading(D, s), NEW k \in {Top(s) - 1, Top(s)},
           NEW t, Uncovers(s, t, k)
    PROVE  Reading(D, t)
  <1>1. PICK u : s.count > 1 /\ Uncovered(s, u, k) /\ Again(u, t)
    BY DEF Uncovers
  <1> DEFINE n == Top(u)
  <1>2. /\ Inv(t) /\ Top(t) = n /\ n \in SlotNumbers /\ k \in SlotNumbers /\ n <= k /\ n < Top(s)
        /\ t.flow[n].steps = s.flow[k].steps /\ t.flow[n].length = s.flow[k].length
        /\ t.stack[n].of = s.stack[k].of
        /\ \A j \in SlotNumbers : j < n => t.stack[j] = s.stack[j] /\ t.flow[j] = s.flow[j]
        /\ \A j \in SlotNumbers : j > n => t.flow[j].length = 0
    BY <1>1, UncoveredSlots
  <1>3. /\ ~Paged(t) => t.page = s.page
        /\ Paged(t) => /\ TopFlow(t).entered = s.flow[k].entered
                       /\ TopFlow(t).opened = s.flow[k].opened \cup {t.page}
                       /\ TopFlow(t).entered # "BACKWARD" => t.page <= 0 \/ t.page <= s.page
    BY <1>1, UncoveredPage
  <1> HIDE DEF n
  <1>4. TopFlow(t) = t.flow[n] /\ TopStep(t) = Step[t.stack[n].of]
    BY <1>2 DEF TopFlow, TopStep, TopSlot
  <1>5. \A j \in SlotNumbers : j < n \/ j = n \/ j > n
    BY <1>2 DEF SlotNumbers
  <1>6. ASSUME NEW j \in SlotNumbers, Outside(D, t, j)
        PROVE  (j < n /\ Outside(D, s, j)) \/ (j = n /\ Outside(D, s, k))
    BY <1>2, <1>5, <1>6 DEF Outside
  <1>7. ASSUME NEW i \in SlotNumbers, NEW j \in SlotNumbers, Outside(D, s, i), Outside(D, s, j) PROVE i = j
    BY <1>7, ReadingParts DEF OneOutside
  <1>8. Top(s) \in SlotNumbers /\ \A i \in SlotNumbers : i < n => i # k /\ i # Top(s)
    <2>1. Top(s) \in SlotNumbers
      BY InvFacts
    <2> QED BY <1>2, <2>1 DEF SlotNumbers
  <1>9. OneOutside(D, t)
    BY <1>2, <1>6, <1>7, <1>8 DEF OneOutside
  <1>10. Paged(t) => Outside(D, t, n) /\ Outside(D, s, k)
    <2>1. Paged(t) => Outside(D, t, n)
      BY <1>2, <1>4, PagesOutside DEF Paged
    <2> QED BY <1>2, <2>1 DEF Outside
  <1>11. Wiped(D, t)
    <2>1. SUFFICES ASSUME NEW j \in SlotNumbers, Outside(D, t, j), j # n PROVE t.page = 0
      BY <1>2 DEF Wiped
    <2>2. j < n /\ Outside(D, s, j)
      BY <1>6, <2>1
    <2>3. s.page = 0
      BY <1>8, <2>2, ReadingParts DEF Wiped
    <2>4. ~Paged(t)
      BY <1>2, <1>9, <1>10, <2>1 DEF OneOutside
    <2> QED BY <1>3, <2>3, <2>4
  <1>12. t.page \in Nat /\ s.page \in Nat
    BY <1>2, InvFacts, StateFields
  <1>13. \A j \in SlotNumbers : Opened(s, j)
    BY ReadingParts
  <1>14. Opened(t, n)
    <2>1. SUFFICES ASSUME Paged(t) PROVE t.flow[n].opened \subseteq 0..(TopStep(t).pages - 1)
      BY <1>4 DEF Opened, Paged
    <2>2. t.page < TopStep(t).pages /\ t.pages = TopStep(t).pages /\ t.pages \in Nat
      BY <1>2, <2>1, InvFacts, StateFields DEF Inv, PageFits
    <2>3. t.page \in 0..(TopStep(t).pages - 1)
      BY <1>12, <2>2
    <2>4. s.flow[k].opened \subseteq 0..(TopStep(t).pages - 1)
      BY <1>2, <1>4, <1>13, <2>1 DEF Opened, Paged
    <2> QED BY <1>3, <1>4, <2>1, <2>3, <2>4
  <1>15. \A j \in SlotNumbers : Opened(t, j)
    BY <1>2, <1>5, <1>13, <1>14 DEF Opened
  <1>16. UpToPage(t)
    <2>1. SUFFICES ASSUME Paged(t), TopFlow(t).entered # "BACKWARD" PROVE 0..t.page \subseteq TopFlow(t).opened
      BY DEF UpToPage
    <2>2. TopFlow(t).opened = s.flow[k].opened \cup {t.page} /\ (t.page <= 0 \/ t.page <= s.page)
      BY <1>3, <2>1
    <2>3. CASE t.page <= 0
      <3>1. \A i \in 0..t.page : i = t.page
        BY <1>12, <2>3
      <3> QED BY <2>2, <3>1
    <2>4. CASE t.page <= s.page /\ k # Top(s)
      <3>1. s.page = 0
        BY <1>2, <1>10, <2>1, <2>4, ReadingParts DEF Wiped
      <3>2. \A i \in 0..t.page : i = t.page
        BY <1>12, <2>4, <3>1
      <3> QED BY <2>2, <3>2
    <2>5. CASE t.page <= s.page /\ k = Top(s)
      <3>1. TopFlow(s) = s.flow[k] /\ TopStep(s) = Step[s.stack[k].of]
        BY <2>5 DEF TopFlow, TopStep, TopSlot
      <3>2. Paged(s)
        BY <1>2, <1>4, <2>1, <3>1 DEF Paged
      <3>3. TopFlow(s).entered # "BACKWARD"
        BY <1>3, <2>1, <3>1
      <3>4. 0..s.page \subseteq s.flow[k].opened
        BY <3>1, <3>2, <3>3, ReadingParts DEF UpToPage
      <3>5. \A i \in 0..t.page : i \in 0..s.page
        BY <1>12, <2>5
      <3> QED BY <2>2, <3>4, <3>5
    <2> QED BY <2>2, <2>3, <2>4, <2>5
  <1> QED BY <1>9, <1>11, <1>15, <1>16, ReadingParts

\* What is opened of a text in pages, whatever the flows outside the dialogs are.
LEMMA ReadingStep ==
    ASSUME NEW D, Plain(D), Dialogs \subseteq D, LoopsUnpaged, Safe, Reading(D, g), [Next]_vars
    PROVE  Reading(D, g')
  <1>1. Inv(g) /\ locked \in BOOLEAN
    BY DEF Safe
  <1>2. CASE UNCHANGED vars
    BY <1>2 DEF vars
  <1>3. CASE Next
    <2>1. Inv(g') /\ Kinds(g, g')
      BY <1>1, <1>3, NextInv
    <2>2. CASE Turns(g, g')
      BY <1>1, <2>2, ReadingTurns
    <2>3. CASE Starts(g, g')
      BY <1>1, <2>1, <2>3, ReadingStarts
    <2>4. CASE Covers(g, g')
      <3>1. PICK f \in Dialogs : Over(g, g', f) \/ Under(g, g', f) \/ Instead(g, g', f)
        BY <2>4 DEF Covers
      <3> QED BY <1>1, <3>1, ReadingOver, ReadingUnder, ReadingInstead
    <2>5. CASE Uncovers(g, g', Top(g) - 1)
      BY <1>1, <2>5, ReadingUncovers
    <2>6. CASE Uncovers(g, g', Top(g))
      BY <1>1, <2>6, ReadingUncovers
    <2> QED BY <2>1, <2>2, <2>3, <2>4, <2>5, <2>6 DEF Kinds
  <1> QED BY <1>2, <1>3

\* It is so at first, with nothing on the stack.
LEMMA InitReading ==
    ASSUME NEW D, Init
    PROVE  Reading(D, g)
  <1>1. \A k \in SlotNumbers : g.flow[k].length = 0
    BY EmptySlot DEF Init, SlotNumbers
  <1>2. TopFlow(g).length = 0
    <2>1. Inv(g)
      BY InitInv
    <2> QED BY <1>1, <2>1, InvFacts DEF TopFlow
  <1> QED BY <1>1, <1>2 DEF Reading, Outside, Paged

\* Both buttons at the last page of a text, when it is left.
LEMMA ValidateRead ==
    ASSUME NEW D, NEW s, Inv(s), Reading(D, s), Paged(s), TopFlow(s).entered # "BACKWARD",
           s.stack[0].button = s.stack[Top(s)].button, React(s, "validate").flow # s.flow
    PROVE  TopFlow(s).opened = 0..(TopStep(s).pages - 1)
  <1>1. s.stack[0].button = "pages"
    BY TopButton
  <1>2. ASSUME KeepsButton(s, "validate") PROVE FALSE
    <2>1. React(s, "validate") = s
      BY <1>1, <1>2 DEF React, PagesButton
    <2> QED BY <2>1
  <1>3. s.page \in Nat /\ s.pages \in Nat /\ s.pages = TopStep(s).pages /\ s.page < s.pages
    BY InvFacts, StateFields DEF Inv, PageFits
  <1>4. s.pages = s.page + 1
    BY <1>2, <1>3 DEF KeepsButton
  <1>5. 0..(TopStep(s).pages - 1) \subseteq TopFlow(s).opened
    BY <1>3, <1>4, ReadingParts DEF UpToPage
  <1>6. TopFlow(s).opened \subseteq 0..(TopStep(s).pages - 1)
    <2>1. Top(s) \in SlotNumbers /\ Opened(s, Top(s))
      BY InvFacts, ReadingParts
    <2> QED BY <2>1 DEF Opened, Paged, TopFlow, TopStep, TopSlot
  <1> QED BY <1>5, <1>6

\* What AllPagesRead says of a step.
PagesRead ==
    LET f == TopFlow(g)
    IN (Served /\ Released = "validate" /\ f.length # 0 /\ f.entered # "BACKWARD" /\ g'.flow # g.flow) =>
           \/ Step[Current(g, Top(g))].kind # "pages"
           \/ f.opened = 0..(Step[Current(g, Top(g))].pages - 1)

\* A step that approves a text has had each page opened.
LEMMA ReadingPages ==
    ASSUME NEW D, Safe, Reading(D, g), [Next]_vars
    PROVE  PagesRead
  <1>1. SUFFICES ASSUME Served, Released = "validate", TopFlow(g).length # 0, TopFlow(g).entered # "BACKWARD",
                        g'.flow # g.flow, Step[Current(g, Top(g))].kind = "pages"
                 PROVE  TopFlow(g).opened = 0..(Step[Current(g, Top(g))].pages - 1)
    BY DEF PagesRead
  <1> DEFINE u == Pushed(g, {})
             v == React(u, Reaction(g, {}))
  <1>2. ~Calm(g, g') /\ Inv(g)
    BY <1>1 DEF Calm, Safe
  <1>3. Button({}) /\ Reaction(g, {}) = "validate"
    BY <1>1, <1>2, ReleasedBy
  <1>4. g' = DisplayNext(Pressed(g, {}))
    BY <1>3 DEF Button
  <1>5. Inv(u) /\ Calm(g, u) /\ Calm(v, g') /\ u.stack = g.stack
    BY <1>2, <1>4, ButtonResult
  <1>6. v = React(u, "validate")
    BY <1>3
  <1> HIDE DEF u, v
  <1>7. Reading(D, u)
    BY <1>2, <1>5, ReadingCalm
  <1>8. Top(u) = Top(g) /\ TopFlow(u) = TopFlow(g) /\ TopStep(u) = TopStep(g) /\ v.flow # u.flow
    BY <1>1, <1>5 DEF Calm, Top, TopFlow, TopStep, TopSlot
  <1>9. TopStep(g) = Step[Current(g, Top(g))]
    BY <1>1, <1>2, TopButton DEF TopStep
  <1>10. Paged(u)
    BY <1>1, <1>8, <1>9 DEF Paged
  <1>11. TopFlow(u).opened = 0..(TopStep(u).pages - 1)
    <2>1. u.stack[0].button = u.stack[Top(u)].button
      BY <1>1, <1>5, <1>8 DEF Served
    <2> QED BY <1>1, <1>5, <1>6, <1>7, <1>8, <1>10, <2>1, ValidateRead
  <1> QED BY <1>8, <1>9, <1>11

\* AllPagesRead, for any flows of which no loop begins with a text in pages and whose dialogs
\* lead to none: a text in pages is approved by both buttons when each of its pages has been
\* opened, unless the user came back to it from a later step.
THEOREM AllPagesReadAlways ==
    ASSUME LoopsUnpaged, DialogsPlain
    PROVE  Spec => AllPagesRead
  <1>1. PICK D \in SUBSET DOMAIN Flows : Dialogs \subseteq D /\ Plain(D)
    BY DEF DialogsPlain
  <1> DEFINE R == Reading(D, g)
  <1>2. Init => R
    BY InitReading
  <1>3. Safe /\ R /\ [Next]_vars => R'
    BY <1>1, ReadingStep
  <1>4. Safe /\ R /\ [Next]_vars => [PagesRead]_vars
    BY ReadingPages
  <1> HIDE DEF R
  <1>5. Spec => [][PagesRead]_vars
    BY <1>2, <1>3, <1>4, AlwaysSafe, PTL DEF Spec
  <1> QED BY <1>5 DEF AllPagesRead, PagesRead
=================================================================================
