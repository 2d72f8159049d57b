---------------------------------- MODULE Layouts ----------------------------------
(* The layouts a step of a flow is drawn with (ux_layout_*.c): a table of       *)
(* elements, and a preprocessor that fills each with a parameter of the step or *)
(* leaves it out.  The parameters are a structure, which most preprocessors     *)
(* read as an array of lines; the identifier of an element is the index.  The   *)
(* name of a layout says what it shows: a picture, bold lines, normal ones.     *)
EXTENDS Screen

Heights == {64, 32}   \* of the screens
ScreenWidth == 128

Element(id, type, x, y, width, height, bold) ==
    [id |-> id, type |-> type, x |-> x, y |-> y, width |-> width, height |-> height,
     bold |-> bold, text |-> "none"]
Erase(height) == Element(0, "rectangle", 0, 0, ScreenWidth, height, FALSE)
Arrows(y) == <<Element(1, "left", 2, y, 4, 7, FALSE), Element(2, "right", 122, y, 4, 7, FALSE)>>
Background(height) == <<Erase(height)>> \o Arrows(IF height = 64 THEN 28 ELSE 12)
\* Lines of text, at the heights ys, with the identifiers from `id` on.
TextLines(id, x, width, ys, bold) ==
    [k \in DOMAIN ys |-> Element(id + k - 1, "line", x, ys[k], width, 32, k \in bold)]

PbElements(height) == Background(height) \o
    IF height = 64 THEN <<Element(16, "icon", 57, 17, 14, 14, FALSE), Element(17, "line", 0, 44, 128, 32, TRUE)>>
                   ELSE <<Element(16, "icon", 56, 2, 16, 16, FALSE), Element(17, "line", 0, 28, 128, 32, TRUE)>>
PnElements(height) == Background(height) \o
    IF height = 64 THEN <<Element(16, "icon", 57, 17, 14, 14, FALSE), Element(17, "line", 0, 44, 128, 32, FALSE)>>
                   ELSE <<Element(16, "icon", 56, 2, 16, 16, FALSE), Element(17, "line", 0, 28, 128, 32, FALSE)>>
PbbElements(height) == Background(height) \o
    IF height = 64 THEN <<Element(15, "icon", 57, 10, 14, 14, FALSE)>> \o TextLines(16, 6, 116, <<37, 51>>, {1, 2})
                   ELSE <<Element(15, "icon", 16, 8, 16, 16, FALSE)>> \o TextLines(16, 41, 128, <<12, 26>>, {1, 2})
BbElements(height) == Background(height) \o
    TextLines(16, 6, 116, IF height = 64 THEN <<29, 43>> ELSE <<12, 26>>, {1, 2})

\* On the high screen only.
BnnElements == Background(64) \o TextLines(16, 6, 116, <<20, 36, 52>>, {1})
BnnnElements == Background(64) \o TextLines(16, 6, 116, <<15, 29, 43, 57>>, {1})
NnnElements == Background(64) \o TextLines(16, 6, 116, <<20, 36, 52>>, {})
NnnnElements == Background(64) \o TextLines(16, 6, 116, <<15, 29, 43, 57>>, {})
PagingElements == Background(64) \o <<Element(16, "line", 0, 15, 128, 12, TRUE)>>
                  \o TextLines(17, (ScreenWidth - Line) \div 2, Line, <<29, 43, 57>>, {})

\* A list, with arrows up and down at its sides; three of its lines on the low screen.
NnbnnElements(height) ==
    <<Erase(height), Element(1, "up", 0, height \div 2 - 2, 7, 4, FALSE),
      Element(2, "down", 120, height \div 2 - 2, 7, 4, FALSE)>> \o
    IF height = 64 THEN TextLines(16, 8, 112, <<4, 20, 36, 52, 68>>, {3})
                   ELSE TextLines(17, 8, 112, <<3, 19, 35>>, {2})

(*---------------------------------------------------------------------------*)
(* Preprocessors: the element as it is displayed, << >> if it is not.  step:   *)
(* whether it is the first or the last of its flow, its parameters in order.   *)
With(e, text) == <<[e EXCEPT !.text = text]>>
Normal(shown) == [k \in DOMAIN shown |-> [shown[k] EXCEPT !.bold = FALSE]]
ArrowHidden(e, step) == (e.id = 1 /\ step.first) \/ (e.id = 2 /\ step.last)

StringsPrepro(e, step) ==
    CASE ArrowHidden(e, step) -> << >>
      [] e.id >= 16 -> With(e, step.params[(e.id % 16) + 1])
      [] OTHER -> <<e>>
NnPrepro(e, step) == IF e.id >= 16 THEN Normal(StringsPrepro(e, step)) ELSE StringsPrepro(e, step)
BnPrepro(e, step) == IF e.id = 17 THEN Normal(StringsPrepro(e, step)) ELSE StringsPrepro(e, step)

PbPrepro(e, step) ==
    CASE ArrowHidden(e, step) -> << >>
      [] e.id = 16 -> With(e, step.params[1])
      [] e.id = 17 -> With(e, step.params[2])
      [] OTHER -> <<e>>
PnPrepro(e, step) ==
    CASE ArrowHidden(e, step) -> << >>
      [] e.id \in {16, 17} -> With(e, step.params[e.id - 15])
      [] OTHER -> <<e>>

\* The icon comes before the lines in the structure, and before 16 in the table.
PbbPrepro(e, step) ==
    CASE ArrowHidden(e, step) -> << >>
      [] e.id = 15 -> With(e, step.params[1])
      [] e.id \in {16, 17} -> With(e, step.params[(e.id % 16) + 2])
      [] OTHER -> <<e>>
PnnPrepro(e, step) == IF e.id >= 16 THEN Normal(PbbPrepro(e, step)) ELSE PbbPrepro(e, step)
PbnPrepro(e, step) == IF e.id = 17 THEN Normal(PbbPrepro(e, step)) ELSE PbbPrepro(e, step)

\* The arrows of a list tell the lines above and below, whatever the flow.
NnbnnPrepro(e, step) ==
    CASE (e.id = 1 /\ step.params[2] = "NULL") \/ (e.id = 2 /\ step.params[4] = "NULL") -> << >>
      [] e.id >= 16 -> With(e, step.params[(e.id % 16) + 1])
      [] OTHER -> <<e>>

\* A page of a text: page and pages, the lines cut from it, and which parts are bold.
PagingTitle(step) ==
    CASE step.title = "NULL" -> <<step.page + 1, step.pages>>
      [] step.title # "NULL" /\ step.pages > 1 -> <<step.title, step.page + 1, step.pages>>
      [] OTHER -> <<step.title>>
PagingPrepro(e, step) ==
    CASE e.id = 1 /\ step.first /\ step.page = 0 -> << >>
      [] e.id = 2 /\ step.last /\ step.page = step.pages - 1 -> << >>
      [] e.id = 16 -> <<[e EXCEPT !.text = PagingTitle(step), !.bold = step.bold[1]]>>
      [] e.id > 16 /\ e.id - 16 \in DOMAIN step.lines ->
            <<[e EXCEPT !.text = step.lines[e.id - 16], !.bold = step.bold[2]]>>
      [] OTHER -> <<e>>

(*---------------------------------------------------------------------------*)
(* What a layout displays, in order.                                           *)
Prepro(layout, e, step) ==
    CASE layout = "pb" -> PbPrepro(e, step)   [] layout = "pn" -> PnPrepro(e, step)
      [] layout = "pbb" -> PbbPrepro(e, step) [] layout = "pbn" -> PbnPrepro(e, step)
      [] layout = "pnn" -> PnnPrepro(e, step) [] layout = "bn" -> BnPrepro(e, step)
      [] layout = "nn" -> NnPrepro(e, step)   [] layout = "nnbnn" -> NnbnnPrepro(e, step)
      [] layout = "paging" -> PagingPrepro(e, step)
      [] OTHER -> StringsPrepro(e, step)
Displayed(elements, layout, step) ==
    LET shown[k \in 0 .. Len(elements)] == IF k = 0 THEN << >> ELSE shown[k - 1] \o Prepro(layout, elements[k], step)
    IN shown[Len(elements)]

PbInit(height, step) == Displayed(PbElements(height), "pb", step)
PnInit(height, step) == Displayed(PnElements(height), "pn", step)
BbInit(height, step) == Displayed(BbElements(height), "bb", step)
BnInit(height, step) == Displayed(BbElements(height), "bn", step)
NnInit(height, step) == Displayed(BbElements(height), "nn", step)
PbbInit(height, step) == Displayed(PbbElements(height), "pbb", step)
PbnInit(height, step) == Displayed(PbbElements(height), "pbn", step)
PnnInit(height, step) == Displayed(PbbElements(height), "pnn", step)
BnnInit(step) == Displayed(BnnElements, "bnn", step)
BnnnInit(step) == Displayed(BnnnElements, "bnnn", step)
NnnInit(step) == Displayed(NnnElements, "nnn", step)
NnnnInit(step) == Displayed(NnnnElements, "nnnn", step)
NnbnnInit(height, step) == Displayed(NnbnnElements(height), "nnbnn", step)
PagingRedisplay(height, step) ==
    Displayed(IF height = 64 THEN PagingElements ELSE BbElements(32), "paging", step)

(* The structures of parameters, in order.                                     *)
ParamLines(n) == SubSeq(<<"line1", "line2", "line3", "line4", "line5">>, 1, n)
LowParams(layout) ==
    CASE layout \in {"pb", "pn"} -> <<"icon">> \o ParamLines(1)
      [] layout \in {"pbb", "pbn", "pnn"} -> <<"icon">> \o ParamLines(2)
      [] layout \in {"bb", "bn", "nn"} -> ParamLines(2)
      [] layout = "nnbnn" -> ParamLines(5)
HighParams(layout) ==
    CASE layout \in {"bnn", "nnn"} -> ParamLines(3)
      [] layout \in {"bnnn", "nnnn"} -> ParamLines(4)
LowLayouts == {"pb", "pn", "pbb", "pbn", "pnn", "bb", "bn", "nn", "nnbnn"}
HighLayouts == {"bnn", "bnnn", "nnn", "nnnn"}
LayoutParams(layout) == IF layout \in LowLayouts THEN LowParams(layout) ELSE HighParams(layout)
LayoutInit(layout, height, step) ==
    CASE layout = "pb" -> PbInit(height, step)   [] layout = "pn" -> PnInit(height, step)
      [] layout = "bb" -> BbInit(height, step)   [] layout = "bn" -> BnInit(height, step)
      [] layout = "nn" -> NnInit(height, step)   [] layout = "pbb" -> PbbInit(height, step)
      [] layout = "pbn" -> PbnInit(height, step) [] layout = "pnn" -> PnnInit(height, step)
      [] layout = "bnn" -> BnnInit(step) [] layout = "bnnn" -> BnnnInit(step)
      [] layout = "nnn" -> NnnInit(step) [] layout = "nnnn" -> NnnnInit(step)
      [] layout = "nnbnn" -> NnbnnInit(height, step)
=================================================================================
