---------------------------------- MODULE Legacy ----------------------------------
(* The menus and the turner of ux_legacy.c, which are drawn by the user         *)
(* interface before flows: lists of entries walked with the buttons, and steps  *)
(* that follow one another with time.  An entry: whether it has an icon and two *)
(* lines, the menu it opens (0: none) and the entry there, and a callback.  The *)
(* list ends with an entry where everything is NULL.                            *)
EXTENDS Integers, Sequences

CONSTANTS Menus,     \* sequence of menus: sequences of entries
          Unchanged  \* UX_MENU_UNCHANGED_ENTRY, UX_TURNER_UNCHANGED_ENTRY

End == [icon |-> FALSE, line2 |-> FALSE, menu |-> 0, userid |-> 0, callback |-> FALSE]
Count(m) == Len(Menus[m.menu])
EntryAt(m, k) == IF k < Count(m) THEN Menus[m.menu][k + 1] ELSE End
Entry(m) == EntryAt(m, m.current)

\* ux_menu_display: an entry one past the last is taken.
MenuDisplay(asked, menu, current) ==
    [menu |-> menu, called |-> FALSE,
     current |-> CASE asked = Unchanged -> current
                   [] asked # Unchanged /\ asked > Len(Menus[menu]) -> 0
                   [] OTHER -> asked]

\* ux_menu_elements_button: a menu comes before a callback.
MenuButton(m, button) ==
    CASE button = "both" /\ Entry(m).menu # 0 -> MenuDisplay(Entry(m).userid, Entry(m).menu, m.current)
      [] button = "both" /\ Entry(m).menu = 0 /\ Entry(m).callback -> [m EXCEPT !.called = TRUE]
      [] button = "left" /\ m.current # 0 -> [m EXCEPT !.current = @ - 1]
      [] button = "right" /\ m.current < Count(m) - 1 -> [m EXCEPT !.current = @ + 1]
      [] OTHER -> m

\* ux_menu_element_preprocessor: the elements it lets be drawn, and what they show.
Plain(entry) == ~entry.line2 /\ ~entry.icon
MenuShown(m) == LET e == Entry(m) IN
    {x \in {"up", "down", "previous", "next", "icon", "line", "line1", "line2"} :
        CASE x = "up" -> m.current # 0
          [] x = "down" -> m.current # Count(m) - 1
          [] x = "previous" -> Plain(e) /\ m.current # 0 /\ Count(m) # 1 /\ Plain(EntryAt(m, m.current - 1))
          [] x = "next" -> Plain(e) /\ m.current < Count(m) - 1 /\ ~EntryAt(m, m.current + 1).icon
          [] x = "icon" -> e.icon
          [] x = "line" -> ~e.line2
          [] OTHER -> e.line2}

(*---------------------------------------------------------------------------*)
(* The turner: the step shown, and the time it has left.  A step one past the  *)
(* last would be taken too; the model is not asked for it.                    *)
TurnerDisplay(asked, steps, step) ==
    LET s == IF asked = Unchanged THEN step ELSE IF asked > Len(steps) THEN 0 ELSE asked
    IN [step |-> s, left |-> steps[s + 1]]
TurnerTicker(t, steps, elapsed) ==
    LET left == IF elapsed < t.left THEN t.left - elapsed ELSE 0
        next == (t.step + 1) % Len(steps)
    IN IF left > 0 THEN [t EXCEPT !.left = left]
       ELSE [step |-> next, left |-> steps[next + 1]]
=================================================================================
