--------------------------- MODULE MCObjectGraph ---------------------------
(* Small instances of ObjectGraph: an unnamed workspace in a window and a named one, shown or not. *)
EXTENDS ObjectGraph

CONSTANTS w1, w2, w3, t1, t2, t3, t4, t5, b1, b2, b3, b4, b5, win1, win2, win3, c1, c2

Row(ts, pins, act, nam) == [tabs |-> ts, pinned |-> pins, active |-> act, named |-> nam]
Leaf(up) == [parent |-> up, subs |-> <<>>]

\* w1 with two tabs in win1; w2, named, with a pinned tab, free to be claimed.
OneWindow ==
    [workspaces |-> [w \in Workspace |-> CASE w = w1 -> Row(<<t1, t2>>, <<>>, t2, FALSE)
                                           [] w = w2 -> Row(<<>>, <<t3>>, t3, TRUE)
                                           [] OTHER -> NoOid],
     tabs |-> [t \in Tab |-> CASE t = t1 -> <<b1>> [] t \in {t2, t3} -> <<>> [] OTHER -> NoOid],
     layouts |-> {t1, t2, t3},
     blocks |-> [b \in Block |-> CASE b = b1 -> [parent |-> t1, subs |-> <<b2>>]
                                   [] b = b2 -> Leaf(b1)
                                   [] OTHER -> NoOid],
     windows |-> [w \in Window |-> IF w = win1 THEN w1 ELSE NoOid],
     client |-> <<win1>>]

\* Both workspaces are shown, and w1 has one tab with one block.
TwoWindows ==
    [OneWindow EXCEPT !.workspaces[w1] = Row(<<t1>>, <<>>, t1, FALSE),
                      !.tabs[t2] = NoOid,
                      !.layouts = {t1, t3},
                      !.blocks[b1] = Leaf(t1),
                      !.blocks[b2] = NoOid,
                      !.windows[win2] = w2,
                      !.client = <<win1, win2>>]

MCGraphs == {OneWindow, TwoWindows}
=============================================================================
