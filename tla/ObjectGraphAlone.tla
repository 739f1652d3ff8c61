-------------------------- MODULE ObjectGraphAlone --------------------------
(***************************************************************************)
(* A proof about ObjectGraph, for any ids and any sound database to start  *)
(* with: as long as no two calls run at the same time nothing becomes      *)
(* stale at all, although wcore's functions call each other and read and   *)
(* write the same rows, and what a call leaves agrees.                     *)
(*                                                                         *)
(* On top of the invariant of ObjectGraphProofs a second one follows the   *)
(* stack of the one call that runs: what its running function read still   *)
(* is what the row holds, and a function that waits has only those above   *)
(* it that leave what it read alone, or that delete what it has asked them *)
(* to delete.                                                              *)
(***************************************************************************)
EXTENDS ObjectGraphProofs

-----------------------------------------------------------------------------
(* What a function may do above another, and what it knows meanwhile.      *)

BlockAts == {"DeleteBlock", "deleteBlockObj"}
TabAts   == {"DeleteTab", "DeleteTab:tab", "DeleteTab:blocks"}
GoneAts  == {"DeleteTab:delete", "DeleteTab:layout"}
DeleteAts == BlockAts \cup TabAts \cup GoneAts \cup
             {"DeleteBlock:tab", "DeleteTab:window", "CloseWindow", "CloseWindow:delete",
              "CloseWindow:client", "CloseWindow:update", "DeleteWorkspace", "ListWorkspaces",
              "ListWindows", "DeleteWorkspace:tabs", "DeleteWorkspace:delete"}
CreateAts == {"CreateWorkspace", "CreateWorkspace:update", "UpdateWorkspace", "writeBack",
              "CreateTab", "createTabObj", "createTabObj:insert", "createTabObj:list",
              "SetActiveTab", "SetActiveTab:tab", "CreateTab:layout", "GetLayoutIdForTab",
              "QueueLayoutAction"}

\* What may run above a function that waits: the deletion of a tab deletes
\* blocks only, that of a workspace its tabs, and the creation of a window
\* deletes nothing.
OnlyBlocks(f) == f.at \in BlockAts /\ ~f.recursive
OnlyTabs(f, ws) ==
    \/ OnlyBlocks(f)
    \/ f.at \in TabAts /\ ~f.recursive /\ f.ws = ws
    \/ f.at \in GoneAts /\ ~f.close /\ f.ws = ws
Above(x, f) ==
    /\ x.at = "DeleteTab:blocks" => OnlyBlocks(f)
    /\ x.at = "DeleteWorkspace:tabs" => OnlyTabs(f, x.ws)
    /\ x.at = "CloseWindow:delete" => f.at \in DeleteAts
    /\ x.at = "CreateWindow:insert" => f.at \in CreateAts

\* What a running function has read is still so.
Reads(f) ==
    /\ f.at \in {"DeleteTab:tab", "ListWorkspaces", "ListWindows", "createTabObj:insert",
                 "createTabObj:list", "SetActiveTab:tab", "writeBack"}
          => f.read = workspaces[f.ws]
    /\ f.at = "DeleteTab:delete" => tabs[f.tab] = <<>>
    /\ f.at \in GoneAts => f.tab \notin Listed(workspaces[f.ws])
    /\ f.at = "DeleteWorkspace:delete" =>
          /\ workspaces[f.ws] # NoOid => Listed(workspaces[f.ws]) = {}
          /\ f.window \in WindowsOf(f.ws)
    /\ f.at = "SetActiveTab" /\ workspaces[f.ws] # NoOid => f.tab \in Listed(workspaces[f.ws])
    /\ f.at = "SetActiveTab:tab" => f.tab \in Listed(f.read)
    /\ f.at = "writeBack" => f.new.active \in Listed(f.new) \cup {NoOid}
    /\ f.at = "UpdateTabIds" => f.seen = workspaces[f.ws]
    /\ f.at \in {"CloseWindow:update", "updateClient"} => f.read = client
    /\ f.at \in {"otherWindows", "updateWindow"} => f.read = windows[f.window]
    /\ f.at \in {"GetWindow", "otherWindows"} => workspaces[f.ws] # NoOid
    /\ f.at = "otherWindows" => f.ws # f.read
    /\ f.at = "updateWindow" /\ f.ws # f.read =>
          /\ workspaces[f.ws] # NoOid
          /\ \A w \in Existing(windows) : windows[w] # f.ws
    /\ f.at = "updateBlock" => f.read = blocks[f.block]

\* What the function f may rely on while a runs above it, or, if ok, when that
\* has returned: what it read is still there, but for what it has still to
\* delete, and for what a deletes.
Keeps(f, a, ok) ==
    /\ f.at = "DeleteTab:blocks" => f.read = workspaces[f.ws] /\ f.tab \in Listed(f.read)
    /\ f.at = "DeleteTab:blocks" /\ ok /\ tabs[f.tab] # NoOid =>
          \A b \in ToSet(tabs[f.tab]) : b \in ToSet(f.todo) \/ (a.at \in BlockAts /\ a.block = b)
    /\ f.at = "DeleteWorkspace:tabs" /\ ok /\ workspaces[f.ws] # NoOid =>
          \A t \in Listed(workspaces[f.ws]) :
             t \in ToSet(f.todo) \/ (a.at \in TabAts \cup GoneAts /\ a.tab = t)
    /\ f.at \in NewWindows =>
          windows[f.window] = NoOid /\ \A w \in Existing(windows) : windows[w] # f.ws
    /\ f.at = "CreateWindow:insert" /\ ok =>
          workspaces[f.ws] # NoOid \/ (a.at = "CreateWorkspace" /\ a.ws = f.ws)

\* The client lists the windows, but for the one that f works on.
WindowsListed(f) ==
    /\ \A w \in ToSet(client) :
          \/ windows[w] # NoOid
          \/ f.at \in {"CloseWindow:client", "CloseWindow:update"} /\ f.window = w
    /\ \A w \in Existing(windows) :
          \/ w \in ToSet(client)
          \/ f.at = "CreateWindow:client" /\ f.window = w
          \/ f.at = "updateClient"
    /\ f.at = "updateClient" => ToSet(f.new) = Existing(windows) /\ IsInjective(f.new)
    /\ f.at = "CreateWindow:client" => windows[f.window] # NoOid /\ f.window \notin ToSet(client)
    /\ f.at \in {"CloseWindow:client", "CloseWindow:update"} =>
          f.window = NoOid \/ windows[f.window] = NoOid

\* f closes the window w.
Closes(f, w) == f.at \in {"CloseWindow", "CloseWindow:delete"} /\ f.window = w

Ordered(p) == \A i, j \in DOMAIN stack[p] : i < j => Above(stack[p][j], stack[p][i])
Linked(p)  == \A j \in DOMAIN stack[p] : j > 1 => Keeps(stack[p][j], stack[p][j - 1], TRUE)
Ready(p)   == Keeps(Top(p), NoFrame, result[p] # "error")

\* Each window shows a workspace of its own that is there, unless its user
\* interface was told to claim another one, or the call closes it.
Shown(p) ==
    \A w \in Existing(windows) :
       /\ w \in told \/ workspaces[windows[w]] # NoOid \/ \E f \in FramesOf(p) : Closes(f, w)
       /\ \A v \in Existing(windows) \ {w} : windows[v] # windows[w]

ActiveListed ==
    \A w \in Existing(workspaces) : workspaces[w].active \in Listed(workspaces[w]) \cup {NoOid}

Alone(p) ==
    /\ \A q \in Call \ {p} : stack[q] = <<>>
    /\ Ordered(p) /\ Linked(p) /\ Ready(p)
    /\ Reads(Top(p)) /\ WindowsListed(Top(p)) /\ Shown(p)
    /\ ActiveListed /\ IsInjective(client)

AloneInv == ~overlap => ~stale /\ \E p \in Call : Alone(p)

-----------------------------------------------------------------------------
(* The stack of a call that runs alone                                     *)

LEMMA StackIs ==
    ASSUME TypeInv, NEW p \in Call
    PROVE  /\ stack[p] \in Seq(Frame) /\ DOMAIN stack[p] = 1 .. Len(stack[p]) /\ Len(stack[p]) \in Nat
           /\ \A j \in DOMAIN stack[p] : j > 1 => j - 1 \in DOMAIN stack[p] /\ stack[p][j] \in Under(p)
           /\ stack[p] # <<>> => 1 \in DOMAIN stack[p] /\ stack[p][1] = Top(p)
<1>1. stack[p] \in Seq(Frame)
  BY DEF TypeInv, StackOf
<1>2. DOMAIN stack[p] = 1 .. Len(stack[p]) /\ Len(stack[p]) \in Nat
  BY <1>1
<1>3. \A j \in DOMAIN stack[p] : j > 1 => j - 1 \in DOMAIN stack[p] /\ stack[p][j] \in Under(p)
  BY <1>2 DEF Under
<1>4. stack[p] # <<>> => 1 \in DOMAIN stack[p] /\ stack[p][1] = Top(p)
  BY <1>1, <1>2 DEF Top
<1> QED
  BY <1>1, <1>2, <1>3, <1>4

\* f is followed by g: what waits sees that of g which it saw of f.
Fits(f, g) == \A x : Above(x, f) => Above(x, g)

\* The rows change under the functions that wait.
Leaves(p, f) ==
    \A x \in Under(p) : \A a \in Under(p) :
       Above(x, f) /\ Above(x, a) /\ Keeps(x, a, TRUE) => Keeps(x, a, TRUE)'

Passes(p, f, g, ok) ==
    \A x \in Under(p) : Above(x, f) /\ Keeps(x, f, TRUE) => Keeps(x, g, ok)'

LEMMA GotoStack ==
    ASSUME TypeInv, NEW p \in Call, Ordered(p), Linked(p), stack[p] # <<>>,
           NEW f, f = Top(p), NEW g, Goto(p, g),
           Fits(f, g), Leaves(p, f), Passes(p, f, g, TRUE)
    PROVE  Ordered(p)' /\ Linked(p)' /\ Top(p)' = g /\ Under(p)' = Under(p)
           /\ \A q \in Call \ {p} : stack'[q] = stack[q]
<1>t. PICK t : t = <<g>> \o Tail(stack[p])
  OBVIOUS
<1>1. /\ stack[p] \in Seq(Frame) /\ DOMAIN stack[p] = 1 .. Len(stack[p]) /\ Len(stack[p]) \in Nat
      /\ \A j \in DOMAIN stack[p] : j > 1 => j - 1 \in DOMAIN stack[p] /\ stack[p][j] \in Under(p)
      /\ 1 \in DOMAIN stack[p] /\ stack[p][1] = f
  BY StackIs
<1>2. PICK s : s = stack[p]
  OBVIOUS
<1>3. /\ t # <<>> /\ DOMAIN t = DOMAIN s /\ t[1] = g
      /\ \A i \in DOMAIN s : i # 1 => t[i] = s[i]
  <2>1. s \in Seq(Frame \cup {g}) /\ g \in Frame \cup {g}
    BY <1>1, <1>2
  <2> QED
    BY <1>2, <2>1, <1>t, PutOne
<1>4. stack'[p] = t /\ \A q \in Call \ {p} : stack'[q] = stack[q]
  BY <1>t DEF Goto, TypeInv
<1>5. Ordered(p)'
  <2>1. ASSUME NEW i \in DOMAIN s, NEW j \in DOMAIN s, i < j PROVE Above(t[j], t[i])
    <3>1. i \in Nat /\ j \in Nat /\ j > 1 /\ i >= 1
      BY <1>1, <1>2, <2>1
    <3>2. t[j] = s[j] /\ Above(s[j], s[i])
      BY <1>1, <1>2, <1>3, <2>1, <3>1 DEF Ordered
    <3>3. CASE i = 1
      BY <3>2, <3>3, <1>1, <1>2, <1>3 DEF Fits
    <3>4. CASE i # 1
      BY <3>2, <3>4, <1>3
    <3> QED
      BY <3>3, <3>4
  <2> QED
    BY <2>1, <1>3, <1>4 DEF Ordered
<1>6. Linked(p)'
  <2>1. ASSUME NEW j \in DOMAIN s, j > 1 PROVE Keeps(t[j], t[j - 1], TRUE)'
    <3>1. /\ j \in Nat /\ j - 1 \in DOMAIN s /\ s[j] \in Under(p)
          /\ t[j] = s[j] /\ Above(s[j], s[j - 1]) /\ Keeps(s[j], s[j - 1], TRUE) /\ Above(s[j], s[1])
      <4>1. j \in Nat /\ j - 1 \in DOMAIN s /\ s[j] \in Under(p) /\ 1 \in DOMAIN s
        BY <1>1, <1>2, <2>1
      <4>2. t[j] = s[j] /\ j - 1 < j /\ 1 < j /\ j # 1
        BY <4>1, <1>3, <2>1
      <4>3. Above(s[j], s[j - 1]) /\ Above(s[j], s[1])
        BY <4>1, <4>2, <1>2 DEF Ordered
      <4>4. Keeps(s[j], s[j - 1], TRUE)
        BY <4>2, <1>2 DEF Linked
      <4> QED
        BY <4>1, <4>2, <4>3, <4>4
    <3>2. CASE j = 2
      <4>0. s[j - 1] = f /\ s[1] = f
        BY <3>2, <1>1, <1>2
      <4>1. Keeps(s[j], g, TRUE)'
        BY <3>1, <4>0 DEF Passes
      <4>2. t[j - 1] = g
        BY <3>2, <1>3
      <4> QED
        BY <3>1, <4>1, <4>2
    <3>3. CASE j # 2
      <4>1. j - 1 > 1
        BY <1>1, <1>2, <2>1, <3>3
      <4>2. s[j - 1] \in Under(p) /\ t[j - 1] = s[j - 1]
        <5>1. j - 1 # 1 /\ j - 1 \in DOMAIN s
          BY <4>1, <3>1
        <5>2. s[j - 1] \in Under(p)
          BY <5>1, <4>1, <1>1, <1>2
        <5> QED
          BY <5>1, <5>2, <1>3
      <4>3. Keeps(s[j], s[j - 1], TRUE)'
        BY <3>1, <4>2, <1>1, <1>2 DEF Leaves
      <4> QED
        BY <3>1, <4>2, <4>3
    <3> QED
      BY <3>2, <3>3
  <2>2. PICK u : u = t
    OBVIOUS
  <2>3. \A j \in DOMAIN u : j > 1 => Keeps(u[j], u[j - 1], TRUE)'
    BY <2>1, <2>2, <1>3
  <2> QED
    BY <2>2, <2>3, <1>4 DEF Linked
<1>7. Top(p)' = g
  BY <1>3, <1>4 DEF Top
<1>8. Under(p)' = Under(p)
  BY <1>2, <1>3, <1>4 DEF Under
<1> QED
  BY <1>4, <1>5, <1>6, <1>7, <1>8

LEMMA CallStack ==
    ASSUME TypeInv, NEW p \in Call, Ordered(p), Linked(p), stack[p] # <<>>,
           NEW f, f = Top(p), NEW g, NEW h, CallThen(p, g, h),
           Fits(f, g), Fits(f, h), Above(h, g), Leaves(p, f), Passes(p, f, h, TRUE),
           Keeps(h, g, TRUE)'
    PROVE  Ordered(p)' /\ Linked(p)' /\ Top(p)' = g /\ Under(p)' = Under(p) \cup {h}
           /\ \A q \in Call \ {p} : stack'[q] = stack[q]
<1>t. PICK t : t = <<g, h>> \o Tail(stack[p])
  OBVIOUS
<1>1. /\ stack[p] \in Seq(Frame) /\ DOMAIN stack[p] = 1 .. Len(stack[p]) /\ Len(stack[p]) \in Nat
      /\ \A j \in DOMAIN stack[p] : j > 1 => j - 1 \in DOMAIN stack[p] /\ stack[p][j] \in Under(p)
      /\ 1 \in DOMAIN stack[p] /\ stack[p][1] = f
  BY StackIs
<1>2. PICK s : s = stack[p]
  OBVIOUS
<1>3. /\ t # <<>> /\ DOMAIN t = 1 .. Len(s) + 1 /\ t[1] = g /\ t[2] = h
      /\ \A i \in DOMAIN t : i = 1 \/ i = 2 \/ (i - 1 \in DOMAIN s /\ i - 1 # 1 /\ t[i] = s[i - 1])
  <2>1. s \in Seq(Frame \cup {g, h}) /\ g \in Frame \cup {g, h} /\ h \in Frame \cup {g, h} /\ s # <<>>
    BY <1>1, <1>2
  <2>2. /\ t \in Seq(Frame \cup {g, h}) /\ t # <<>> /\ Len(t) = Len(s) + 1 /\ t[1] = g /\ t[2] = h
        /\ \A i \in DOMAIN t : i = 1 \/ i = 2 \/ (i - 1 \in DOMAIN s /\ i - 1 # 1 /\ t[i] = s[i - 1])
    BY <1>2, <2>1, <1>t, PutTwo
  <2> QED
    BY <2>2
<1>4. stack'[p] = t /\ \A q \in Call \ {p} : stack'[q] = stack[q]
  BY <1>t DEF CallThen, TypeInv
<1>5. Ordered(p)'
  <2>1. ASSUME NEW i \in DOMAIN t, NEW j \in DOMAIN t, i < j PROVE Above(t[j], t[i])
    <3>1. i \in Nat /\ j \in Nat /\ j > 1 /\ i >= 1
      BY <1>1, <1>2, <1>3, <2>1
    <3>2. CASE j = 2
      BY <3>1, <3>2, <2>1, <1>3
    <3>3. CASE j # 2
      <4>1. j - 1 \in DOMAIN s /\ j - 1 # 1 /\ t[j] = s[j - 1] /\ j - 1 > 1
        BY <1>1, <1>2, <1>3, <3>1, <3>3
      <4>2. Above(s[j - 1], f)
        BY <4>1, <1>1, <1>2 DEF Ordered
      <4>3. CASE i = 1 \/ i = 2
        BY <4>1, <4>2, <4>3, <1>3 DEF Fits
      <4>4. CASE i # 1 /\ i # 2
        <5>1. i - 1 \in DOMAIN s /\ t[i] = s[i - 1] /\ i - 1 < j - 1
          BY <4>4, <1>3, <2>1, <3>1
        <5> QED
          BY <5>1, <4>1, <1>2 DEF Ordered
      <4> QED
        BY <4>3, <4>4
    <3> QED
      BY <3>2, <3>3
  <2> QED
    BY <2>1, <1>4 DEF Ordered
<1>6. Linked(p)'
  <2>1. ASSUME NEW j \in DOMAIN t, j > 1 PROVE Keeps(t[j], t[j - 1], TRUE)'
    <3>1. CASE j = 2
      <4>1. t[j] = h /\ t[j - 1] = g
        BY <3>1, <1>3
      <4> QED
        BY <4>1
    <3>2. CASE j # 2
      <4>1. /\ j \in Nat /\ j - 1 \in DOMAIN s /\ j - 1 > 1 /\ t[j] = s[j - 1] /\ s[j - 1] \in Under(p)
            /\ Above(s[j - 1], s[(j - 1) - 1]) /\ Above(s[j - 1], f)
            /\ Keeps(s[j - 1], s[(j - 1) - 1], TRUE)
        <5>1. j \in Nat /\ j - 1 \in DOMAIN s /\ j - 1 > 1 /\ t[j] = s[j - 1]
          BY <1>1, <1>2, <1>3, <2>1, <3>2
        <5>2. s[j - 1] \in Under(p) /\ (j - 1) - 1 \in DOMAIN s /\ (j - 1) - 1 < j - 1
              /\ 1 < j - 1
          BY <5>1, <1>1, <1>2
        <5> QED
          BY <5>1, <5>2, <1>1, <1>2 DEF Ordered, Linked
      <4>2. CASE j = 3
        <5>1. t[j - 1] = h /\ s[(j - 1) - 1] = f
          BY <4>2, <1>1, <1>2, <1>3
        <5>2. Keeps(s[j - 1], h, TRUE)'
          BY <5>1, <4>1 DEF Passes
        <5> QED
          BY <5>1, <5>2, <4>1
      <4>3. CASE j # 3
        <5>1. j - 1 \in DOMAIN t /\ j - 1 # 1 /\ j - 1 # 2 /\ (j - 1) - 1 \in DOMAIN s
              /\ (j - 1) - 1 > 1
          BY <4>1, <4>3, <1>1, <1>2, <1>3
        <5>2. s[(j - 1) - 1] \in Under(p) /\ t[j - 1] = s[(j - 1) - 1]
          BY <5>1, <1>1, <1>2, <1>3
        <5>3. Keeps(s[j - 1], s[(j - 1) - 1], TRUE)'
          BY <4>1, <5>2 DEF Leaves
        <5> QED
          BY <4>1, <5>2, <5>3
      <4> QED
        BY <4>2, <4>3
    <3> QED
      BY <3>1, <3>2
  <2>2. PICK u : u = t
    OBVIOUS
  <2>3. \A j \in DOMAIN u : j > 1 => Keeps(u[j], u[j - 1], TRUE)'
    BY <2>1, <2>2
  <2> QED
    BY <2>2, <2>3, <1>4 DEF Linked
<1>7. Top(p)' = g
  BY <1>3, <1>4 DEF Top
<1>8. Under(p)' = Under(p) \cup {h}
  <2>1. Under(p)' \subseteq Under(p) \cup {h}
    BY <1>2, <1>3, <1>4 DEF Under
  <2>2. h \in Under(p)'
    <3>1. 2 \in DOMAIN t
      BY <1>1, <1>2, <1>3
    <3> QED
      BY <3>1, <1>3, <1>4 DEF Under
  <2>3. ASSUME NEW x \in Under(p) PROVE x \in Under(p)'
    <3>1. PICK i \in DOMAIN s : i # 1 /\ x = s[i]
      BY <1>2 DEF Under
    <3>2. i + 1 \in DOMAIN t /\ i + 1 # 1 /\ i + 1 # 2 /\ (i + 1) - 1 = i
      BY <3>1, <1>1, <1>2, <1>3
    <3>3. t[i + 1] = s[i]
      BY <3>2, <1>3
    <3> QED
      BY <3>1, <3>2, <3>3, <1>4 DEF Under
  <2> QED
    BY <2>1, <2>2, <2>3
<1> QED
  BY <1>4, <1>5, <1>6, <1>7, <1>8

LEMMA ReturnStack ==
    ASSUME TypeInv, NEW p \in Call, Ordered(p), Linked(p), stack[p] # <<>>,
           NEW f, f = Top(p), stack' = [stack EXCEPT ![p] = Tail(@)],
           Leaves(p, f), NEW ok, Passes(p, f, NoFrame, ok)
    PROVE  /\ Ordered(p)' /\ Linked(p)'
           /\ \/ Top(p)' = NoFrame
              \/ \E x \in Under(p) : Top(p)' = x /\ Above(x, f) /\ Keeps(x, NoFrame, ok)'
           /\ FramesOf(p)' \subseteq Under(p) \cup {NoFrame} /\ Under(p) \subseteq FramesOf(p)'
           /\ \A q \in Call \ {p} : stack'[q] = stack[q]
<1>t. PICK t : t = Tail(stack[p])
  OBVIOUS
<1>1. /\ stack[p] \in Seq(Frame) /\ DOMAIN stack[p] = 1 .. Len(stack[p]) /\ Len(stack[p]) \in Nat
      /\ \A j \in DOMAIN stack[p] : j > 1 => j - 1 \in DOMAIN stack[p] /\ stack[p][j] \in Under(p)
      /\ 1 \in DOMAIN stack[p] /\ stack[p][1] = f
  BY StackIs
<1>2. PICK s : s = stack[p]
  OBVIOUS
<1>3. /\ t \in Seq(Frame) /\ DOMAIN t = 1 .. Len(s) - 1
      /\ \A i \in DOMAIN t : i + 1 \in DOMAIN s /\ t[i] = s[i + 1]
  BY <1>1, <1>2, <1>t
<1>4. stack'[p] = t /\ \A q \in Call \ {p} : stack'[q] = stack[q]
  BY <1>t DEF TypeInv
<1>5. Ordered(p)'
  <2>1. ASSUME NEW i \in DOMAIN t, NEW j \in DOMAIN t, i < j PROVE Above(t[j], t[i])
    <3>1. i + 1 \in DOMAIN s /\ j + 1 \in DOMAIN s /\ i + 1 < j + 1 /\ t[i] = s[i + 1]
          /\ t[j] = s[j + 1]
      BY <1>3, <2>1
    <3> QED
      BY <3>1, <1>2 DEF Ordered
  <2> QED
    BY <2>1, <1>4 DEF Ordered
<1>6. Linked(p)'
  <2>1. ASSUME NEW j \in DOMAIN t, j > 1 PROVE Keeps(t[j], t[j - 1], TRUE)'
    <3>1. /\ j + 1 \in DOMAIN s /\ (j + 1) - 1 = j /\ j \in DOMAIN s /\ 1 < j + 1 /\ j < j + 1
          /\ t[j] = s[j + 1] /\ t[j - 1] = s[j]
      <4>1. j \in Nat /\ j - 1 \in DOMAIN t /\ (j - 1) + 1 = j
        BY <1>3, <2>1
      <4>2. t[j - 1] = s[j] /\ t[j] = s[j + 1] /\ j + 1 \in DOMAIN s
        BY <4>1, <1>3
      <4>3. j \in DOMAIN s /\ 1 < j + 1 /\ j < j + 1 /\ (j + 1) - 1 = j
        <5>1. j + 1 \in 1 .. Len(s) /\ Len(s) \in Nat /\ DOMAIN s = 1 .. Len(s)
          BY <4>2, <1>1, <1>2
        <5> QED
          BY <4>1, <5>1, <2>1
      <4> QED
        BY <4>2, <4>3
    <3>2. s[j + 1] \in Under(p) /\ s[j] \in Under(p)
      BY <3>1, <2>1, <1>1, <1>2
    <3>3. Above(s[j + 1], s[j]) /\ Above(s[j + 1], f) /\ Keeps(s[j + 1], s[j], TRUE)
      BY <3>1, <1>1, <1>2 DEF Ordered, Linked
    <3>4. Keeps(s[j + 1], s[j], TRUE)'
      BY <3>2, <3>3 DEF Leaves
    <3> QED
      BY <3>1, <3>4
  <2>2. PICK u : u = t
    OBVIOUS
  <2>3. \A j \in DOMAIN u : j > 1 => Keeps(u[j], u[j - 1], TRUE)'
    BY <2>1, <2>2
  <2> QED
    BY <2>2, <2>3, <1>4 DEF Linked
<1>7. \/ Top(p)' = NoFrame
      \/ \E x \in Under(p) : Top(p)' = x /\ Above(x, f) /\ Keeps(x, NoFrame, ok)'
  <2>1. CASE t = <<>>
    BY <2>1, <1>4 DEF Top
  <2>2. CASE t # <<>>
    <3>1. 1 \in DOMAIN t /\ 2 \in DOMAIN s /\ t[1] = s[2]
      <4>1. 1 \in DOMAIN t
        BY <2>2, <1>3
      <4> QED
        BY <4>1, <1>3
    <3>2. PICK x : x = s[2]
      OBVIOUS
    <3>3. x \in Under(p) /\ Above(x, f) /\ Keeps(x, f, TRUE)
      <4>1. 1 \in DOMAIN s /\ s[1] = f /\ 2 > 1 /\ 2 - 1 = 1 /\ 1 < 2
        BY <1>1, <1>2
      <4>2. x \in Under(p)
        BY <3>1, <3>2, <4>1, <1>1, <1>2
      <4>3. Above(s[2], s[1])
        BY <3>1, <4>1, <1>2 DEF Ordered
      <4>4. Keeps(s[2], s[2 - 1], TRUE)
        BY <3>1, <4>1, <1>2 DEF Linked
      <4> QED
        BY <3>2, <4>1, <4>2, <4>3, <4>4
    <3>4. Keeps(x, NoFrame, ok)'
      BY <3>3 DEF Passes
    <3>5. Top(p)' = x
      BY <2>2, <3>1, <3>2, <1>4 DEF Top
    <3> QED
      BY <3>3, <3>4, <3>5
  <2> QED
    BY <2>1, <2>2
<1>8. Under(p)' \subseteq Under(p)
  <2>1. ASSUME NEW i \in DOMAIN t PROVE t[i] \in Under(p)
    <3>1. i + 1 \in DOMAIN s /\ i + 1 > 1 /\ t[i] = s[i + 1]
      BY <1>3
    <3> QED
      BY <3>1, <1>1, <1>2
  <2> QED
    BY <2>1, <1>4 DEF Under
<1>9. Under(p) \subseteq FramesOf(p)'
  <2>1. ASSUME NEW x \in Under(p) PROVE x \in FramesOf(p)'
    <3>1. PICK i \in DOMAIN s : i # 1 /\ x = s[i]
      BY <1>2 DEF Under
    <3>2. i - 1 \in DOMAIN t /\ (i - 1) + 1 = i
      BY <3>1, <1>1, <1>2, <1>3
    <3>3. x = t[i - 1] /\ t # <<>>
      BY <3>1, <3>2, <1>3
    <3>4. Top(p)' = t[1]
      BY <3>3, <1>4 DEF Top
    <3> QED
      BY <3>2, <3>3, <3>4, <1>4 DEF FramesOf, Under
  <2> QED
    BY <2>1
<1> QED
  BY <1>4, <1>5, <1>6, <1>7, <1>8, <1>9 DEF FramesOf

LEMMA PanicStack ==
    ASSUME TypeInv, NEW p \in Call, stack' = [stack EXCEPT ![p] = <<>>]
    PROVE  /\ Ordered(p)' /\ Linked(p)' /\ Top(p)' = NoFrame /\ FramesOf(p)' = {NoFrame}
           /\ \A q \in Call \ {p} : stack'[q] = stack[q]
<1>1. stack'[p] = <<>> /\ \A q \in Call \ {p} : stack'[q] = stack[q]
  BY DEF TypeInv
<1>2. DOMAIN <<>> = {}
  OBVIOUS
<1>3. Ordered(p)' /\ Linked(p)' /\ Top(p)' = NoFrame /\ Under(p)' = {}
  BY <1>1, <1>2 DEF Ordered, Linked, Top, Under
<1> QED
  BY <1>1, <1>3 DEF FramesOf

-----------------------------------------------------------------------------
(* Steps that leave the rows as they are                                   *)

\* g goes on where f was: what waits for f waits for g.
TakesOver(f, g) ==
    /\ OnlyBlocks(f) => OnlyBlocks(g) /\ g.block = f.block
    /\ \A ws : OnlyTabs(f, ws) => OnlyTabs(g, ws)
    /\ \A ws : f.at \in TabAts \cup GoneAts /\ OnlyTabs(f, ws) =>
                  g.at \in TabAts \cup GoneAts /\ g.tab = f.tab
    /\ f.at \in DeleteAts => g.at \in DeleteAts
    /\ f.at \in CreateAts => g.at \in CreateAts
    /\ f.at # "CreateWorkspace"

\* The frames that the others say nothing of.
Free(f) == f.at \notin DeleteAts \cup CreateAts

LEMMA FreeFacts ==
    ASSUME NEW f, Free(f)
    PROVE  \A g : TakesOver(f, g)
BY DEF Free, TakesOver, OnlyBlocks, OnlyTabs, DeleteAts, CreateAts, BlockAts, TabAts, GoneAts

LEMMA TakesOverFits ==
    ASSUME NEW f, NEW g, TakesOver(f, g)
    PROVE  Fits(f, g)
<1>1. ASSUME NEW x, Above(x, f) PROVE Above(x, g)
  BY <1>1 DEF TakesOver, Above
<1> QED
  BY <1>1 DEF Fits

LEMMA TakesOverKeeps ==
    ASSUME NEW f, NEW g, TakesOver(f, g), NEW x, Above(x, f), Keeps(x, f, TRUE)
    PROVE  Keeps(x, g, TRUE)
<1>1. /\ x.at = "DeleteTab:blocks" => x.read = workspaces[x.ws] /\ x.tab \in Listed(x.read)
      /\ x.at \in NewWindows =>
            windows[x.window] = NoOid /\ \A w \in Existing(windows) : windows[w] # x.ws
  BY DEF Keeps
<1>2. ASSUME x.at = "DeleteTab:blocks", tabs[x.tab] # NoOid, NEW b \in ToSet(tabs[x.tab])
      PROVE  b \in ToSet(x.todo) \/ (g.at \in BlockAts /\ g.block = b)
  <2>1. OnlyBlocks(f) /\ OnlyBlocks(g) /\ g.block = f.block
    BY <1>2 DEF Above, TakesOver
  <2>2. b \in ToSet(x.todo) \/ (f.at \in BlockAts /\ f.block = b)
    BY <1>2 DEF Keeps
  <2> QED
    BY <2>1, <2>2 DEF OnlyBlocks
<1>3. ASSUME x.at = "DeleteWorkspace:tabs", workspaces[x.ws] # NoOid,
             NEW t \in Listed(workspaces[x.ws])
      PROVE  t \in ToSet(x.todo) \/ (g.at \in TabAts \cup GoneAts /\ g.tab = t)
  <2>1. OnlyTabs(f, x.ws)
    BY <1>3 DEF Above
  <2>2. t \in ToSet(x.todo) \/ (f.at \in TabAts \cup GoneAts /\ f.tab = t)
    BY <1>3 DEF Keeps
  <2> QED
    BY <2>1, <2>2 DEF TakesOver
<1>4. ASSUME x.at = "CreateWindow:insert" PROVE workspaces[x.ws] # NoOid
  BY <1>4 DEF Keeps, TakesOver
<1> QED
  BY <1>1, <1>2, <1>3, <1>4 DEF Keeps

\* What a function says of the windows and the client when it does not work
\* on them.
WindowAts == {"CloseWindow:client", "CloseWindow:update", "CreateWindow:client", "updateClient"}

LEMMA WindowsListedKept ==
    ASSUME NEW f, NEW g, WindowsListed(f), f.at \notin WindowAts, g.at \notin WindowAts
    PROVE  WindowsListed(g)
BY DEF WindowsListed, WindowAts

KeepAts == {"DeleteTab:blocks", "DeleteWorkspace:tabs"} \cup NewWindows
ReadAts == {"DeleteTab:tab", "ListWorkspaces", "ListWindows", "createTabObj:insert",
            "createTabObj:list", "SetActiveTab", "SetActiveTab:tab", "writeBack",
            "DeleteTab:delete", "DeleteTab:layout", "DeleteWorkspace:delete", "UpdateTabIds",
            "CloseWindow:update", "updateClient", "otherWindows", "updateWindow", "GetWindow",
            "updateBlock"}

LEMMA KeepsAny ==
    ASSUME NEW g, g.at \notin KeepAts
    PROVE  \A a, ok : Keeps(g, a, ok) /\ Keeps(g, a, ok)'
BY DEF Keeps, KeepAts, NewWindows

LEMMA ReadsAny ==
    ASSUME NEW g, g.at \notin ReadAts
    PROVE  Reads(g) /\ Reads(g)'
BY DEF Reads, ReadAts, GoneAts

LEMMA WaitsRead ==
    ASSUME NEW g, g.at \in Waits
    PROVE  g.at \notin ReadAts /\ g.at \notin WindowAts
BY DEF Waits, ReadAts, WindowAts

LEMMA NoFrameSays ==
    /\ NoFrame.at = "none" /\ NoFrame.at \notin KeepAts /\ NoFrame.at \notin ReadAts
    /\ NoFrame.at \notin WindowAts /\ \A w : ~Closes(NoFrame, w)
BY DEF NoFrame, KeepAts, NewWindows, ReadAts, WindowAts, Closes

LEMMA KeepsSame ==
    ASSUME NEW x, NEW a, NEW ok, UNCHANGED <<workspaces, tabs, windows>>
    PROVE  Keeps(x, a, ok)' <=> Keeps(x, a, ok)
BY DEF Keeps, Existing

LEMMA ReadsSame ==
    ASSUME NEW g, UNCHANGED <<workspaces, tabs, blocks, windows, client>>
    PROVE  Reads(g)' <=> Reads(g)
BY DEF Reads, Existing, WindowsOf

LEMMA ListedSame ==
    ASSUME NEW g, UNCHANGED <<windows, client>>
    PROVE  WindowsListed(g)' <=> WindowsListed(g)
BY DEF WindowsListed, Existing

LEMMA ShownKept ==
    ASSUME NEW p, Shown(p), UNCHANGED <<windows, told>>,
           \A w : workspaces[w] # NoOid => workspaces'[w] # NoOid,
           \A w \in Existing(windows) :
              (\E f \in FramesOf(p) : Closes(f, w)) => \E f \in FramesOf(p)' : Closes(f, w)
    PROVE  Shown(p)'
BY DEF Shown, Existing

LEMMA AloneIs ==
    ASSUME IInv, AloneInv, ~overlap, NEW p \in Call, stack[p] # <<>>
    PROVE  Alone(p) /\ ~stale
<1>1. PICK q \in Call : Alone(q)
  BY DEF AloneInv
<1>2. q = p
  BY <1>1 DEF Alone
<1> QED
  BY <1>1, <1>2 DEF AloneInv

LEMMA AtAlone ==
    ASSUME IInv, NEW p \in Call, Alone(p), ~stale, NEW a, At(p, a), NEW f, f = Top(p)
    PROVE  /\ TypeInv /\ stack[p] # <<>> /\ f = Head(stack[p]) /\ f \in FrameOf(a) /\ f.at = a
           /\ RowsInv /\ CallsInv /\ TopInv(f) /\ RowInv(f)
           /\ Reads(f) /\ WindowsListed(f) /\ Keeps(f, NoFrame, result[p] # "error")
BY AtFacts DEF Alone, Ready

\* The rows stay, and p goes on with g.
LEMMA QuietGoto ==
    ASSUME IInv, NEW p \in Call, Alone(p), ~stale, stack[p] # <<>>, NEW f, f = Top(p),
           NEW g, Goto(p, g), UNCHANGED <<workspaces, tabs, blocks, windows, client, told, stale>>,
           TakesOver(f, g), NEW ok, ok = (result'[p] # "error"),
           Keeps(g, NoFrame, ok), Reads(g), WindowsListed(g),
           \A w \in Existing(windows) : Closes(f, w) => Closes(g, w)
    PROVE  ~stale' /\ Alone(p)'
<1>1. TypeInv /\ Ordered(p) /\ Linked(p) /\ \A q \in Call \ {p} : stack[q] = <<>>
  BY DEF IInv, Alone
<1>2. Fits(f, g)
  BY TakesOverFits
<1>3. Leaves(p, f)
  BY KeepsSame DEF Leaves
<1>4. Passes(p, f, g, TRUE)
  BY TakesOverKeeps, KeepsSame DEF Passes
<1>5. /\ Ordered(p)' /\ Linked(p)' /\ Top(p)' = g /\ Under(p)' = Under(p)
      /\ \A q \in Call \ {p} : stack'[q] = stack[q]
  BY <1>1, <1>2, <1>3, <1>4, GotoStack
<1>6. Ready(p)'
  BY <1>5, KeepsSame DEF Ready
<1>7. Reads(Top(p))' /\ WindowsListed(Top(p))'
  <2>1. Reads(g)' /\ WindowsListed(g)'
    BY ReadsSame, ListedSame
  <2> QED
    BY <1>5, <2>1 DEF Reads, WindowsListed
<1>8. Shown(p)'
  <2>1. \A w \in Existing(windows) :
           (\E h \in FramesOf(p) : Closes(h, w)) => \E h \in FramesOf(p)' : Closes(h, w)
    BY <1>5 DEF FramesOf
  <2> QED
    BY <2>1, ShownKept DEF Alone
<1>9. ActiveListed' /\ IsInjective(client)'
  BY DEF Alone, ActiveListed, Existing
<1> QED
  BY <1>1, <1>5, <1>6, <1>7, <1>8, <1>9 DEF Alone

\* The rows stay, and p calls g.
LEMMA QuietCall ==
    ASSUME IInv, NEW p \in Call, Alone(p), ~stale, stack[p] # <<>>, NEW f, f = Top(p),
           NEW g, NEW h, CallThen(p, g, h),
           UNCHANGED <<workspaces, tabs, blocks, windows, client, told, stale>>,
           TakesOver(f, h), Fits(f, g), Above(h, g), Keeps(h, g, TRUE),
           NEW ok, ok = (result'[p] # "error"),
           Keeps(g, NoFrame, ok), Reads(g), WindowsListed(g),
           \A w \in Existing(windows) : Closes(f, w) => Closes(g, w) \/ Closes(h, w)
    PROVE  ~stale' /\ Alone(p)'
<1>1. TypeInv /\ Ordered(p) /\ Linked(p) /\ \A q \in Call \ {p} : stack[q] = <<>>
  BY DEF IInv, Alone
<1>2. Fits(f, h)
  BY TakesOverFits
<1>3. Leaves(p, f)
  BY KeepsSame DEF Leaves
<1>4. Passes(p, f, h, TRUE)
  BY TakesOverKeeps, KeepsSame DEF Passes
<1>5. /\ Ordered(p)' /\ Linked(p)' /\ Top(p)' = g /\ Under(p)' = Under(p) \cup {h}
      /\ \A q \in Call \ {p} : stack'[q] = stack[q]
  BY <1>1, <1>2, <1>3, <1>4, CallStack, KeepsSame
<1>6. Ready(p)'
  BY <1>5, KeepsSame DEF Ready
<1>7. Reads(Top(p))' /\ WindowsListed(Top(p))'
  <2>1. Reads(g)' /\ WindowsListed(g)'
    BY ReadsSame, ListedSame
  <2> QED
    BY <1>5, <2>1 DEF Reads, WindowsListed
<1>8. Shown(p)'
  <2>1. \A w \in Existing(windows) :
           (\E e \in FramesOf(p) : Closes(e, w)) => \E e \in FramesOf(p)' : Closes(e, w)
    BY <1>5 DEF FramesOf
  <2> QED
    BY <2>1, ShownKept DEF Alone
<1>9. ActiveListed' /\ IsInjective(client)'
  BY DEF Alone, ActiveListed, Existing
<1> QED
  BY <1>1, <1>5, <1>6, <1>7, <1>8, <1>9 DEF Alone

\* A function that has waited goes on: it reads afresh.
LEMMA ReturnRest ==
    ASSUME TypeInv, NEW p \in Call, NEW f, f = Top(p), Return(p, "ok") \/ Return(p, "error"),
           stack[p] # <<>>, Ordered(p), Linked(p), Leaves(p, f),
           NEW ok, ok = (result'[p] # "error"), Passes(p, f, NoFrame, ok)
    PROVE  /\ Ordered(p)' /\ Linked(p)' /\ Ready(p)' /\ Reads(Top(p))'
           /\ Top(p)' \in Under(p) \cup {NoFrame} /\ Top(p)'.at \notin WindowAts
           /\ FramesOf(p)' \subseteq Under(p) \cup {NoFrame} /\ Under(p) \subseteq FramesOf(p)'
           /\ \A q \in Call \ {p} : stack'[q] = stack[q]
<1>1. stack' = [stack EXCEPT ![p] = Tail(@)]
  BY DEF Return
<1>2. /\ Ordered(p)' /\ Linked(p)'
      /\ \/ Top(p)' = NoFrame
         \/ \E x \in Under(p) : Top(p)' = x /\ Above(x, f) /\ Keeps(x, NoFrame, ok)'
      /\ FramesOf(p)' \subseteq Under(p) \cup {NoFrame} /\ Under(p) \subseteq FramesOf(p)'
      /\ \A q \in Call \ {p} : stack'[q] = stack[q]
  BY <1>1, ReturnStack
<1>3. PICK g \in Under(p) \cup {NoFrame} : Top(p)' = g /\ Keeps(g, NoFrame, ok)'
  BY <1>2, NoFrameSays, KeepsAny
<1>4. g.at \notin ReadAts /\ g.at \notin WindowAts
  BY <1>3, UnderFacts, WaitsRead, NoFrameSays
<1>5. Reads(g)'
  BY <1>4, ReadsAny
<1>6. Reads(Top(p))' /\ Ready(p)'
  BY <1>3, <1>5 DEF Ready, Reads
<1> QED
  BY <1>2, <1>3, <1>4, <1>6

\* The rows stay, and p returns.
LEMMA QuietReturn ==
    ASSUME IInv, NEW p \in Call, Alone(p), ~stale, stack[p] # <<>>, NEW f, f = Top(p),
           Return(p, "ok") \/ Return(p, "error"),
           UNCHANGED <<workspaces, tabs, blocks, windows, client, told, stale>>,
           f.at \notin WindowAts,
           NEW ok, ok = (result'[p] # "error"),
           \A x \in Under(p) : Above(x, f) /\ Keeps(x, f, TRUE) => Keeps(x, NoFrame, ok),
           \A w \in Existing(windows) : ~Closes(f, w)
    PROVE  ~stale' /\ Alone(p)'
<1>1. TypeInv /\ Ordered(p) /\ Linked(p) /\ \A q \in Call \ {p} : stack[q] = <<>>
  BY DEF IInv, Alone
<1>2. Leaves(p, f) /\ Passes(p, f, NoFrame, ok)
  BY KeepsSame DEF Leaves, Passes
<1>3. /\ Ordered(p)' /\ Linked(p)' /\ Ready(p)' /\ Reads(Top(p))'
      /\ Top(p)' \in Under(p) \cup {NoFrame} /\ Top(p)'.at \notin WindowAts
      /\ FramesOf(p)' \subseteq Under(p) \cup {NoFrame} /\ Under(p) \subseteq FramesOf(p)'
      /\ \A q \in Call \ {p} : stack'[q] = stack[q]
  BY <1>1, <1>2, ReturnRest
<1>4. WindowsListed(Top(p))'
  <2>1. PICK g : g = Top(p)'
    OBVIOUS
  <2>2. WindowsListed(g)
    BY <2>1, <1>3, WindowsListedKept DEF Alone
  <2>3. WindowsListed(g)'
    BY <2>2, ListedSame
  <2> QED
    BY <2>1, <2>3 DEF WindowsListed
<1>5. Shown(p)'
  <2>1. ASSUME NEW w \in Existing(windows), \E e \in FramesOf(p) : Closes(e, w)
        PROVE  \E e \in FramesOf(p)' : Closes(e, w)
    <3>1. PICK e \in FramesOf(p) : Closes(e, w)
      BY <2>1
    <3>2. e # f
      BY <3>1 DEF Existing
    <3> QED
      BY <3>1, <3>2, <1>3 DEF FramesOf
  <2> QED
    BY <2>1 DEF Shown, Existing, Alone
<1>6. ActiveListed' /\ IsInjective(client)'
  BY DEF Alone, ActiveListed, Existing
<1> QED
  BY <1>1, <1>3, <1>4, <1>5, <1>6 DEF Alone

\* With an error, or by a function that no other has waited for.
LEMMA ReturnsError ==
    ASSUME NEW x, NEW f, Keeps(x, f, TRUE)
    PROVE  Keeps(x, NoFrame, FALSE)
BY DEF Keeps

LEMMA ReturnsOk ==
    ASSUME NEW x, NEW f, Keeps(x, f, TRUE),
           f.at \notin BlockAts \cup TabAts \cup GoneAts \cup {"CreateWorkspace"}
    PROVE  Keeps(x, NoFrame, TRUE)
BY DEF Keeps

\* The tab whose blocks a function deletes.
LEMMA BlocksTab ==
    ASSUME TypeInv, NEW p \in Call, NEW x \in Under(p), x.at = "DeleteTab:blocks"
    PROVE  x.tab \in Tab /\ x.ws \in Workspace /\ x.read \in WorkspaceRow /\ x.todo \in Seq(Block)
BY UnderFacts, FrameIs DEF FrameOf

\* The rows stay, and p ends.
LEMMA QuietPanic ==
    ASSUME IInv, NEW p \in Call, Alone(p), ~stale, stack[p] # <<>>, NEW f, f = Top(p), Panic(p),
           UNCHANGED <<workspaces, tabs, blocks, windows, client, told, stale>>,
           f.at \notin WindowAts \cup DeleteAts
    PROVE  ~stale' /\ Alone(p)'
<1>1. TypeInv /\ Ordered(p) /\ Linked(p) /\ \A q \in Call \ {p} : stack[q] = <<>>
  BY DEF IInv, Alone
<1>2. stack' = [stack EXCEPT ![p] = <<>>]
  BY DEF Panic
<1>3. /\ Ordered(p)' /\ Linked(p)' /\ Top(p)' = NoFrame /\ FramesOf(p)' = {NoFrame}
      /\ \A q \in Call \ {p} : stack'[q] = stack[q]
  BY <1>1, <1>2, PanicStack
<1>4. Ready(p)' /\ Reads(Top(p))'
  <2>1. \A ok : Keeps(NoFrame, NoFrame, ok)'
    BY NoFrameSays, KeepsAny
  <2>2. Reads(NoFrame)'
    BY NoFrameSays, ReadsAny
  <2> QED
    BY <1>3, <2>1, <2>2 DEF Ready, Reads
<1>5. WindowsListed(Top(p))'
  <2>1. WindowsListed(NoFrame)
    BY NoFrameSays, WindowsListedKept DEF Alone
  <2>2. WindowsListed(NoFrame)'
    BY <2>1, ListedSame
  <2> QED
    BY <1>3, <2>2 DEF WindowsListed
<1>6. Shown(p)'
  <2>1. ASSUME NEW e \in FramesOf(p), NEW w PROVE ~Closes(e, w)
    <3>1. CASE e = f
      BY <3>1 DEF Closes, DeleteAts
    <3>2. CASE e \in Under(p)
      <4>1. Above(e, f) /\ e.at \in Waits
        <5>1. PICK j \in DOMAIN stack[p] : j # 1 /\ stack[p][j] = e
          BY <3>2 DEF Under
        <5>2. 1 < j /\ 1 \in DOMAIN stack[p] /\ stack[p][1] = f
          BY <5>1, <1>1, StackIs
        <5> QED
          BY <5>1, <5>2, <1>1, <3>2, UnderFacts DEF Ordered
      <4> QED
        BY <4>1 DEF Above, Closes, Waits
    <3> QED
      BY <3>1, <3>2 DEF FramesOf
  <2> QED
    BY <2>1 DEF Shown, Existing, Alone
<1>7. ActiveListed' /\ IsInjective(client)'
  BY DEF Alone, ActiveListed, Existing
<1> QED
  BY <1>1, <1>3, <1>4, <1>5, <1>6, <1>7 DEF Alone

-----------------------------------------------------------------------------
(* A call alone: the actions that only read                                *)

LEMMA DeleteBlockAlone ==
    ASSUME IInv, NEW p \in Call, Alone(p), ~stale, DeleteBlock(p)
    PROVE  ~stale' /\ Alone(p)'
<1>f. PICK f : f = Top(p)
  OBVIOUS
<1>0. At(p, "DeleteBlock")
  BY DEF DeleteBlock
<1>1. /\ TypeInv /\ stack[p] # <<>> /\ f = Head(stack[p])
      /\ f \in FrameOf("DeleteBlock") /\ f.at = "DeleteBlock"
      /\ RowsInv /\ CallsInv /\ TopInv(f) /\ RowInv(f)
      /\ Reads(f) /\ WindowsListed(f) /\ Keeps(f, NoFrame, result[p] # "error")
  BY <1>0, <1>f, AtAlone
<1>2. f.block \in Block /\ f.recursive \in BOOLEAN
  BY <1>1 DEF FrameOf
<1>3. UNCHANGED <<workspaces, tabs, blocks, windows, client, told, stale>>
  BY DEF DeleteBlock, rows
<1>4. result \in [Call -> {"ok", "error", "panic"}]
  BY <1>1 DEF TypeInv, TypeOK
<1>5. CASE blocks[f.block] = NoOid
  <2>a. Return(p, "ok")
    BY <1>1, <1>5, <1>f DEF DeleteBlock
  <2>b. (result'[p] # "error") = TRUE
    BY <1>4, <2>a DEF Return
  <2>c. ASSUME NEW x \in Under(p), Above(x, f), Keeps(x, f, TRUE) PROVE Keeps(x, NoFrame, TRUE)
    <3>1. ASSUME x.at = "DeleteTab:blocks", tabs[x.tab] # NoOid, NEW b \in ToSet(tabs[x.tab])
          PROVE  b \in ToSet(x.todo)
      <4>1. x.tab \in Existing(tabs) /\ x.tab \in Tab
        BY <1>1, <3>1, BlocksTab, RowTypes DEF Existing
      <4>2. blocks[b] # NoOid
        BY <1>1, <3>1, <4>1 DEF RowsInv, NoDangling, ListedBy, Existing, graph
      <4> QED
        BY <1>5, <1>1, <2>c, <3>1, <4>2 DEF Keeps
    <3> QED
      BY <1>1, <2>c, <3>1 DEF Keeps, TabAts, GoneAts
  <2>d. f.at \notin WindowAts /\ \A w \in Existing(windows) : ~Closes(f, w)
    BY <1>1 DEF WindowAts, Closes
  <2> QED
    BY <1>1, <1>3, <1>f, <2>a, <2>b, <2>c, <2>d, QuietReturn
<1>6. CASE blocks[f.block] # NoOid
  <2> DEFINE g == [at |-> "deleteBlockObj", block |-> f.block, recursive |-> f.recursive,
         parent |-> blocks[f.block].parent, todo |-> blocks[f.block].subs]
  <2>a. g.at = "deleteBlockObj" /\ g.block = f.block /\ g.recursive = f.recursive
    BY <1>1, <1>2
  <2>b. Goto(p, g) /\ result' = [result EXCEPT ![p] = "ok"]
    BY <1>1, <1>6, <1>f DEF DeleteBlock
  <2>c. (result'[p] # "error") = TRUE
    BY <1>4, <2>b
  <2> HIDE DEF g
  <2>d. TakesOver(f, g)
    BY <1>1, <2>a
       DEF TakesOver, OnlyBlocks, OnlyTabs, BlockAts, TabAts, GoneAts, DeleteAts, CreateAts
  <2>h. Keeps(g, NoFrame, TRUE)
    BY <2>a, KeepsAny DEF KeepAts, NewWindows
  <2>i. Reads(g)
    BY <2>a, ReadsAny DEF ReadAts
  <2>j. WindowsListed(g)
    BY <1>1, <2>a, WindowsListedKept DEF WindowAts
  <2>k. \A w \in Existing(windows) : Closes(f, w) => Closes(g, w)
    BY <1>1 DEF Closes
  <2> QED
    BY <1>1, <1>3, <1>f, <2>b, <2>c, <2>d, <2>h, <2>i, <2>j, <2>k, QuietGoto
<1> QED
  BY <1>5, <1>6

LEMMA DeleteSubBlockAlone ==
    ASSUME IInv, NEW p \in Call, Alone(p), ~stale, DeleteSubBlock(p)
    PROVE  ~stale' /\ Alone(p)'
<1>f. PICK f : f = Top(p)
  OBVIOUS
<1>0. At(p, "deleteBlockObj")
  BY DEF DeleteSubBlock
<1>1. /\ TypeInv /\ stack[p] # <<>> /\ f = Head(stack[p])
      /\ f \in FrameOf("deleteBlockObj") /\ f.at = "deleteBlockObj"
      /\ RowsInv /\ CallsInv /\ TopInv(f) /\ RowInv(f)
      /\ Reads(f) /\ WindowsListed(f) /\ Keeps(f, NoFrame, result[p] # "error")
  BY <1>0, <1>f, AtAlone
<1>2. f.block \in Block /\ f.recursive \in BOOLEAN
  BY <1>1 DEF FrameOf
<1>3. UNCHANGED <<workspaces, tabs, blocks, windows, client, told, stale>>
  BY DEF DeleteSubBlock, rows
<1>4. result \in [Call -> {"ok", "error", "panic"}]
  BY <1>1 DEF TypeInv, TypeOK
<1> DEFINE g == [at |-> "DeleteBlock", block |-> Head(f.todo), recursive |-> f.recursive]
          h == [f EXCEPT !.todo = Tail(@)]
<1>a. g.at = "DeleteBlock" /\ g.recursive = f.recursive /\ h.at = "deleteBlockObj"
      /\ h.block = f.block /\ h.recursive = f.recursive
  BY <1>1 DEF FrameOf
<1>b. CallThen(p, g, h) /\ UNCHANGED result
  BY <1>1, <1>f DEF DeleteSubBlock
<1>c. (result'[p] # "error") = (result[p] # "error")
  BY <1>4, <1>b
<1> HIDE DEF g, h
<1>d. TakesOver(f, h)
  BY <1>1, <1>a
     DEF TakesOver, OnlyBlocks, OnlyTabs, BlockAts, TabAts, GoneAts, DeleteAts, CreateAts
<1>e. Fits(f, g)
  BY <1>1, <1>2, <1>a
     DEF Fits, Above, OnlyBlocks, OnlyTabs, BlockAts, TabAts, GoneAts, DeleteAts, CreateAts
<1>u. Above(h, g)
  BY <1>a DEF Above
<1>g. Keeps(h, g, TRUE)
  BY <1>a, KeepsAny DEF KeepAts, NewWindows
<1>h. Keeps(g, NoFrame, (result[p] # "error"))
  BY <1>a, KeepsAny DEF KeepAts, NewWindows
<1>i. Reads(g)
  BY <1>a, ReadsAny DEF ReadAts
<1>j. WindowsListed(g)
  BY <1>1, <1>a, WindowsListedKept DEF WindowAts
<1>k. \A w \in Existing(windows) : Closes(f, w) => Closes(h, w)
  BY <1>1 DEF Closes
<1> QED
  BY <1>1, <1>3, <1>f, <1>b, <1>c, <1>d, <1>e, <1>u, <1>g, <1>h, <1>i, <1>j, <1>k, QuietCall

LEMMA DeleteEmptyTabAlone ==
    ASSUME IInv, NEW p \in Call, Alone(p), ~stale, DeleteEmptyTab(p)
    PROVE  ~stale' /\ Alone(p)'
<1>f. PICK f : f = Top(p)
  OBVIOUS
<1>0. At(p, "DeleteBlock:tab")
  BY DEF DeleteEmptyTab
<1>1. /\ TypeInv /\ stack[p] # <<>> /\ f = Head(stack[p])
      /\ f \in FrameOf("DeleteBlock:tab") /\ f.at = "DeleteBlock:tab"
      /\ RowsInv /\ CallsInv /\ TopInv(f) /\ RowInv(f)
      /\ Reads(f) /\ WindowsListed(f) /\ Keeps(f, NoFrame, result[p] # "error")
  BY <1>0, <1>f, AtAlone
<1>2. f.tab \in Tab
  BY <1>1 DEF FrameOf
<1>3. UNCHANGED <<workspaces, tabs, blocks, windows, client, told, stale>>
  BY DEF DeleteEmptyTab, rows
<1>4. result \in [Call -> {"ok", "error", "panic"}]
  BY <1>1 DEF TypeInv, TypeOK
<1>p. PICK v : Goto(p, [at |-> "DeleteTab", ws |-> v, tab |-> f.tab, recursive |-> TRUE])
  BY <1>1, <1>f DEF DeleteEmptyTab
<1> DEFINE g == [at |-> "DeleteTab", ws |-> v, tab |-> f.tab, recursive |-> TRUE]
<1>a. g.at = "DeleteTab"
  BY <1>1, <1>2
<1>b. Goto(p, g) /\ UNCHANGED result
  BY <1>p, <1>1, <1>f DEF DeleteEmptyTab
<1>c. (result'[p] # "error") = (result[p] # "error")
  BY <1>4, <1>b
<1> HIDE DEF g
<1>d. TakesOver(f, g)
  BY <1>1, <1>a
     DEF TakesOver, OnlyBlocks, OnlyTabs, BlockAts, TabAts, GoneAts, DeleteAts, CreateAts
<1>h. Keeps(g, NoFrame, (result[p] # "error"))
  BY <1>a, KeepsAny DEF KeepAts, NewWindows
<1>i. Reads(g)
  BY <1>a, ReadsAny DEF ReadAts
<1>j. WindowsListed(g)
  BY <1>1, <1>a, WindowsListedKept DEF WindowAts
<1>k. \A w \in Existing(windows) : Closes(f, w) => Closes(g, w)
  BY <1>1 DEF Closes
<1> QED
  BY <1>1, <1>3, <1>f, <1>b, <1>c, <1>d, <1>h, <1>i, <1>j, <1>k, QuietGoto

LEMMA DeleteTabAlone ==
    ASSUME IInv, NEW p \in Call, Alone(p), ~stale, DeleteTab(p)
    PROVE  ~stale' /\ Alone(p)'
<1>f. PICK f : f = Top(p)
  OBVIOUS
<1>0. At(p, "DeleteTab")
  BY DEF DeleteTab
<1>1. /\ TypeInv /\ stack[p] # <<>> /\ f = Head(stack[p])
      /\ f \in FrameOf("DeleteTab") /\ f.at = "DeleteTab"
      /\ RowsInv /\ CallsInv /\ TopInv(f) /\ RowInv(f)
      /\ Reads(f) /\ WindowsListed(f) /\ Keeps(f, NoFrame, result[p] # "error")
  BY <1>0, <1>f, AtAlone
<1>2. f.ws \in Workspace \cup {NoOid} /\ f.tab \in Tab /\ f.recursive \in BOOLEAN
  BY <1>1 DEF FrameOf
<1>3. UNCHANGED <<workspaces, tabs, blocks, windows, client, told, stale>>
  BY DEF DeleteTab, rows
<1>4. result \in [Call -> {"ok", "error", "panic"}]
  BY <1>1 DEF TypeInv, TypeOK
<1>5. CASE f.ws = NoOid \/ workspaces[f.ws] = NoOid \/ f.tab \notin Listed(workspaces[f.ws])
  <2>a. Return(p, "error")
    BY <1>1, <1>5, <1>f DEF DeleteTab
  <2>b. (result'[p] # "error") = FALSE
    BY <1>4, <2>a DEF Return
  <2>c. \A x \in Under(p) : Above(x, f) /\ Keeps(x, f, TRUE) => Keeps(x, NoFrame, FALSE)
    BY ReturnsError
  <2>d. f.at \notin WindowAts /\ \A w \in Existing(windows) : ~Closes(f, w)
    BY <1>1 DEF WindowAts, Closes
  <2> QED
    BY <1>1, <1>3, <1>f, <2>a, <2>b, <2>c, <2>d, QuietReturn
<1>6. CASE f.ws # NoOid /\ workspaces[f.ws] # NoOid /\ f.tab \in Listed(workspaces[f.ws])
  <2> DEFINE g == [at |-> "DeleteTab:tab", ws |-> f.ws, tab |-> f.tab,
         recursive |-> f.recursive, read |-> workspaces[f.ws]]
  <2>a. g.at = "DeleteTab:tab" /\ g.ws = f.ws /\ g.tab = f.tab /\ g.recursive = f.recursive
        /\ g.read = workspaces[f.ws]
    BY <1>1, <1>2
  <2>b. Goto(p, g) /\ UNCHANGED result
    BY <1>1, <1>6, <1>f DEF DeleteTab
  <2>c. (result'[p] # "error") = (result[p] # "error")
    BY <1>4, <2>b
  <2> HIDE DEF g
  <2>d. TakesOver(f, g)
    BY <1>1, <2>a
       DEF TakesOver, OnlyBlocks, OnlyTabs, BlockAts, TabAts, GoneAts, DeleteAts, CreateAts
  <2>h. Keeps(g, NoFrame, (result[p] # "error"))
    BY <2>a, KeepsAny DEF KeepAts, NewWindows
  <2>i. Reads(g)
    BY <1>1, <1>2, <1>6, <2>a DEF Reads, GoneAts
  <2>j. WindowsListed(g)
    BY <1>1, <2>a, WindowsListedKept DEF WindowAts
  <2>k. \A w \in Existing(windows) : Closes(f, w) => Closes(g, w)
    BY <1>1 DEF Closes
  <2> QED
    BY <1>1, <1>3, <1>f, <2>b, <2>c, <2>d, <2>h, <2>i, <2>j, <2>k, QuietGoto
<1> QED
  BY <1>5, <1>6

LEMMA ReadTabAlone ==
    ASSUME IInv, NEW p \in Call, Alone(p), ~stale, ReadTab(p)
    PROVE  ~stale' /\ Alone(p)'
<1>f. PICK f : f = Top(p)
  OBVIOUS
<1>0. At(p, "DeleteTab:tab")
  BY DEF ReadTab
<1>1. /\ TypeInv /\ stack[p] # <<>> /\ f = Head(stack[p])
      /\ f \in FrameOf("DeleteTab:tab") /\ f.at = "DeleteTab:tab"
      /\ RowsInv /\ CallsInv /\ TopInv(f) /\ RowInv(f)
      /\ Reads(f) /\ WindowsListed(f) /\ Keeps(f, NoFrame, result[p] # "error")
  BY <1>0, <1>f, AtAlone
<1>2. f.ws \in Workspace /\ f.tab \in Tab /\ f.recursive \in BOOLEAN /\ f.read \in WorkspaceRow
  BY <1>1 DEF FrameOf
<1>3. UNCHANGED <<workspaces, tabs, blocks, windows, client, told, stale>>
  BY DEF ReadTab, rows
<1>4. result \in [Call -> {"ok", "error", "panic"}]
  BY <1>1 DEF TypeInv, TypeOK
<1> DEFINE g == [at |-> "DeleteTab:blocks", ws |-> f.ws, tab |-> f.tab, recursive |-> f.recursive,
       read |-> f.read, found |-> tabs[f.tab] # NoOid,
       todo |-> IF tabs[f.tab] = NoOid THEN <<>> ELSE tabs[f.tab]]
<1>a. /\ g.at = "DeleteTab:blocks" /\ g.ws = f.ws /\ g.tab = f.tab /\ g.recursive = f.recursive
      /\ g.read = f.read /\ (tabs[f.tab] # NoOid => g.todo = tabs[f.tab])
  BY <1>1, <1>2
<1>b. Goto(p, g) /\ result' = [result EXCEPT ![p] = "ok"]
  BY <1>1, <1>f DEF ReadTab
<1>c. (result'[p] # "error") = TRUE
  BY <1>4, <1>b
<1> HIDE DEF g
<1>d. TakesOver(f, g)
  BY <1>1, <1>a
     DEF TakesOver, OnlyBlocks, OnlyTabs, BlockAts, TabAts, GoneAts, DeleteAts, CreateAts
<1>h. Keeps(g, NoFrame, TRUE)
  <2>1. f.read = workspaces[f.ws] /\ f.tab \in Listed(f.read)
    BY <1>1 DEF Reads, RowInv
  <2> QED
    BY <1>a, <2>1 DEF Keeps, NewWindows
<1>i. Reads(g)
  BY <1>a, ReadsAny DEF ReadAts
<1>j. WindowsListed(g)
  BY <1>1, <1>a, WindowsListedKept DEF WindowAts
<1>k. \A w \in Existing(windows) : Closes(f, w) => Closes(g, w)
  BY <1>1 DEF Closes
<1> QED
  BY <1>1, <1>3, <1>f, <1>b, <1>c, <1>d, <1>h, <1>i, <1>j, <1>k, QuietGoto

LEMMA DeleteTabBlockAlone ==
    ASSUME IInv, NEW p \in Call, Alone(p), ~stale, DeleteTabBlock(p)
    PROVE  ~stale' /\ Alone(p)'
<1>f. PICK f : f = Top(p)
  OBVIOUS
<1>0. At(p, "DeleteTab:blocks")
  BY DEF DeleteTabBlock
<1>1. /\ TypeInv /\ stack[p] # <<>> /\ f = Head(stack[p])
      /\ f \in FrameOf("DeleteTab:blocks") /\ f.at = "DeleteTab:blocks"
      /\ RowsInv /\ CallsInv /\ TopInv(f) /\ RowInv(f)
      /\ Reads(f) /\ WindowsListed(f) /\ Keeps(f, NoFrame, result[p] # "error")
  BY <1>0, <1>f, AtAlone
<1>2. f.ws \in Workspace /\ f.tab \in Tab /\ f.recursive \in BOOLEAN /\ f.todo \in Seq(Block)
  BY <1>1 DEF FrameOf
<1>3. UNCHANGED <<workspaces, tabs, blocks, windows, client, told, stale>>
  BY DEF DeleteTabBlock, rows
<1>4. result \in [Call -> {"ok", "error", "panic"}]
  BY <1>1 DEF TypeInv, TypeOK
<1> DEFINE g == [at |-> "DeleteBlock", block |-> Head(f.todo), recursive |-> FALSE]
          h == [f EXCEPT !.todo = Tail(@)]
<1>a. g.at = "DeleteBlock" /\ g.recursive = FALSE /\ g.block = Head(f.todo)
      /\ h.at = "DeleteTab:blocks" /\ h.ws = f.ws /\ h.tab = f.tab
      /\ h.recursive = f.recursive /\ h.read = f.read /\ h.todo = Tail(f.todo)
  BY <1>1, <1>2 DEF FrameOf
<1>b. CallThen(p, g, h) /\ UNCHANGED result
  BY <1>1, <1>f DEF DeleteTabBlock
<1>c. (result'[p] # "error") = (result[p] # "error")
  BY <1>4, <1>b
<1> HIDE DEF g, h
<1>d. TakesOver(f, h)
  BY <1>1, <1>a
     DEF TakesOver, OnlyBlocks, OnlyTabs, BlockAts, TabAts, GoneAts, DeleteAts, CreateAts
<1>e. Fits(f, g)
  BY <1>1, <1>2, <1>a
     DEF Fits, Above, OnlyBlocks, OnlyTabs, BlockAts, TabAts, GoneAts, DeleteAts, CreateAts
<1>u. Above(h, g)
  BY <1>a DEF Above, OnlyBlocks, BlockAts
<1>g. Keeps(h, g, TRUE)
  <2>1. result[p] # "error" /\ f.todo # <<>>
    BY <1>1 DEF DeleteTabBlock, Failed
  <2>2. ToSet(f.todo) \subseteq ToSet(h.todo) \cup {g.block}
    BY <1>2, <1>a, <2>1, TailFacts
  <2>3. /\ f.read = workspaces[f.ws] /\ f.tab \in Listed(f.read)
        /\ tabs[f.tab] # NoOid => \A b \in ToSet(tabs[f.tab]) : b \in ToSet(f.todo)
    BY <1>1, <2>1, NoFrameSays DEF Keeps, BlockAts
  <2> QED
    BY <1>a, <2>2, <2>3 DEF Keeps, NewWindows, BlockAts
<1>h. Keeps(g, NoFrame, (result[p] # "error"))
  BY <1>a, KeepsAny DEF KeepAts, NewWindows
<1>i. Reads(g)
  BY <1>a, ReadsAny DEF ReadAts
<1>j. WindowsListed(g)
  BY <1>1, <1>a, WindowsListedKept DEF WindowAts
<1>k. \A w \in Existing(windows) : Closes(f, w) => Closes(h, w)
  BY <1>1 DEF Closes
<1> QED
  BY <1>1, <1>3, <1>f, <1>b, <1>c, <1>d, <1>e, <1>u, <1>g, <1>h, <1>i, <1>j, <1>k, QuietCall

LEMMA CloseEmptyWindowAlone ==
    ASSUME IInv, NEW p \in Call, Alone(p), ~stale, CloseEmptyWindow(p)
    PROVE  ~stale' /\ Alone(p)'
<1>f. PICK f : f = Top(p)
  OBVIOUS
<1>0. At(p, "DeleteTab:window")
  BY DEF CloseEmptyWindow
<1>1. /\ TypeInv /\ stack[p] # <<>> /\ f = Head(stack[p])
      /\ f \in FrameOf("DeleteTab:window") /\ f.at = "DeleteTab:window"
      /\ RowsInv /\ CallsInv /\ TopInv(f) /\ RowInv(f)
      /\ Reads(f) /\ WindowsListed(f) /\ Keeps(f, NoFrame, result[p] # "error")
  BY <1>0, <1>f, AtAlone
<1>2. f.ws \in Workspace
  BY <1>1 DEF FrameOf
<1>3. UNCHANGED <<workspaces, tabs, blocks, windows, client, told, stale>>
  BY DEF CloseEmptyWindow, rows
<1>4. result \in [Call -> {"ok", "error", "panic"}]
  BY <1>1 DEF TypeInv, TypeOK
<1>p. PICK v : Goto(p, [at |-> "CloseWindow", window |-> v])
  BY <1>1, <1>f DEF CloseEmptyWindow
<1> DEFINE g == [at |-> "CloseWindow", window |-> v]
<1>a. g.at = "CloseWindow"
  BY <1>1, <1>2
<1>b. Goto(p, g) /\ UNCHANGED result
  BY <1>p, <1>1, <1>f DEF CloseEmptyWindow
<1>c. (result'[p] # "error") = (result[p] # "error")
  BY <1>4, <1>b
<1> HIDE DEF g
<1>d. TakesOver(f, g)
  BY <1>1, <1>a
     DEF TakesOver, OnlyBlocks, OnlyTabs, BlockAts, TabAts, GoneAts, DeleteAts, CreateAts
<1>h. Keeps(g, NoFrame, (result[p] # "error"))
  BY <1>a, KeepsAny DEF KeepAts, NewWindows
<1>i. Reads(g)
  BY <1>a, ReadsAny DEF ReadAts
<1>j. WindowsListed(g)
  BY <1>1, <1>a, WindowsListedKept DEF WindowAts
<1>k. \A w \in Existing(windows) : Closes(f, w) => Closes(g, w)
  BY <1>1 DEF Closes
<1> QED
  BY <1>1, <1>3, <1>f, <1>b, <1>c, <1>d, <1>h, <1>i, <1>j, <1>k, QuietGoto

LEMMA CloseWindowAlone ==
    ASSUME IInv, NEW p \in Call, Alone(p), ~stale, CloseWindow(p)
    PROVE  ~stale' /\ Alone(p)'
<1>f. PICK f : f = Top(p)
  OBVIOUS
<1>0. At(p, "CloseWindow")
  BY DEF CloseWindow
<1>1. /\ TypeInv /\ stack[p] # <<>> /\ f = Head(stack[p])
      /\ f \in FrameOf("CloseWindow") /\ f.at = "CloseWindow"
      /\ RowsInv /\ CallsInv /\ TopInv(f) /\ RowInv(f)
      /\ Reads(f) /\ WindowsListed(f) /\ Keeps(f, NoFrame, result[p] # "error")
  BY <1>0, <1>f, AtAlone
<1>2. f.window \in Window \cup {NoOid}
  BY <1>1 DEF FrameOf
<1>3. UNCHANGED <<workspaces, tabs, blocks, windows, client, told, stale>>
  BY DEF CloseWindow, rows
<1>4. result \in [Call -> {"ok", "error", "panic"}]
  BY <1>1 DEF TypeInv, TypeOK
<1>5. CASE ~(f.window # NoOid /\ windows[f.window] # NoOid)
  <2> DEFINE g == [at |-> "CloseWindow:client", window |-> f.window]
  <2>a. g.at = "CloseWindow:client" /\ g.window = f.window
    BY <1>1, <1>2
  <2>b. Goto(p, g) /\ UNCHANGED result
    BY <1>1, <1>5, <1>f DEF CloseWindow
  <2>c. (result'[p] # "error") = (result[p] # "error")
    BY <1>4, <2>b
  <2> HIDE DEF g
  <2>d. TakesOver(f, g)
    BY <1>1, <2>a
       DEF TakesOver, OnlyBlocks, OnlyTabs, BlockAts, TabAts, GoneAts, DeleteAts, CreateAts
  <2>h. Keeps(g, NoFrame, (result[p] # "error"))
    BY <2>a, KeepsAny DEF KeepAts, NewWindows
  <2>i. Reads(g)
    BY <2>a, ReadsAny DEF ReadAts
  <2>j. WindowsListed(g)
    BY <1>5, <1>1, <2>a DEF WindowsListed
  <2>k. \A w \in Existing(windows) : Closes(f, w) => Closes(g, w)
    <3>1. DOMAIN windows = Window /\ NoOid \notin Window
      BY <1>1, RowTypes, CallsAssumption
    <3>2. ASSUME NEW w \in Existing(windows) PROVE ~Closes(f, w)
      BY <1>5, <3>1, <3>2 DEF Closes, Existing
    <3> QED
      BY <3>2
  <2> QED
    BY <1>1, <1>3, <1>f, <2>b, <2>c, <2>d, <2>h, <2>i, <2>j, <2>k, QuietGoto
<1>6. CASE f.window # NoOid /\ windows[f.window] # NoOid
  <2> DEFINE g == [at |-> "DeleteWorkspace", ws |-> windows[f.window], force |-> FALSE]
            h == [at |-> "CloseWindow:delete", window |-> f.window]
  <2>a. g.at = "DeleteWorkspace" /\ h.at = "CloseWindow:delete" /\ h.window = f.window
    BY <1>1, <1>2
  <2>b. CallThen(p, g, h) /\ UNCHANGED result
    BY <1>1, <1>6, <1>f DEF CloseWindow
  <2>c. (result'[p] # "error") = (result[p] # "error")
    BY <1>4, <2>b
  <2> HIDE DEF g, h
  <2>d. TakesOver(f, h)
    BY <1>1, <2>a
       DEF TakesOver, OnlyBlocks, OnlyTabs, BlockAts, TabAts, GoneAts, DeleteAts, CreateAts
  <2>e. Fits(f, g)
    BY <1>1, <1>2, <2>a
       DEF Fits, Above, OnlyBlocks, OnlyTabs, BlockAts, TabAts, GoneAts, DeleteAts, CreateAts
  <2>u. Above(h, g)
    BY <2>a DEF Above, DeleteAts
  <2>g. Keeps(h, g, TRUE)
    BY <2>a, KeepsAny DEF KeepAts, NewWindows
  <2>h. Keeps(g, NoFrame, (result[p] # "error"))
    BY <2>a, KeepsAny DEF KeepAts, NewWindows
  <2>i. Reads(g)
    BY <2>a, ReadsAny DEF ReadAts
  <2>j. WindowsListed(g)
    BY <1>1, <2>a, WindowsListedKept DEF WindowAts
  <2>k. \A w \in Existing(windows) : Closes(f, w) => Closes(h, w)
    BY <1>1, <2>a DEF Closes
  <2> QED
    BY <1>1, <1>3, <1>f, <2>b, <2>c, <2>d, <2>e, <2>u, <2>g, <2>h, <2>i, <2>j, <2>k, QuietCall
<1> QED
  BY <1>5, <1>6

LEMMA ReadClientAlone ==
    ASSUME IInv, NEW p \in Call, Alone(p), ~stale, ReadClient(p)
    PROVE  ~stale' /\ Alone(p)'
<1>f. PICK f : f = Top(p)
  OBVIOUS
<1>0. At(p, "CloseWindow:client")
  BY DEF ReadClient
<1>1. /\ TypeInv /\ stack[p] # <<>> /\ f = Head(stack[p])
      /\ f \in FrameOf("CloseWindow:client") /\ f.at = "CloseWindow:client"
      /\ RowsInv /\ CallsInv /\ TopInv(f) /\ RowInv(f)
      /\ Reads(f) /\ WindowsListed(f) /\ Keeps(f, NoFrame, result[p] # "error")
  BY <1>0, <1>f, AtAlone
<1>2. f.window \in Window \cup {NoOid}
  BY <1>1 DEF FrameOf
<1>3. UNCHANGED <<workspaces, tabs, blocks, windows, client, told, stale>>
  BY DEF ReadClient, rows
<1>4. result \in [Call -> {"ok", "error", "panic"}]
  BY <1>1 DEF TypeInv, TypeOK
<1> DEFINE g == [at |-> "CloseWindow:update", window |-> f.window, read |-> client]
<1>a. g.at = "CloseWindow:update" /\ g.window = f.window /\ g.read = client
  BY <1>1, <1>2
<1>b. Goto(p, g) /\ UNCHANGED result
  BY <1>1, <1>f DEF ReadClient
<1>c. (result'[p] # "error") = (result[p] # "error")
  BY <1>4, <1>b
<1> HIDE DEF g
<1>d. TakesOver(f, g)
  BY <1>1, <1>a
     DEF TakesOver, OnlyBlocks, OnlyTabs, BlockAts, TabAts, GoneAts, DeleteAts, CreateAts
<1>h. Keeps(g, NoFrame, (result[p] # "error"))
  BY <1>a, KeepsAny DEF KeepAts, NewWindows
<1>i. Reads(g)
  BY <1>1, <1>2, <1>a DEF Reads, GoneAts
<1>j. WindowsListed(g)
  BY <1>1, <1>a DEF WindowsListed
<1>k. \A w \in Existing(windows) : Closes(f, w) => Closes(g, w)
  BY <1>1 DEF Closes
<1> QED
  BY <1>1, <1>3, <1>f, <1>b, <1>c, <1>d, <1>h, <1>i, <1>j, <1>k, QuietGoto

LEMMA DeleteWorkspaceAlone ==
    ASSUME IInv, NEW p \in Call, Alone(p), ~stale, DeleteWorkspace(p)
    PROVE  ~stale' /\ Alone(p)'
<1>f. PICK f : f = Top(p)
  OBVIOUS
<1>0. At(p, "DeleteWorkspace")
  BY DEF DeleteWorkspace
<1>1. /\ TypeInv /\ stack[p] # <<>> /\ f = Head(stack[p])
      /\ f \in FrameOf("DeleteWorkspace") /\ f.at = "DeleteWorkspace"
      /\ RowsInv /\ CallsInv /\ TopInv(f) /\ RowInv(f)
      /\ Reads(f) /\ WindowsListed(f) /\ Keeps(f, NoFrame, result[p] # "error")
  BY <1>0, <1>f, AtAlone
<1>2. f.ws \in Workspace /\ f.force \in BOOLEAN
  BY <1>1 DEF FrameOf
<1>3. UNCHANGED <<workspaces, tabs, blocks, windows, client, told, stale>>
  BY DEF DeleteWorkspace, rows
<1>4. result \in [Call -> {"ok", "error", "panic"}]
  BY <1>1 DEF TypeInv, TypeOK
<1>5. CASE workspaces[f.ws] = NoOid
  <2>a. Return(p, "error")
    BY <1>1, <1>5, <1>f DEF DeleteWorkspace
  <2>b. (result'[p] # "error") = FALSE
    BY <1>4, <2>a DEF Return
  <2>c. \A x \in Under(p) : Above(x, f) /\ Keeps(x, f, TRUE) => Keeps(x, NoFrame, FALSE)
    BY ReturnsError
  <2>d. f.at \notin WindowAts /\ \A w \in Existing(windows) : ~Closes(f, w)
    BY <1>1 DEF WindowAts, Closes
  <2> QED
    BY <1>1, <1>3, <1>f, <2>a, <2>b, <2>c, <2>d, QuietReturn
<1>6. CASE workspaces[f.ws] # NoOid
  <2> DEFINE g == [at |-> "ListWorkspaces", ws |-> f.ws, force |-> f.force,
         read |-> workspaces[f.ws]]
  <2>a. g.at = "ListWorkspaces" /\ g.ws = f.ws /\ g.read = workspaces[f.ws]
    BY <1>1, <1>2
  <2>b. Goto(p, g) /\ UNCHANGED result
    BY <1>1, <1>6, <1>f DEF DeleteWorkspace
  <2>c. (result'[p] # "error") = (result[p] # "error")
    BY <1>4, <2>b
  <2> HIDE DEF g
  <2>d. TakesOver(f, g)
    BY <1>1, <2>a
       DEF TakesOver, OnlyBlocks, OnlyTabs, BlockAts, TabAts, GoneAts, DeleteAts, CreateAts
  <2>h. Keeps(g, NoFrame, (result[p] # "error"))
    BY <2>a, KeepsAny DEF KeepAts, NewWindows
  <2>i. Reads(g)
    BY <1>1, <1>2, <1>6, <2>a DEF Reads, GoneAts
  <2>j. WindowsListed(g)
    BY <1>1, <2>a, WindowsListedKept DEF WindowAts
  <2>k. \A w \in Existing(windows) : Closes(f, w) => Closes(g, w)
    BY <1>1 DEF Closes
  <2> QED
    BY <1>1, <1>3, <1>f, <2>b, <2>c, <2>d, <2>h, <2>i, <2>j, <2>k, QuietGoto
<1> QED
  BY <1>5, <1>6

LEMMA ListWorkspacesAlone ==
    ASSUME IInv, NEW p \in Call, Alone(p), ~stale, ListWorkspaces(p)
    PROVE  ~stale' /\ Alone(p)'
<1>f. PICK f : f = Top(p)
  OBVIOUS
<1>0. At(p, "ListWorkspaces")
  BY DEF ListWorkspaces
<1>1. /\ TypeInv /\ stack[p] # <<>> /\ f = Head(stack[p])
      /\ f \in FrameOf("ListWorkspaces") /\ f.at = "ListWorkspaces"
      /\ RowsInv /\ CallsInv /\ TopInv(f) /\ RowInv(f)
      /\ Reads(f) /\ WindowsListed(f) /\ Keeps(f, NoFrame, result[p] # "error")
  BY <1>0, <1>f, AtAlone
<1>2. f.ws \in Workspace /\ f.read \in WorkspaceRow
  BY <1>1 DEF FrameOf
<1>3. UNCHANGED <<workspaces, tabs, blocks, windows, client, told, stale>>
  BY DEF ListWorkspaces, rows
<1>4. result \in [Call -> {"ok", "error", "panic"}]
  BY <1>1 DEF TypeInv, TypeOK
<1> DEFINE g == [at |-> "ListWindows", ws |-> f.ws, force |-> f.force, read |-> f.read,
       free |-> {w \in Existing(workspaces) : workspaces[w].named} \ {f.ws}]
<1>a. g.at = "ListWindows" /\ g.ws = f.ws /\ g.read = f.read
  BY <1>1, <1>2
<1>b. Goto(p, g) /\ UNCHANGED result
  BY <1>1, <1>f DEF ListWorkspaces
<1>c. (result'[p] # "error") = (result[p] # "error")
  BY <1>4, <1>b
<1> HIDE DEF g
<1>d. TakesOver(f, g)
  BY <1>1, <1>a
     DEF TakesOver, OnlyBlocks, OnlyTabs, BlockAts, TabAts, GoneAts, DeleteAts, CreateAts
<1>h. Keeps(g, NoFrame, (result[p] # "error"))
  BY <1>a, KeepsAny DEF KeepAts, NewWindows
<1>i. Reads(g)
  BY <1>1, <1>2, <1>a DEF Reads, GoneAts
<1>j. WindowsListed(g)
  BY <1>1, <1>a, WindowsListedKept DEF WindowAts
<1>k. \A w \in Existing(windows) : Closes(f, w) => Closes(g, w)
  BY <1>1 DEF Closes
<1> QED
  BY <1>1, <1>3, <1>f, <1>b, <1>c, <1>d, <1>h, <1>i, <1>j, <1>k, QuietGoto

LEMMA KeepOrEmptyAlone ==
    ASSUME IInv, NEW p \in Call, Alone(p), ~stale, KeepOrEmpty(p)
    PROVE  ~stale' /\ Alone(p)'
<1>f. PICK f : f = Top(p)
  OBVIOUS
<1>0. At(p, "ListWindows")
  BY DEF KeepOrEmpty
<1>1. /\ TypeInv /\ stack[p] # <<>> /\ f = Head(stack[p])
      /\ f \in FrameOf("ListWindows") /\ f.at = "ListWindows"
      /\ RowsInv /\ CallsInv /\ TopInv(f) /\ RowInv(f)
      /\ Reads(f) /\ WindowsListed(f) /\ Keeps(f, NoFrame, result[p] # "error")
  BY <1>0, <1>f, AtAlone
<1>2. f.ws \in Workspace /\ f.read \in WorkspaceRow
  BY <1>1 DEF FrameOf
<1>3. UNCHANGED <<workspaces, tabs, blocks, windows, client, told, stale>>
  BY DEF KeepOrEmpty, rows
<1>4. result \in [Call -> {"ok", "error", "panic"}]
  BY <1>1 DEF TypeInv, TypeOK
<1>5. CASE f.read.named /\ ~f.force /\ Listed(f.read) # {}
  <2>a. Return(p, "ok")
    BY <1>1, <1>5, <1>f DEF KeepOrEmpty
  <2>b. (result'[p] # "error") = TRUE
    BY <1>4, <2>a DEF Return
  <2>c. \A x \in Under(p) : Above(x, f) /\ Keeps(x, f, TRUE) => Keeps(x, NoFrame, TRUE)
    BY <1>1, ReturnsOk DEF BlockAts, TabAts, GoneAts
  <2>d. f.at \notin WindowAts /\ \A w \in Existing(windows) : ~Closes(f, w)
    BY <1>1 DEF WindowAts, Closes
  <2> QED
    BY <1>1, <1>3, <1>f, <2>a, <2>b, <2>c, <2>d, QuietReturn
<1>6. CASE ~(f.read.named /\ ~f.force /\ Listed(f.read) # {})
  <2> DEFINE g == [at |-> "DeleteWorkspace:tabs", ws |-> f.ws,
         free |-> f.free \ {windows[w] : w \in Existing(windows)},
         todo |-> f.read.tabs \o f.read.pinned]
  <2>a. g.at = "DeleteWorkspace:tabs" /\ g.ws = f.ws /\ g.todo = f.read.tabs \o f.read.pinned
    BY <1>1, <1>2
  <2>b. Goto(p, g) /\ result' = [result EXCEPT ![p] = "ok"]
    BY <1>1, <1>6, <1>f DEF KeepOrEmpty
  <2>c. (result'[p] # "error") = TRUE
    BY <1>4, <2>b
  <2> HIDE DEF g
  <2>d. TakesOver(f, g)
    BY <1>1, <2>a
       DEF TakesOver, OnlyBlocks, OnlyTabs, BlockAts, TabAts, GoneAts, DeleteAts, CreateAts
  <2>h. Keeps(g, NoFrame, TRUE)
    <3>1. f.read = workspaces[f.ws]
      BY <1>1 DEF Reads
    <3>2. Listed(f.read) = ToSet(g.todo)
      BY <1>2, <2>a, ConcatFacts DEF WorkspaceRow, Listed
    <3> QED
      BY <2>a, <3>1, <3>2 DEF Keeps, NewWindows
  <2>i. Reads(g)
    BY <2>a, ReadsAny DEF ReadAts
  <2>j. WindowsListed(g)
    BY <1>1, <2>a, WindowsListedKept DEF WindowAts
  <2>k. \A w \in Existing(windows) : Closes(f, w) => Closes(g, w)
    BY <1>1 DEF Closes
  <2> QED
    BY <1>1, <1>3, <1>f, <2>b, <2>c, <2>d, <2>h, <2>i, <2>j, <2>k, QuietGoto
<1> QED
  BY <1>5, <1>6

LEMMA DeleteWorkspaceTabAlone ==
    ASSUME IInv, NEW p \in Call, Alone(p), ~stale, DeleteWorkspaceTab(p)
    PROVE  ~stale' /\ Alone(p)'
<1>f. PICK f : f = Top(p)
  OBVIOUS
<1>0. At(p, "DeleteWorkspace:tabs")
  BY DEF DeleteWorkspaceTab
<1>1. /\ TypeInv /\ stack[p] # <<>> /\ f = Head(stack[p])
      /\ f \in FrameOf("DeleteWorkspace:tabs") /\ f.at = "DeleteWorkspace:tabs"
      /\ RowsInv /\ CallsInv /\ TopInv(f) /\ RowInv(f)
      /\ Reads(f) /\ WindowsListed(f) /\ Keeps(f, NoFrame, result[p] # "error")
  BY <1>0, <1>f, AtAlone
<1>2. f.ws \in Workspace /\ f.todo \in Seq(Tab)
  BY <1>1 DEF FrameOf
<1>3. UNCHANGED <<workspaces, tabs, blocks, windows, client, told, stale>>
  BY DEF DeleteWorkspaceTab, rows
<1>4. result \in [Call -> {"ok", "error", "panic"}]
  BY <1>1 DEF TypeInv, TypeOK
<1> DEFINE g == [at |-> "DeleteTab", ws |-> f.ws, tab |-> Head(f.todo), recursive |-> FALSE]
          h == [f EXCEPT !.todo = Tail(@)]
<1>a. g.at = "DeleteTab" /\ g.recursive = FALSE /\ g.ws = f.ws /\ g.tab = Head(f.todo)
      /\ h.at = "DeleteWorkspace:tabs" /\ h.ws = f.ws /\ h.todo = Tail(f.todo)
  BY <1>1, <1>2 DEF FrameOf
<1>b. CallThen(p, g, h) /\ UNCHANGED result
  BY <1>1, <1>f DEF DeleteWorkspaceTab
<1>c. (result'[p] # "error") = (result[p] # "error")
  BY <1>4, <1>b
<1> HIDE DEF g, h
<1>d. TakesOver(f, h)
  BY <1>1, <1>a
     DEF TakesOver, OnlyBlocks, OnlyTabs, BlockAts, TabAts, GoneAts, DeleteAts, CreateAts
<1>e. Fits(f, g)
  BY <1>1, <1>2, <1>a
     DEF Fits, Above, OnlyBlocks, OnlyTabs, BlockAts, TabAts, GoneAts, DeleteAts, CreateAts
<1>u. Above(h, g)
  BY <1>a DEF Above, OnlyTabs, TabAts
<1>g. Keeps(h, g, TRUE)
  <2>1. result[p] # "error" /\ f.todo # <<>>
    BY <1>1 DEF DeleteWorkspaceTab, Failed
  <2>2. ToSet(f.todo) \subseteq ToSet(h.todo) \cup {g.tab}
    BY <1>2, <1>a, <2>1, TailFacts
  <2>3. workspaces[f.ws] # NoOid => \A t \in Listed(workspaces[f.ws]) : t \in ToSet(f.todo)
    BY <1>1, <2>1, NoFrameSays DEF Keeps, TabAts, GoneAts
  <2> QED
    BY <1>a, <2>2, <2>3 DEF Keeps, NewWindows, TabAts
<1>h. Keeps(g, NoFrame, (result[p] # "error"))
  BY <1>a, KeepsAny DEF KeepAts, NewWindows
<1>i. Reads(g)
  BY <1>a, ReadsAny DEF ReadAts
<1>j. WindowsListed(g)
  BY <1>1, <1>a, WindowsListedKept DEF WindowAts
<1>k. \A w \in Existing(windows) : Closes(f, w) => Closes(h, w)
  BY <1>1 DEF Closes
<1> QED
  BY <1>1, <1>3, <1>f, <1>b, <1>c, <1>d, <1>e, <1>u, <1>g, <1>h, <1>i, <1>j, <1>k, QuietCall

LEMMA FindWindowAlone ==
    ASSUME IInv, NEW p \in Call, Alone(p), ~stale, FindWindow(p)
    PROVE  ~stale' /\ Alone(p)'
<1>f. PICK f : f = Top(p)
  OBVIOUS
<1>0. At(p, "DeleteWorkspace:tabs")
  BY DEF FindWindow
<1>1. /\ TypeInv /\ stack[p] # <<>> /\ f = Head(stack[p])
      /\ f \in FrameOf("DeleteWorkspace:tabs") /\ f.at = "DeleteWorkspace:tabs"
      /\ RowsInv /\ CallsInv /\ TopInv(f) /\ RowInv(f)
      /\ Reads(f) /\ WindowsListed(f) /\ Keeps(f, NoFrame, result[p] # "error")
  BY <1>0, <1>f, AtAlone
<1>2. f.ws \in Workspace /\ f.todo \in Seq(Tab)
  BY <1>1 DEF FrameOf
<1>3. UNCHANGED <<workspaces, tabs, blocks, windows, client, told, stale>>
  BY DEF FindWindow, rows
<1>4. result \in [Call -> {"ok", "error", "panic"}]
  BY <1>1 DEF TypeInv, TypeOK
<1>5. CASE Failed(p)
  <2>a. Return(p, "error")
    BY <1>1, <1>5, <1>f DEF FindWindow
  <2>b. (result'[p] # "error") = FALSE
    BY <1>4, <2>a DEF Return
  <2>c. \A x \in Under(p) : Above(x, f) /\ Keeps(x, f, TRUE) => Keeps(x, NoFrame, FALSE)
    BY ReturnsError
  <2>d. f.at \notin WindowAts /\ \A w \in Existing(windows) : ~Closes(f, w)
    BY <1>1 DEF WindowAts, Closes
  <2> QED
    BY <1>1, <1>3, <1>f, <2>a, <2>b, <2>c, <2>d, QuietReturn
<1>6. CASE ~Failed(p)
  <2>p. PICK v \in WindowsOf(f.ws) : /\ f.todo = <<>> /\ UNCHANGED result
         /\ Goto(p, [at |-> "DeleteWorkspace:delete", ws |-> f.ws, window |-> v, free |-> f.free])
    BY <1>1, <1>6, <1>f DEF FindWindow
  <2> DEFINE g == [at |-> "DeleteWorkspace:delete", ws |-> f.ws, window |-> v, free |-> f.free]
  <2>a. g.at = "DeleteWorkspace:delete" /\ g.ws = f.ws /\ g.window = v
    BY <1>1, <1>2
  <2>b. Goto(p, g) /\ UNCHANGED result
    BY <2>p, <1>1, <1>6, <1>f DEF FindWindow
  <2>c. (result'[p] # "error") = (result[p] # "error")
    BY <1>4, <2>b
  <2> HIDE DEF g
  <2>d. TakesOver(f, g)
    BY <1>1, <2>a
       DEF TakesOver, OnlyBlocks, OnlyTabs, BlockAts, TabAts, GoneAts, DeleteAts, CreateAts
  <2>h. Keeps(g, NoFrame, (result[p] # "error"))
    BY <2>a, KeepsAny DEF KeepAts, NewWindows
  <2>i. Reads(g)
    <3>1. workspaces[f.ws] # NoOid => Listed(workspaces[f.ws]) = {}
      BY <1>1, <1>6, <2>p, NoFrameSays, EmptyFacts DEF Keeps, Failed, TabAts, GoneAts
    <3> QED
      BY <3>1, <2>a, <2>p DEF Reads, GoneAts
  <2>j. WindowsListed(g)
    BY <1>1, <2>a, WindowsListedKept DEF WindowAts
  <2>k. \A w \in Existing(windows) : Closes(f, w) => Closes(g, w)
    BY <1>1 DEF Closes
  <2> QED
    BY <1>1, <1>3, <1>f, <2>b, <2>c, <2>d, <2>h, <2>i, <2>j, <2>k, QuietGoto
<1> QED
  BY <1>5, <1>6

LEMMA CreateTabAlone ==
    ASSUME IInv, NEW p \in Call, Alone(p), ~stale, CreateTab(p)
    PROVE  ~stale' /\ Alone(p)'
<1>f. PICK f : f = Top(p)
  OBVIOUS
<1>0. At(p, "CreateTab")
  BY DEF CreateTab
<1>1. /\ TypeInv /\ stack[p] # <<>> /\ f = Head(stack[p])
      /\ f \in FrameOf("CreateTab") /\ f.at = "CreateTab"
      /\ RowsInv /\ CallsInv /\ TopInv(f) /\ RowInv(f)
      /\ Reads(f) /\ WindowsListed(f) /\ Keeps(f, NoFrame, result[p] # "error")
  BY <1>0, <1>f, AtAlone
<1>2. f.ws \in Workspace
  BY <1>1 DEF FrameOf
<1>3. UNCHANGED <<workspaces, tabs, blocks, windows, client, told, stale>>
  BY DEF CreateTab, rows
<1>4. result \in [Call -> {"ok", "error", "panic"}]
  BY <1>1 DEF TypeInv, TypeOK
<1>5. CASE workspaces[f.ws] = NoOid
  <2>a. Return(p, "error")
    BY <1>1, <1>5, <1>f DEF CreateTab
  <2>b. (result'[p] # "error") = FALSE
    BY <1>4, <2>a DEF Return
  <2>c. \A x \in Under(p) : Above(x, f) /\ Keeps(x, f, TRUE) => Keeps(x, NoFrame, FALSE)
    BY ReturnsError
  <2>d. f.at \notin WindowAts /\ \A w \in Existing(windows) : ~Closes(f, w)
    BY <1>1 DEF WindowAts, Closes
  <2> QED
    BY <1>1, <1>3, <1>f, <2>a, <2>b, <2>c, <2>d, QuietReturn
<1>6. CASE workspaces[f.ws] # NoOid
  <2> DEFINE g == [f EXCEPT !.at = "createTabObj"]
  <2>a. g.at = "createTabObj"
    BY <1>1 DEF FrameOf
  <2>b. Goto(p, g) /\ UNCHANGED result
    BY <1>1, <1>6, <1>f DEF CreateTab
  <2>c. (result'[p] # "error") = (result[p] # "error")
    BY <1>4, <2>b
  <2> HIDE DEF g
  <2>d. TakesOver(f, g)
    BY <1>1, <2>a
       DEF TakesOver, OnlyBlocks, OnlyTabs, BlockAts, TabAts, GoneAts, DeleteAts, CreateAts
  <2>h. Keeps(g, NoFrame, (result[p] # "error"))
    BY <2>a, KeepsAny DEF KeepAts, NewWindows
  <2>i. Reads(g)
    BY <2>a, ReadsAny DEF ReadAts
  <2>j. WindowsListed(g)
    BY <1>1, <2>a, WindowsListedKept DEF WindowAts
  <2>k. \A w \in Existing(windows) : Closes(f, w) => Closes(g, w)
    BY <1>1 DEF Closes
  <2> QED
    BY <1>1, <1>3, <1>f, <2>b, <2>c, <2>d, <2>h, <2>i, <2>j, <2>k, QuietGoto
<1> QED
  BY <1>5, <1>6

LEMMA CreateTabObjAlone ==
    ASSUME IInv, NEW p \in Call, Alone(p), ~stale, CreateTabObj(p)
    PROVE  ~stale' /\ Alone(p)'
<1>f. PICK f : f = Top(p)
  OBVIOUS
<1>0. At(p, "createTabObj")
  BY DEF CreateTabObj
<1>1. /\ TypeInv /\ stack[p] # <<>> /\ f = Head(stack[p])
      /\ f \in FrameOf("createTabObj") /\ f.at = "createTabObj"
      /\ RowsInv /\ CallsInv /\ TopInv(f) /\ RowInv(f)
      /\ Reads(f) /\ WindowsListed(f) /\ Keeps(f, NoFrame, result[p] # "error")
  BY <1>0, <1>f, AtAlone
<1>2. f.ws \in Workspace
  BY <1>1 DEF FrameOf
<1>3. UNCHANGED <<workspaces, tabs, blocks, windows, client, told, stale>>
  BY DEF CreateTabObj, rows
<1>4. result \in [Call -> {"ok", "error", "panic"}]
  BY <1>1 DEF TypeInv, TypeOK
<1>5. CASE workspaces[f.ws] = NoOid
  <2>a. Return(p, "error")
    BY <1>1, <1>5, <1>f DEF CreateTabObj
  <2>b. (result'[p] # "error") = FALSE
    BY <1>4, <2>a DEF Return
  <2>c. \A x \in Under(p) : Above(x, f) /\ Keeps(x, f, TRUE) => Keeps(x, NoFrame, FALSE)
    BY ReturnsError
  <2>d. f.at \notin WindowAts /\ \A w \in Existing(windows) : ~Closes(f, w)
    BY <1>1 DEF WindowAts, Closes
  <2> QED
    BY <1>1, <1>3, <1>f, <2>a, <2>b, <2>c, <2>d, QuietReturn
<1>6. CASE workspaces[f.ws] # NoOid
  <2> DEFINE g == [at |-> "createTabObj:insert", ws |-> f.ws, tab |-> Fresh(Tab), pinned |-> f.pinned,
         activate |-> f.activate, read |-> workspaces[f.ws]]
  <2>a. g.at = "createTabObj:insert" /\ g.ws = f.ws /\ g.read = workspaces[f.ws]
    BY <1>1, <1>2
  <2>b. Goto(p, g) /\ UNCHANGED result
    BY <1>1, <1>6, <1>f DEF CreateTabObj
  <2>c. (result'[p] # "error") = (result[p] # "error")
    BY <1>4, <2>b
  <2> HIDE DEF g
  <2>d. TakesOver(f, g)
    BY <1>1, <2>a
       DEF TakesOver, OnlyBlocks, OnlyTabs, BlockAts, TabAts, GoneAts, DeleteAts, CreateAts
  <2>h. Keeps(g, NoFrame, (result[p] # "error"))
    BY <2>a, KeepsAny DEF KeepAts, NewWindows
  <2>i. Reads(g)
    BY <1>1, <1>2, <1>6, <2>a DEF Reads, GoneAts
  <2>j. WindowsListed(g)
    BY <1>1, <2>a, WindowsListedKept DEF WindowAts
  <2>k. \A w \in Existing(windows) : Closes(f, w) => Closes(g, w)
    BY <1>1 DEF Closes
  <2> QED
    BY <1>1, <1>3, <1>f, <2>b, <2>c, <2>d, <2>h, <2>i, <2>j, <2>k, QuietGoto
<1> QED
  BY <1>5, <1>6

LEMMA GetLayoutIdForTabAlone ==
    ASSUME IInv, NEW p \in Call, Alone(p), ~stale, GetLayoutIdForTab(p)
    PROVE  ~stale' /\ Alone(p)'
<1>f. PICK f : f = Top(p)
  OBVIOUS
<1>0. At(p, "GetLayoutIdForTab")
  BY DEF GetLayoutIdForTab
<1>1. /\ TypeInv /\ stack[p] # <<>> /\ f = Head(stack[p])
      /\ f \in FrameOf("GetLayoutIdForTab") /\ f.at = "GetLayoutIdForTab"
      /\ RowsInv /\ CallsInv /\ TopInv(f) /\ RowInv(f)
      /\ Reads(f) /\ WindowsListed(f) /\ Keeps(f, NoFrame, result[p] # "error")
  BY <1>0, <1>f, AtAlone
<1>2. f.tab \in Tab
  BY <1>1 DEF FrameOf
<1>3. UNCHANGED <<workspaces, tabs, blocks, windows, client, told, stale>>
  BY DEF GetLayoutIdForTab, rows
<1>4. result \in [Call -> {"ok", "error", "panic"}]
  BY <1>1 DEF TypeInv, TypeOK
<1>5. CASE tabs[f.tab] = NoOid
  <2>a. Panic(p)
    BY <1>1, <1>5, <1>f DEF GetLayoutIdForTab
  <2>b. f.at \notin WindowAts \cup DeleteAts
    BY <1>1 DEF WindowAts, DeleteAts, BlockAts, TabAts, GoneAts
  <2> QED
    BY <1>1, <1>3, <1>f, <2>a, <2>b, QuietPanic
<1>6. CASE tabs[f.tab] # NoOid
  <2> DEFINE g == [at |-> "QueueLayoutAction", tab |-> f.tab]
  <2>a. g.at = "QueueLayoutAction"
    BY <1>1, <1>2
  <2>b. Goto(p, g) /\ UNCHANGED result
    BY <1>1, <1>6, <1>f DEF GetLayoutIdForTab
  <2>c. (result'[p] # "error") = (result[p] # "error")
    BY <1>4, <2>b
  <2> HIDE DEF g
  <2>d. TakesOver(f, g)
    BY <1>1, <2>a
       DEF TakesOver, OnlyBlocks, OnlyTabs, BlockAts, TabAts, GoneAts, DeleteAts, CreateAts
  <2>h. Keeps(g, NoFrame, (result[p] # "error"))
    BY <2>a, KeepsAny DEF KeepAts, NewWindows
  <2>i. Reads(g)
    BY <2>a, ReadsAny DEF ReadAts
  <2>j. WindowsListed(g)
    BY <1>1, <2>a, WindowsListedKept DEF WindowAts
  <2>k. \A w \in Existing(windows) : Closes(f, w) => Closes(g, w)
    BY <1>1 DEF Closes
  <2> QED
    BY <1>1, <1>3, <1>f, <2>b, <2>c, <2>d, <2>h, <2>i, <2>j, <2>k, QuietGoto
<1> QED
  BY <1>5, <1>6

LEMMA QueueLayoutActionAlone ==
    ASSUME IInv, NEW p \in Call, Alone(p), ~stale, QueueLayoutAction(p)
    PROVE  ~stale' /\ Alone(p)'
<1>f. PICK f : f = Top(p)
  OBVIOUS
<1>0. At(p, "QueueLayoutAction")
  BY DEF QueueLayoutAction
<1>1. /\ TypeInv /\ stack[p] # <<>> /\ f = Head(stack[p])
      /\ f \in FrameOf("QueueLayoutAction") /\ f.at = "QueueLayoutAction"
      /\ RowsInv /\ CallsInv /\ TopInv(f) /\ RowInv(f)
      /\ Reads(f) /\ WindowsListed(f) /\ Keeps(f, NoFrame, result[p] # "error")
  BY <1>0, <1>f, AtAlone
<1>2. f.tab \in Tab
  BY <1>1 DEF FrameOf
<1>3. UNCHANGED <<workspaces, tabs, blocks, windows, client, told, stale>>
  BY DEF QueueLayoutAction, rows
<1>4. result \in [Call -> {"ok", "error", "panic"}]
  BY <1>1 DEF TypeInv, TypeOK
<1>5. CASE f.tab \notin layouts
  <2>a. Panic(p)
    BY <1>1, <1>5, <1>f DEF QueueLayoutAction
  <2>b. f.at \notin WindowAts \cup DeleteAts
    BY <1>1 DEF WindowAts, DeleteAts, BlockAts, TabAts, GoneAts
  <2> QED
    BY <1>1, <1>3, <1>f, <2>a, <2>b, QuietPanic
<1>6. CASE f.tab \in layouts
  <2>a. Return(p, "ok")
    BY <1>1, <1>6, <1>f DEF QueueLayoutAction
  <2>b. (result'[p] # "error") = TRUE
    BY <1>4, <2>a DEF Return
  <2>c. \A x \in Under(p) : Above(x, f) /\ Keeps(x, f, TRUE) => Keeps(x, NoFrame, TRUE)
    BY <1>1, ReturnsOk DEF BlockAts, TabAts, GoneAts
  <2>d. f.at \notin WindowAts /\ \A w \in Existing(windows) : ~Closes(f, w)
    BY <1>1 DEF WindowAts, Closes
  <2> QED
    BY <1>1, <1>3, <1>f, <2>a, <2>b, <2>c, <2>d, QuietReturn
<1> QED
  BY <1>5, <1>6

LEMMA NameWorkspaceAlone ==
    ASSUME IInv, NEW p \in Call, Alone(p), ~stale, NameWorkspace(p)
    PROVE  ~stale' /\ Alone(p)'
<1>f. PICK f : f = Top(p)
  OBVIOUS
<1>0. At(p, "CreateWorkspace:update")
  BY DEF NameWorkspace
<1>1. /\ TypeInv /\ stack[p] # <<>> /\ f = Head(stack[p])
      /\ f \in FrameOf("CreateWorkspace:update") /\ f.at = "CreateWorkspace:update"
      /\ RowsInv /\ CallsInv /\ TopInv(f) /\ RowInv(f)
      /\ Reads(f) /\ WindowsListed(f) /\ Keeps(f, NoFrame, result[p] # "error")
  BY <1>0, <1>f, AtAlone
<1>2. f.ws \in Workspace /\ f.named \in BOOLEAN
  BY <1>1 DEF FrameOf
<1>3. UNCHANGED <<workspaces, tabs, blocks, windows, client, told, stale>>
  BY DEF NameWorkspace, rows
<1>4. result \in [Call -> {"ok", "error", "panic"}]
  BY <1>1 DEF TypeInv, TypeOK
<1>5. CASE Failed(p) \/ workspaces[f.ws] = NoOid
  <2>a. Return(p, "error")
    BY <1>1, <1>5, <1>f DEF NameWorkspace
  <2>b. (result'[p] # "error") = FALSE
    BY <1>4, <2>a DEF Return
  <2>c. \A x \in Under(p) : Above(x, f) /\ Keeps(x, f, TRUE) => Keeps(x, NoFrame, FALSE)
    BY ReturnsError
  <2>d. f.at \notin WindowAts /\ \A w \in Existing(windows) : ~Closes(f, w)
    BY <1>1 DEF WindowAts, Closes
  <2> QED
    BY <1>1, <1>3, <1>f, <2>a, <2>b, <2>c, <2>d, QuietReturn
<1>6. CASE ~(Failed(p) \/ workspaces[f.ws] = NoOid) /\ ~f.named
  <2>a. Return(p, "ok")
    BY <1>1, <1>6, <1>f DEF NameWorkspace
  <2>b. (result'[p] # "error") = TRUE
    BY <1>4, <2>a DEF Return
  <2>c. \A x \in Under(p) : Above(x, f) /\ Keeps(x, f, TRUE) => Keeps(x, NoFrame, TRUE)
    BY <1>1, ReturnsOk DEF BlockAts, TabAts, GoneAts
  <2>d. f.at \notin WindowAts /\ \A w \in Existing(windows) : ~Closes(f, w)
    BY <1>1 DEF WindowAts, Closes
  <2> QED
    BY <1>1, <1>3, <1>f, <2>a, <2>b, <2>c, <2>d, QuietReturn
<1>7. CASE ~(Failed(p) \/ workspaces[f.ws] = NoOid) /\ f.named
  <2> DEFINE g == [at |-> "UpdateWorkspace", ws |-> f.ws]
  <2>a. g.at = "UpdateWorkspace"
    BY <1>1, <1>2
  <2>b. Goto(p, g) /\ UNCHANGED result
    BY <1>1, <1>7, <1>f DEF NameWorkspace
  <2>c. (result'[p] # "error") = (result[p] # "error")
    BY <1>4, <2>b
  <2> HIDE DEF g
  <2>d. TakesOver(f, g)
    BY <1>1, <2>a
       DEF TakesOver, OnlyBlocks, OnlyTabs, BlockAts, TabAts, GoneAts, DeleteAts, CreateAts
  <2>h. Keeps(g, NoFrame, (result[p] # "error"))
    BY <2>a, KeepsAny DEF KeepAts, NewWindows
  <2>i. Reads(g)
    BY <2>a, ReadsAny DEF ReadAts
  <2>j. WindowsListed(g)
    BY <1>1, <2>a, WindowsListedKept DEF WindowAts
  <2>k. \A w \in Existing(windows) : Closes(f, w) => Closes(g, w)
    BY <1>1 DEF Closes
  <2> QED
    BY <1>1, <1>3, <1>f, <2>b, <2>c, <2>d, <2>h, <2>i, <2>j, <2>k, QuietGoto
<1> QED
  BY <1>5, <1>6, <1>7

LEMMA CreateWindowAlone ==
    ASSUME IInv, NEW p \in Call, Alone(p), ~stale, CreateWindow(p)
    PROVE  ~stale' /\ Alone(p)'
<1>f. PICK f : f = Top(p)
  OBVIOUS
<1>0. At(p, "CreateWindow")
  BY DEF CreateWindow
<1>1. /\ TypeInv /\ stack[p] # <<>> /\ f = Head(stack[p])
      /\ f \in FrameOf("CreateWindow") /\ f.at = "CreateWindow"
      /\ RowsInv /\ CallsInv /\ TopInv(f) /\ RowInv(f)
      /\ Reads(f) /\ WindowsListed(f) /\ Keeps(f, NoFrame, result[p] # "error")
  BY <1>0, <1>f, AtAlone
<1>2. f.ws \in Workspace /\ f.window \in Window /\ f.new \in BOOLEAN
  BY <1>1 DEF FrameOf
<1>3. UNCHANGED <<workspaces, tabs, blocks, windows, client, told, stale>>
  BY DEF CreateWindow, rows
<1>4. result \in [Call -> {"ok", "error", "panic"}]
  BY <1>1 DEF TypeInv, TypeOK
<1>5. CASE f.new
  <2> DEFINE g == [at |-> "CreateWorkspace", ws |-> f.ws, named |-> FALSE]
            h == [at |-> "CreateWindow:insert", window |-> f.window, ws |-> f.ws]
  <2>a. g.at = "CreateWorkspace" /\ g.ws = f.ws /\ h.at = "CreateWindow:insert"
        /\ h.ws = f.ws /\ h.window = f.window
    BY <1>1, <1>2
  <2>b. CallThen(p, g, h) /\ UNCHANGED result
    BY <1>1, <1>5, <1>f DEF CreateWindow
  <2>c. (result'[p] # "error") = (result[p] # "error")
    BY <1>4, <2>b
  <2> HIDE DEF g, h
  <2>d. TakesOver(f, h) /\ Fits(f, g)
    BY <1>1, FreeFacts, TakesOverFits DEF Free, BlockAts, TabAts, GoneAts, DeleteAts, CreateAts
  <2>u. Above(h, g)
    BY <2>a DEF Above, CreateAts
  <2>g. Keeps(h, g, TRUE)
    BY <1>1, <2>a DEF Keeps, NewWindows
  <2>h. Keeps(g, NoFrame, (result[p] # "error"))
    BY <2>a, KeepsAny DEF KeepAts, NewWindows
  <2>i. Reads(g)
    BY <2>a, ReadsAny DEF ReadAts
  <2>j. WindowsListed(g)
    BY <1>1, <2>a, WindowsListedKept DEF WindowAts
  <2>k. \A w \in Existing(windows) : Closes(f, w) => Closes(h, w)
    BY <1>1 DEF Closes
  <2> QED
    BY <1>1, <1>3, <1>f, <2>b, <2>c, <2>d, <2>u, <2>g, <2>h, <2>i, <2>j, <2>k, QuietCall
<1>6. CASE ~f.new /\ workspaces[f.ws] = NoOid
  <2>a. Return(p, "error")
    BY <1>1, <1>6, <1>f DEF CreateWindow
  <2>b. (result'[p] # "error") = FALSE
    BY <1>4, <2>a DEF Return
  <2>c. \A x \in Under(p) : Above(x, f) /\ Keeps(x, f, TRUE) => Keeps(x, NoFrame, FALSE)
    BY ReturnsError
  <2>d. f.at \notin WindowAts /\ \A w \in Existing(windows) : ~Closes(f, w)
    BY <1>1 DEF WindowAts, Closes
  <2> QED
    BY <1>1, <1>3, <1>f, <2>a, <2>b, <2>c, <2>d, QuietReturn
<1>7. CASE ~f.new /\ workspaces[f.ws] # NoOid
  <2> DEFINE g == [at |-> "CreateWindow:insert", window |-> f.window, ws |-> f.ws]
  <2>a. g.at = "CreateWindow:insert" /\ g.ws = f.ws /\ g.window = f.window
    BY <1>1, <1>2
  <2>b. Goto(p, g) /\ result' = [result EXCEPT ![p] = "ok"]
    BY <1>1, <1>7, <1>f DEF CreateWindow
  <2>c. (result'[p] # "error") = TRUE
    BY <1>4, <2>b
  <2> HIDE DEF g
  <2>d. TakesOver(f, g)
    BY <1>1, FreeFacts, TakesOverFits DEF Free, BlockAts, TabAts, GoneAts, DeleteAts, CreateAts
  <2>h. Keeps(g, NoFrame, TRUE)
    BY <1>1, <2>a, <1>7 DEF Keeps, NewWindows
  <2>i. Reads(g)
    BY <2>a, ReadsAny DEF ReadAts
  <2>j. WindowsListed(g)
    BY <1>1, <2>a, WindowsListedKept DEF WindowAts
  <2>k. \A w \in Existing(windows) : Closes(f, w) => Closes(g, w)
    BY <1>1 DEF Closes
  <2> QED
    BY <1>1, <1>3, <1>f, <2>b, <2>c, <2>d, <2>h, <2>i, <2>j, <2>k, QuietGoto
<1> QED
  BY <1>5, <1>6, <1>7

LEMMA SwitchWorkspaceAlone ==
    ASSUME IInv, NEW p \in Call, Alone(p), ~stale, SwitchWorkspace(p)
    PROVE  ~stale' /\ Alone(p)'
<1>f. PICK f : f = Top(p)
  OBVIOUS
<1>0. At(p, "SwitchWorkspace")
  BY DEF SwitchWorkspace
<1>1. /\ TypeInv /\ stack[p] # <<>> /\ f = Head(stack[p])
      /\ f \in FrameOf("SwitchWorkspace") /\ f.at = "SwitchWorkspace"
      /\ RowsInv /\ CallsInv /\ TopInv(f) /\ RowInv(f)
      /\ Reads(f) /\ WindowsListed(f) /\ Keeps(f, NoFrame, result[p] # "error")
  BY <1>0, <1>f, AtAlone
<1>2. f.ws \in Workspace /\ f.window \in Window
  BY <1>1 DEF FrameOf
<1>3. UNCHANGED <<workspaces, tabs, blocks, windows, client, told, stale>>
  BY DEF SwitchWorkspace, rows
<1>4. result \in [Call -> {"ok", "error", "panic"}]
  BY <1>1 DEF TypeInv, TypeOK
<1>5. CASE workspaces[f.ws] = NoOid
  <2>a. Return(p, "error")
    BY <1>1, <1>5, <1>f DEF SwitchWorkspace
  <2>b. (result'[p] # "error") = FALSE
    BY <1>4, <2>a DEF Return
  <2>c. \A x \in Under(p) : Above(x, f) /\ Keeps(x, f, TRUE) => Keeps(x, NoFrame, FALSE)
    BY ReturnsError
  <2>d. f.at \notin WindowAts /\ \A w \in Existing(windows) : ~Closes(f, w)
    BY <1>1 DEF WindowAts, Closes
  <2> QED
    BY <1>1, <1>3, <1>f, <2>a, <2>b, <2>c, <2>d, QuietReturn
<1>6. CASE workspaces[f.ws] # NoOid
  <2> DEFINE g == [f EXCEPT !.at = "GetWindow"]
  <2>a. g.at = "GetWindow" /\ g.ws = f.ws
    BY <1>1 DEF FrameOf
  <2>b. Goto(p, g) /\ UNCHANGED result
    BY <1>1, <1>6, <1>f DEF SwitchWorkspace
  <2>c. (result'[p] # "error") = (result[p] # "error")
    BY <1>4, <2>b
  <2> HIDE DEF g
  <2>d. TakesOver(f, g)
    BY <1>1, FreeFacts, TakesOverFits DEF Free, BlockAts, TabAts, GoneAts, DeleteAts, CreateAts
  <2>h. Keeps(g, NoFrame, (result[p] # "error"))
    BY <2>a, KeepsAny DEF KeepAts, NewWindows
  <2>i. Reads(g)
    BY <1>1, <1>2, <1>6, <2>a DEF Reads, GoneAts
  <2>j. WindowsListed(g)
    BY <1>1, <2>a, WindowsListedKept DEF WindowAts
  <2>k. \A w \in Existing(windows) : Closes(f, w) => Closes(g, w)
    BY <1>1 DEF Closes
  <2> QED
    BY <1>1, <1>3, <1>f, <2>b, <2>c, <2>d, <2>h, <2>i, <2>j, <2>k, QuietGoto
<1> QED
  BY <1>5, <1>6

LEMMA GetWindowAlone ==
    ASSUME IInv, NEW p \in Call, Alone(p), ~stale, GetWindow(p)
    PROVE  ~stale' /\ Alone(p)'
<1>f. PICK f : f = Top(p)
  OBVIOUS
<1>0. At(p, "GetWindow")
  BY DEF GetWindow
<1>1. /\ TypeInv /\ stack[p] # <<>> /\ f = Head(stack[p])
      /\ f \in FrameOf("GetWindow") /\ f.at = "GetWindow"
      /\ RowsInv /\ CallsInv /\ TopInv(f) /\ RowInv(f)
      /\ Reads(f) /\ WindowsListed(f) /\ Keeps(f, NoFrame, result[p] # "error")
  BY <1>0, <1>f, AtAlone
<1>2. f.ws \in Workspace /\ f.window \in Window
  BY <1>1 DEF FrameOf
<1>3. UNCHANGED <<workspaces, tabs, blocks, windows, client, told, stale>>
  BY DEF GetWindow, rows
<1>4. result \in [Call -> {"ok", "error", "panic"}]
  BY <1>1 DEF TypeInv, TypeOK
<1>5. CASE windows[f.window] = NoOid
  <2>a. Return(p, "error")
    <3>1. windows[f.window] # f.ws
      BY <1>5, <1>2, CallsAssumption
    <3> QED
      BY <1>1, <1>5, <1>f, <3>1 DEF GetWindow
  <2>b. (result'[p] # "error") = FALSE
    BY <1>4, <2>a DEF Return
  <2>c. \A x \in Under(p) : Above(x, f) /\ Keeps(x, f, TRUE) => Keeps(x, NoFrame, FALSE)
    BY ReturnsError
  <2>d. f.at \notin WindowAts /\ \A w \in Existing(windows) : ~Closes(f, w)
    BY <1>1 DEF WindowAts, Closes
  <2> QED
    BY <1>1, <1>3, <1>f, <2>a, <2>b, <2>c, <2>d, QuietReturn
<1>6. CASE windows[f.window] # NoOid /\ windows[f.window] = f.ws
  <2>a. Return(p, "ok")
    BY <1>1, <1>6, <1>f DEF GetWindow
  <2>b. (result'[p] # "error") = TRUE
    BY <1>4, <2>a DEF Return
  <2>c. \A x \in Under(p) : Above(x, f) /\ Keeps(x, f, TRUE) => Keeps(x, NoFrame, TRUE)
    BY <1>1, ReturnsOk DEF BlockAts, TabAts, GoneAts
  <2>d. f.at \notin WindowAts /\ \A w \in Existing(windows) : ~Closes(f, w)
    BY <1>1 DEF WindowAts, Closes
  <2> QED
    BY <1>1, <1>3, <1>f, <2>a, <2>b, <2>c, <2>d, QuietReturn
<1>7. CASE windows[f.window] # NoOid /\ windows[f.window] # f.ws
  <2> DEFINE g == [at |-> "otherWindows", window |-> f.window, ws |-> f.ws,
         read |-> windows[f.window]]
  <2>a. g.at = "otherWindows" /\ g.ws = f.ws /\ g.window = f.window /\ g.read = windows[f.window]
    BY <1>1, <1>2
  <2>b. Goto(p, g) /\ UNCHANGED result
    BY <1>1, <1>7, <1>f DEF GetWindow
  <2>c. (result'[p] # "error") = (result[p] # "error")
    BY <1>4, <2>b
  <2> HIDE DEF g
  <2>d. TakesOver(f, g)
    BY <1>1, FreeFacts, TakesOverFits DEF Free, BlockAts, TabAts, GoneAts, DeleteAts, CreateAts
  <2>h. Keeps(g, NoFrame, (result[p] # "error"))
    BY <2>a, KeepsAny DEF KeepAts, NewWindows
  <2>i. Reads(g)
    BY <1>1, <1>2, <1>7, <2>a DEF Reads, GoneAts
  <2>j. WindowsListed(g)
    BY <1>1, <2>a, WindowsListedKept DEF WindowAts
  <2>k. \A w \in Existing(windows) : Closes(f, w) => Closes(g, w)
    BY <1>1 DEF Closes
  <2> QED
    BY <1>1, <1>3, <1>f, <2>b, <2>c, <2>d, <2>h, <2>i, <2>j, <2>k, QuietGoto
<1> QED
  BY <1>5, <1>6, <1>7

LEMMA CheckOtherWindowsAlone ==
    ASSUME IInv, NEW p \in Call, Alone(p), ~stale, CheckOtherWindows(p)
    PROVE  ~stale' /\ Alone(p)'
<1>f. PICK f : f = Top(p)
  OBVIOUS
<1>0. At(p, "otherWindows")
  BY DEF CheckOtherWindows
<1>1. /\ TypeInv /\ stack[p] # <<>> /\ f = Head(stack[p])
      /\ f \in FrameOf("otherWindows") /\ f.at = "otherWindows"
      /\ RowsInv /\ CallsInv /\ TopInv(f) /\ RowInv(f)
      /\ Reads(f) /\ WindowsListed(f) /\ Keeps(f, NoFrame, result[p] # "error")
  BY <1>0, <1>f, AtAlone
<1>2. f.ws \in Workspace /\ f.window \in Window
  BY <1>1 DEF FrameOf
<1>3. UNCHANGED <<workspaces, tabs, blocks, windows, client, told, stale>>
  BY DEF CheckOtherWindows, rows
<1>4. result \in [Call -> {"ok", "error", "panic"}]
  BY <1>1 DEF TypeInv, TypeOK
<1>5. CASE f.ws \in {windows[w] : w \in Existing(windows)}
  <2>a. Return(p, "ok")
    BY <1>1, <1>5, <1>f DEF CheckOtherWindows
  <2>b. (result'[p] # "error") = TRUE
    BY <1>4, <2>a DEF Return
  <2>c. \A x \in Under(p) : Above(x, f) /\ Keeps(x, f, TRUE) => Keeps(x, NoFrame, TRUE)
    BY <1>1, ReturnsOk DEF BlockAts, TabAts, GoneAts
  <2>d. f.at \notin WindowAts /\ \A w \in Existing(windows) : ~Closes(f, w)
    BY <1>1 DEF WindowAts, Closes
  <2> QED
    BY <1>1, <1>3, <1>f, <2>a, <2>b, <2>c, <2>d, QuietReturn
<1>6. CASE f.ws \notin {windows[w] : w \in Existing(windows)}
  <2> DEFINE g == [f EXCEPT !.at = "updateWindow"]
  <2>a. g.at = "updateWindow" /\ g.ws = f.ws /\ g.window = f.window /\ g.read = f.read
    BY <1>1 DEF FrameOf
  <2>b. Goto(p, g) /\ UNCHANGED result
    BY <1>1, <1>6, <1>f DEF CheckOtherWindows
  <2>c. (result'[p] # "error") = (result[p] # "error")
    BY <1>4, <2>b
  <2> HIDE DEF g
  <2>d. TakesOver(f, g)
    BY <1>1, FreeFacts, TakesOverFits DEF Free, BlockAts, TabAts, GoneAts, DeleteAts, CreateAts
  <2>h. Keeps(g, NoFrame, (result[p] # "error"))
    BY <2>a, KeepsAny DEF KeepAts, NewWindows
  <2>i. Reads(g)
    BY <1>1, <1>2, <1>6, <2>a DEF Reads, GoneAts
  <2>j. WindowsListed(g)
    BY <1>1, <2>a, WindowsListedKept DEF WindowAts
  <2>k. \A w \in Existing(windows) : Closes(f, w) => Closes(g, w)
    BY <1>1 DEF Closes
  <2> QED
    BY <1>1, <1>3, <1>f, <2>b, <2>c, <2>d, <2>h, <2>i, <2>j, <2>k, QuietGoto
<1> QED
  BY <1>5, <1>6

LEMMA SetWindowPosAndSizeAlone ==
    ASSUME IInv, NEW p \in Call, Alone(p), ~stale, SetWindowPosAndSize(p)
    PROVE  ~stale' /\ Alone(p)'
<1>f. PICK f : f = Top(p)
  OBVIOUS
<1>0. At(p, "SetWindowPosAndSize")
  BY DEF SetWindowPosAndSize
<1>1. /\ TypeInv /\ stack[p] # <<>> /\ f = Head(stack[p])
      /\ f \in FrameOf("SetWindowPosAndSize") /\ f.at = "SetWindowPosAndSize"
      /\ RowsInv /\ CallsInv /\ TopInv(f) /\ RowInv(f)
      /\ Reads(f) /\ WindowsListed(f) /\ Keeps(f, NoFrame, result[p] # "error")
  BY <1>0, <1>f, AtAlone
<1>2. f.window \in Window
  BY <1>1 DEF FrameOf
<1>3. UNCHANGED <<workspaces, tabs, blocks, windows, client, told, stale>>
  BY DEF SetWindowPosAndSize, rows
<1>4. result \in [Call -> {"ok", "error", "panic"}]
  BY <1>1 DEF TypeInv, TypeOK
<1>5. CASE windows[f.window] = NoOid
  <2>a. Return(p, "error")
    BY <1>1, <1>5, <1>f DEF SetWindowPosAndSize
  <2>b. (result'[p] # "error") = FALSE
    BY <1>4, <2>a DEF Return
  <2>c. \A x \in Under(p) : Above(x, f) /\ Keeps(x, f, TRUE) => Keeps(x, NoFrame, FALSE)
    BY ReturnsError
  <2>d. f.at \notin WindowAts /\ \A w \in Existing(windows) : ~Closes(f, w)
    BY <1>1 DEF WindowAts, Closes
  <2> QED
    BY <1>1, <1>3, <1>f, <2>a, <2>b, <2>c, <2>d, QuietReturn
<1>6. CASE windows[f.window] # NoOid
  <2> DEFINE g == [at |-> "updateWindow", window |-> f.window, ws |-> windows[f.window],
         read |-> windows[f.window]]
  <2>a. g.at = "updateWindow" /\ g.window = f.window /\ g.ws = windows[f.window]
        /\ g.read = windows[f.window]
    BY <1>1, <1>2
  <2>b. Goto(p, g) /\ UNCHANGED result
    BY <1>1, <1>6, <1>f DEF SetWindowPosAndSize
  <2>c. (result'[p] # "error") = (result[p] # "error")
    BY <1>4, <2>b
  <2> HIDE DEF g
  <2>d. TakesOver(f, g)
    BY <1>1, FreeFacts, TakesOverFits DEF Free, BlockAts, TabAts, GoneAts, DeleteAts, CreateAts
  <2>h. Keeps(g, NoFrame, (result[p] # "error"))
    BY <2>a, KeepsAny DEF KeepAts, NewWindows
  <2>i. Reads(g)
    BY <1>1, <1>2, <1>6, <2>a DEF Reads, GoneAts
  <2>j. WindowsListed(g)
    BY <1>1, <2>a, WindowsListedKept DEF WindowAts
  <2>k. \A w \in Existing(windows) : Closes(f, w) => Closes(g, w)
    BY <1>1 DEF Closes
  <2> QED
    BY <1>1, <1>3, <1>f, <2>b, <2>c, <2>d, <2>h, <2>i, <2>j, <2>k, QuietGoto
<1> QED
  BY <1>5, <1>6

LEMMA ReadForActiveAlone ==
    ASSUME IInv, NEW p \in Call, Alone(p), ~stale, ReadForActive(p)
    PROVE  ~stale' /\ Alone(p)'
<1>f. PICK f : f = Top(p)
  OBVIOUS
<1>0. At(p, "SetActiveTab")
  BY DEF ReadForActive
<1>1. /\ TypeInv /\ stack[p] # <<>> /\ f = Head(stack[p])
      /\ f \in FrameOf("SetActiveTab") /\ f.at = "SetActiveTab"
      /\ RowsInv /\ CallsInv /\ TopInv(f) /\ RowInv(f)
      /\ Reads(f) /\ WindowsListed(f) /\ Keeps(f, NoFrame, result[p] # "error")
  BY <1>0, <1>f, AtAlone
<1>2. f.ws \in Workspace /\ f.tab \in Tab
  BY <1>1 DEF FrameOf
<1>3. UNCHANGED <<workspaces, tabs, blocks, windows, client, told, stale>>
  BY DEF ReadForActive, rows
<1>4. result \in [Call -> {"ok", "error", "panic"}]
  BY <1>1 DEF TypeInv, TypeOK
<1>5. CASE workspaces[f.ws] = NoOid
  <2>a. Return(p, "error")
    BY <1>1, <1>5, <1>f DEF ReadForActive
  <2>b. (result'[p] # "error") = FALSE
    BY <1>4, <2>a DEF Return
  <2>c. \A x \in Under(p) : Above(x, f) /\ Keeps(x, f, TRUE) => Keeps(x, NoFrame, FALSE)
    BY ReturnsError
  <2>d. f.at \notin WindowAts /\ \A w \in Existing(windows) : ~Closes(f, w)
    BY <1>1 DEF WindowAts, Closes
  <2> QED
    BY <1>1, <1>3, <1>f, <2>a, <2>b, <2>c, <2>d, QuietReturn
<1>6. CASE workspaces[f.ws] # NoOid
  <2> DEFINE g == [at |-> "SetActiveTab:tab", ws |-> f.ws, tab |-> f.tab, read |-> workspaces[f.ws]]
  <2>a. g.at = "SetActiveTab:tab" /\ g.ws = f.ws /\ g.tab = f.tab /\ g.read = workspaces[f.ws]
    BY <1>1, <1>2
  <2>b. Goto(p, g) /\ UNCHANGED result
    BY <1>1, <1>6, <1>f DEF ReadForActive
  <2>c. (result'[p] # "error") = (result[p] # "error")
    BY <1>4, <2>b
  <2> HIDE DEF g
  <2>d. TakesOver(f, g)
    BY <1>1, <2>a
       DEF TakesOver, OnlyBlocks, OnlyTabs, BlockAts, TabAts, GoneAts, DeleteAts, CreateAts
  <2>h. Keeps(g, NoFrame, (result[p] # "error"))
    BY <2>a, KeepsAny DEF KeepAts, NewWindows
  <2>i. Reads(g)
    BY <1>1, <1>2, <1>6, <2>a DEF Reads, GoneAts
  <2>j. WindowsListed(g)
    BY <1>1, <2>a, WindowsListedKept DEF WindowAts
  <2>k. \A w \in Existing(windows) : Closes(f, w) => Closes(g, w)
    BY <1>1 DEF Closes
  <2> QED
    BY <1>1, <1>3, <1>f, <2>b, <2>c, <2>d, <2>h, <2>i, <2>j, <2>k, QuietGoto
<1> QED
  BY <1>5, <1>6

LEMMA CheckTabAlone ==
    ASSUME IInv, NEW p \in Call, Alone(p), ~stale, CheckTab(p)
    PROVE  ~stale' /\ Alone(p)'
<1>f. PICK f : f = Top(p)
  OBVIOUS
<1>0. At(p, "SetActiveTab:tab")
  BY DEF CheckTab
<1>1. /\ TypeInv /\ stack[p] # <<>> /\ f = Head(stack[p])
      /\ f \in FrameOf("SetActiveTab:tab") /\ f.at = "SetActiveTab:tab"
      /\ RowsInv /\ CallsInv /\ TopInv(f) /\ RowInv(f)
      /\ Reads(f) /\ WindowsListed(f) /\ Keeps(f, NoFrame, result[p] # "error")
  BY <1>0, <1>f, AtAlone
<1>2. f.ws \in Workspace /\ f.tab \in Tab /\ f.read \in WorkspaceRow
  BY <1>1 DEF FrameOf
<1>3. UNCHANGED <<workspaces, tabs, blocks, windows, client, told, stale>>
  BY DEF CheckTab, rows
<1>4. result \in [Call -> {"ok", "error", "panic"}]
  BY <1>1 DEF TypeInv, TypeOK
<1>5. CASE tabs[f.tab] = NoOid
  <2>a. Return(p, "error")
    BY <1>1, <1>5, <1>f DEF CheckTab
  <2>b. (result'[p] # "error") = FALSE
    BY <1>4, <2>a DEF Return
  <2>c. \A x \in Under(p) : Above(x, f) /\ Keeps(x, f, TRUE) => Keeps(x, NoFrame, FALSE)
    BY ReturnsError
  <2>d. f.at \notin WindowAts /\ \A w \in Existing(windows) : ~Closes(f, w)
    BY <1>1 DEF WindowAts, Closes
  <2> QED
    BY <1>1, <1>3, <1>f, <2>a, <2>b, <2>c, <2>d, QuietReturn
<1>6. CASE tabs[f.tab] # NoOid
  <2> DEFINE g == [at |-> "writeBack", ws |-> f.ws, read |-> f.read,
         new |-> [f.read EXCEPT !.active = f.tab]]
  <2>a. g.at = "writeBack" /\ g.ws = f.ws /\ g.read = f.read
        /\ g.new = [f.read EXCEPT !.active = f.tab]
    BY <1>1, <1>2
  <2>b. Goto(p, g) /\ UNCHANGED result
    BY <1>1, <1>6, <1>f DEF CheckTab
  <2>c. (result'[p] # "error") = (result[p] # "error")
    BY <1>4, <2>b
  <2> HIDE DEF g
  <2>d. TakesOver(f, g)
    BY <1>1, <2>a
       DEF TakesOver, OnlyBlocks, OnlyTabs, BlockAts, TabAts, GoneAts, DeleteAts, CreateAts
  <2>h. Keeps(g, NoFrame, (result[p] # "error"))
    BY <2>a, KeepsAny DEF KeepAts, NewWindows
  <2>i. Reads(g)
    <3>1. g.new.active = f.tab /\ Listed(g.new) = Listed(f.read)
      BY <1>2, <2>a DEF WorkspaceRow, Listed
    <3>2. f.read = workspaces[f.ws] /\ f.tab \in Listed(f.read)
      BY <1>1 DEF Reads
    <3> QED
      BY <2>a, <3>1, <3>2 DEF Reads, GoneAts
  <2>j. WindowsListed(g)
    BY <1>1, <2>a, WindowsListedKept DEF WindowAts
  <2>k. \A w \in Existing(windows) : Closes(f, w) => Closes(g, w)
    BY <1>1 DEF Closes
  <2> QED
    BY <1>1, <1>3, <1>f, <2>b, <2>c, <2>d, <2>h, <2>i, <2>j, <2>k, QuietGoto
<1> QED
  BY <1>5, <1>6

LEMMA QueueAfterReplaceAlone ==
    ASSUME IInv, NEW p \in Call, Alone(p), ~stale, QueueAfterReplace(p)
    PROVE  ~stale' /\ Alone(p)'
<1>f. PICK f : f = Top(p)
  OBVIOUS
<1>0. At(p, "CreateBlock:replaced")
  BY DEF QueueAfterReplace
<1>1. /\ TypeInv /\ stack[p] # <<>> /\ f = Head(stack[p])
      /\ f \in FrameOf("CreateBlock:replaced") /\ f.at = "CreateBlock:replaced"
      /\ RowsInv /\ CallsInv /\ TopInv(f) /\ RowInv(f)
      /\ Reads(f) /\ WindowsListed(f) /\ Keeps(f, NoFrame, result[p] # "error")
  BY <1>0, <1>f, AtAlone
<1>2. f.tab \in Tab
  BY <1>1 DEF FrameOf
<1>3. UNCHANGED <<workspaces, tabs, blocks, windows, client, told, stale>>
  BY DEF QueueAfterReplace, rows
<1>4. result \in [Call -> {"ok", "error", "panic"}]
  BY <1>1 DEF TypeInv, TypeOK
<1>5. CASE Failed(p)
  <2>a. Return(p, "error")
    BY <1>1, <1>5, <1>f DEF QueueAfterReplace
  <2>b. (result'[p] # "error") = FALSE
    BY <1>4, <2>a DEF Return
  <2>c. \A x \in Under(p) : Above(x, f) /\ Keeps(x, f, TRUE) => Keeps(x, NoFrame, FALSE)
    BY ReturnsError
  <2>d. f.at \notin WindowAts /\ \A w \in Existing(windows) : ~Closes(f, w)
    BY <1>1 DEF WindowAts, Closes
  <2> QED
    BY <1>1, <1>3, <1>f, <2>a, <2>b, <2>c, <2>d, QuietReturn
<1>6. CASE ~Failed(p)
  <2> DEFINE g == [f EXCEPT !.at = "GetLayoutIdForTab"]
  <2>a. g.at = "GetLayoutIdForTab"
    BY <1>1 DEF FrameOf
  <2>b. Goto(p, g) /\ UNCHANGED result
    BY <1>1, <1>6, <1>f DEF QueueAfterReplace
  <2>c. (result'[p] # "error") = (result[p] # "error")
    BY <1>4, <2>b
  <2> HIDE DEF g
  <2>d. TakesOver(f, g)
    BY <1>1, FreeFacts, TakesOverFits DEF Free, BlockAts, TabAts, GoneAts, DeleteAts, CreateAts
  <2>h. Keeps(g, NoFrame, (result[p] # "error"))
    BY <2>a, KeepsAny DEF KeepAts, NewWindows
  <2>i. Reads(g)
    BY <2>a, ReadsAny DEF ReadAts
  <2>j. WindowsListed(g)
    BY <1>1, <2>a, WindowsListedKept DEF WindowAts
  <2>k. \A w \in Existing(windows) : Closes(f, w) => Closes(g, w)
    BY <1>1 DEF Closes
  <2> QED
    BY <1>1, <1>3, <1>f, <2>b, <2>c, <2>d, <2>h, <2>i, <2>j, <2>k, QuietGoto
<1> QED
  BY <1>5, <1>6

LEMMA MoveBlockToNewWindowAlone ==
    ASSUME IInv, NEW p \in Call, Alone(p), ~stale, MoveBlockToNewWindow(p)
    PROVE  ~stale' /\ Alone(p)'
<1>f. PICK f : f = Top(p)
  OBVIOUS
<1>0. At(p, "MoveBlockToNewWindow")
  BY DEF MoveBlockToNewWindow
<1>1. /\ TypeInv /\ stack[p] # <<>> /\ f = Head(stack[p])
      /\ f \in FrameOf("MoveBlockToNewWindow") /\ f.at = "MoveBlockToNewWindow"
      /\ RowsInv /\ CallsInv /\ TopInv(f) /\ RowInv(f)
      /\ Reads(f) /\ WindowsListed(f) /\ Keeps(f, NoFrame, result[p] # "error")
  BY <1>0, <1>f, AtAlone
<1>2. f.ws \in Workspace /\ f.window \in Window
  BY <1>1 DEF FrameOf
<1>3. UNCHANGED <<workspaces, tabs, blocks, windows, client, told, stale>>
  BY DEF MoveBlockToNewWindow, rows
<1>4. result \in [Call -> {"ok", "error", "panic"}]
  BY <1>1 DEF TypeInv, TypeOK
<1>5. CASE tabs[f.tab] = NoOid \/ f.block \notin ToSet(tabs[f.tab])
  <2>a. Return(p, "error")
    BY <1>1, <1>5, <1>f DEF MoveBlockToNewWindow
  <2>b. (result'[p] # "error") = FALSE
    BY <1>4, <2>a DEF Return
  <2>c. \A x \in Under(p) : Above(x, f) /\ Keeps(x, f, TRUE) => Keeps(x, NoFrame, FALSE)
    BY ReturnsError
  <2>d. f.at \notin WindowAts /\ \A w \in Existing(windows) : ~Closes(f, w)
    BY <1>1 DEF WindowAts, Closes
  <2> QED
    BY <1>1, <1>3, <1>f, <2>a, <2>b, <2>c, <2>d, QuietReturn
<1>6. CASE ~(tabs[f.tab] = NoOid \/ f.block \notin ToSet(tabs[f.tab]))
  <2> DEFINE g == [at |-> "CreateWindow", window |-> f.window, ws |-> f.ws, new |-> TRUE]
            h == [f EXCEPT !.at = "newWorkspace"]
  <2>a. g.at = "CreateWindow" /\ g.ws = f.ws /\ g.window = f.window /\ h.at = "newWorkspace"
    BY <1>1 DEF FrameOf
  <2>b. CallThen(p, g, h) /\ UNCHANGED result
    BY <1>1, <1>6, <1>f DEF MoveBlockToNewWindow
  <2>c. (result'[p] # "error") = (result[p] # "error")
    BY <1>4, <2>b
  <2> HIDE DEF g, h
  <2>d. TakesOver(f, h) /\ Fits(f, g)
    BY <1>1, FreeFacts, TakesOverFits DEF Free, BlockAts, TabAts, GoneAts, DeleteAts, CreateAts
  <2>u. Above(h, g)
    BY <2>a DEF Above
  <2>g. Keeps(h, g, TRUE)
    BY <2>a, KeepsAny DEF KeepAts, NewWindows
  <2>h. Keeps(g, NoFrame, (result[p] # "error"))
    BY <1>1, <2>a DEF Keeps, NewWindows
  <2>i. Reads(g)
    BY <2>a, ReadsAny DEF ReadAts
  <2>j. WindowsListed(g)
    BY <1>1, <2>a, WindowsListedKept DEF WindowAts
  <2>k. \A w \in Existing(windows) : Closes(f, w) => Closes(h, w)
    BY <1>1 DEF Closes
  <2> QED
    BY <1>1, <1>3, <1>f, <2>b, <2>c, <2>d, <2>u, <2>g, <2>h, <2>i, <2>j, <2>k, QuietCall
<1> QED
  BY <1>5, <1>6

LEMMA ReadNewWorkspaceAlone ==
    ASSUME IInv, NEW p \in Call, Alone(p), ~stale, ReadNewWorkspace(p)
    PROVE  ~stale' /\ Alone(p)'
<1>f. PICK f : f = Top(p)
  OBVIOUS
<1>0. At(p, "newWorkspace")
  BY DEF ReadNewWorkspace
<1>1. /\ TypeInv /\ stack[p] # <<>> /\ f = Head(stack[p])
      /\ f \in FrameOf("newWorkspace") /\ f.at = "newWorkspace"
      /\ RowsInv /\ CallsInv /\ TopInv(f) /\ RowInv(f)
      /\ Reads(f) /\ WindowsListed(f) /\ Keeps(f, NoFrame, result[p] # "error")
  BY <1>0, <1>f, AtAlone
<1>2. f.ws \in Workspace /\ f.window \in Window
  BY <1>1 DEF FrameOf
<1>3. UNCHANGED <<workspaces, tabs, blocks, windows, client, told, stale>>
  BY DEF ReadNewWorkspace, rows
<1>4. result \in [Call -> {"ok", "error", "panic"}]
  BY <1>1 DEF TypeInv, TypeOK
<1>5. CASE Failed(p) \/ windows[f.window] = NoOid \/ workspaces[f.ws] = NoOid
  <2>a. Return(p, "error")
    BY <1>1, <1>5, <1>f DEF ReadNewWorkspace
  <2>b. (result'[p] # "error") = FALSE
    BY <1>4, <2>a DEF Return
  <2>c. \A x \in Under(p) : Above(x, f) /\ Keeps(x, f, TRUE) => Keeps(x, NoFrame, FALSE)
    BY ReturnsError
  <2>d. f.at \notin WindowAts /\ \A w \in Existing(windows) : ~Closes(f, w)
    BY <1>1 DEF WindowAts, Closes
  <2> QED
    BY <1>1, <1>3, <1>f, <2>a, <2>b, <2>c, <2>d, QuietReturn
<1>6. CASE ~(Failed(p) \/ windows[f.window] = NoOid \/ workspaces[f.ws] = NoOid)
  <2> DEFINE g == [at |-> "MoveBlockToTab", tab |-> f.tab, block |-> f.block,
         to |-> workspaces[f.ws].active]
  <2>a. g.at = "MoveBlockToTab"
    BY <1>1, <1>2
  <2>b. Goto(p, g) /\ UNCHANGED result
    BY <1>1, <1>6, <1>f DEF ReadNewWorkspace
  <2>c. (result'[p] # "error") = (result[p] # "error")
    BY <1>4, <2>b
  <2> HIDE DEF g
  <2>d. TakesOver(f, g)
    BY <1>1, FreeFacts, TakesOverFits DEF Free, BlockAts, TabAts, GoneAts, DeleteAts, CreateAts
  <2>h. Keeps(g, NoFrame, (result[p] # "error"))
    BY <2>a, KeepsAny DEF KeepAts, NewWindows
  <2>i. Reads(g)
    BY <2>a, ReadsAny DEF ReadAts
  <2>j. WindowsListed(g)
    BY <1>1, <2>a, WindowsListedKept DEF WindowAts
  <2>k. \A w \in Existing(windows) : Closes(f, w) => Closes(g, w)
    BY <1>1 DEF Closes
  <2> QED
    BY <1>1, <1>3, <1>f, <2>b, <2>c, <2>d, <2>h, <2>i, <2>j, <2>k, QuietGoto
<1> QED
  BY <1>5, <1>6

LEMMA DeleteBlockCommandAlone ==
    ASSUME IInv, NEW p \in Call, Alone(p), ~stale, DeleteBlockCommand(p)
    PROVE  ~stale' /\ Alone(p)'
<1>f. PICK f : f = Top(p)
  OBVIOUS
<1>0. At(p, "DeleteBlockCommand")
  BY DEF DeleteBlockCommand
<1>1. /\ TypeInv /\ stack[p] # <<>> /\ f = Head(stack[p])
      /\ f \in FrameOf("DeleteBlockCommand") /\ f.at = "DeleteBlockCommand"
      /\ RowsInv /\ CallsInv /\ TopInv(f) /\ RowInv(f)
      /\ Reads(f) /\ WindowsListed(f) /\ Keeps(f, NoFrame, result[p] # "error")
  BY <1>0, <1>f, AtAlone
<1>2. f.block \in Block
  BY <1>1 DEF FrameOf
<1>3. UNCHANGED <<workspaces, tabs, blocks, windows, client, told, stale>>
  BY DEF DeleteBlockCommand, rows
<1>4. result \in [Call -> {"ok", "error", "panic"}]
  BY <1>1 DEF TypeInv, TypeOK
<1>5. CASE TabOf(f.block) = NoOid
  <2>a. Return(p, "error")
    BY <1>1, <1>5, <1>f DEF DeleteBlockCommand
  <2>b. (result'[p] # "error") = FALSE
    BY <1>4, <2>a DEF Return
  <2>c. \A x \in Under(p) : Above(x, f) /\ Keeps(x, f, TRUE) => Keeps(x, NoFrame, FALSE)
    BY ReturnsError
  <2>d. f.at \notin WindowAts /\ \A w \in Existing(windows) : ~Closes(f, w)
    BY <1>1 DEF WindowAts, Closes
  <2> QED
    BY <1>1, <1>3, <1>f, <2>a, <2>b, <2>c, <2>d, QuietReturn
<1>6. CASE TabOf(f.block) # NoOid
  <2> DEFINE g == [at |-> "DeleteBlock", block |-> f.block, recursive |-> TRUE]
            h == [at |-> "CreateBlock:replaced", tab |-> TabOf(f.block)]
  <2>a. g.at = "DeleteBlock" /\ h.at = "CreateBlock:replaced"
    BY <1>1, <1>2
  <2>b. CallThen(p, g, h) /\ UNCHANGED result
    BY <1>1, <1>6, <1>f DEF DeleteBlockCommand
  <2>c. (result'[p] # "error") = (result[p] # "error")
    BY <1>4, <2>b
  <2> HIDE DEF g, h
  <2>d. TakesOver(f, h) /\ Fits(f, g)
    BY <1>1, FreeFacts, TakesOverFits DEF Free, BlockAts, TabAts, GoneAts, DeleteAts, CreateAts
  <2>u. Above(h, g)
    BY <2>a DEF Above
  <2>g. Keeps(h, g, TRUE)
    BY <2>a, KeepsAny DEF KeepAts, NewWindows
  <2>h. Keeps(g, NoFrame, (result[p] # "error"))
    BY <2>a, KeepsAny DEF KeepAts, NewWindows
  <2>i. Reads(g)
    BY <2>a, ReadsAny DEF ReadAts
  <2>j. WindowsListed(g)
    BY <1>1, <2>a, WindowsListedKept DEF WindowAts
  <2>k. \A w \in Existing(windows) : Closes(f, w) => Closes(h, w)
    BY <1>1 DEF Closes
  <2> QED
    BY <1>1, <1>3, <1>f, <2>b, <2>c, <2>d, <2>u, <2>g, <2>h, <2>i, <2>j, <2>k, QuietCall
<1> QED
  BY <1>5, <1>6

-----------------------------------------------------------------------------
(* ... and those that read and write one row of their own                  *)

LEMMA GetClientDataAlone ==
    ASSUME IInv, NEW p \in Call, Alone(p), ~stale, GetClientData(p)
    PROVE  ~stale' /\ Alone(p)'
<1>f. PICK f : f = Top(p)
  OBVIOUS
<1>0. PICK at \in {"CreateWindow:client", "FocusWindow"} : At(p, at)
  BY DEF GetClientData
<1>1. /\ TypeInv /\ stack[p] # <<>> /\ f = Head(stack[p]) /\ f \in FrameOf(at) /\ f.at = at
      /\ RowsInv /\ CallsInv /\ TopInv(f) /\ RowInv(f)
      /\ Reads(f) /\ WindowsListed(f) /\ Keeps(f, NoFrame, result[p] # "error")
  BY <1>0, <1>f, AtAlone
<1>2. f.window \in Window
  BY <1>0, <1>1 DEF FrameOf
<1>3. UNCHANGED <<workspaces, tabs, blocks, windows, client, told, stale>>
  BY DEF GetClientData, rows
<1>4. result \in [Call -> {"ok", "error", "panic"}] /\ client \in Seq(Window)
      /\ IsInjective(client)
  BY <1>1, RowTypes DEF TypeInv, TypeOK, Alone
<1>5. CASE f.at = "FocusWindow" /\ f.window \notin ToSet(client)
  <2>a. Return(p, "ok")
    BY <1>1, <1>5, <1>f DEF GetClientData
  <2>b. (result'[p] # "error") = TRUE
    BY <1>4, <2>a DEF Return
  <2>c. \A x \in Under(p) : Above(x, f) /\ Keeps(x, f, TRUE) => Keeps(x, NoFrame, TRUE)
    BY <1>5, ReturnsOk DEF BlockAts, TabAts, GoneAts
  <2>d. f.at \notin WindowAts /\ \A w \in Existing(windows) : ~Closes(f, w)
    BY <1>5 DEF WindowAts, Closes
  <2> QED
    BY <1>1, <1>3, <1>f, <2>a, <2>b, <2>c, <2>d, QuietReturn
<1>6. CASE ~(f.at = "FocusWindow" /\ f.window \notin ToSet(client))
  <2>n. PICK new : new = IF f.at = "FocusWindow" THEN <<f.window>> \o RemoveFirst(client, f.window)
                                                 ELSE Append(client, f.window)
    OBVIOUS
  <2>1. ToSet(new) = Existing(windows) /\ IsInjective(new)
    <3>1. CASE f.at = "FocusWindow"
      <4>1. f.window \in ToSet(client) /\ new = <<f.window>> \o RemoveFirst(client, f.window)
        BY <1>6, <2>n, <3>1
      <4>2. /\ RemoveFirst(client, f.window) \in Seq(Window)
            /\ IsInjective(RemoveFirst(client, f.window))
            /\ ToSet(RemoveFirst(client, f.window)) = ToSet(client) \ {f.window}
        BY <1>4, RemoveFirstFacts
      <4>3. IsInjective(new) /\ ToSet(new) = ToSet(client)
        <5>1. PICK s : s = RemoveFirst(client, f.window)
          OBVIOUS
        <5>2. s \in Seq(Window) /\ IsInjective(s) /\ ToSet(s) = ToSet(client) \ {f.window}
              /\ new = <<f.window>> \o s
          BY <4>1, <4>2, <5>1
        <5>3. ToSet(new) = ToSet(s) \cup {f.window} /\ IsInjective(new)
          BY <1>2, <5>2, PrependFacts
        <5> QED
          BY <4>1, <5>2, <5>3
      <4>4. ToSet(client) = Existing(windows)
        <5>1. \A w \in ToSet(client) : w \in DOMAIN windows
          BY <1>1, <1>4, RowTypes, ToSetIn
        <5> QED
          BY <1>1, <3>1, <5>1 DEF WindowsListed, Existing
      <4> QED
        BY <4>3, <4>4
    <3>2. CASE f.at = "CreateWindow:client"
      <4>1. new = Append(client, f.window)
        BY <2>n, <3>2
      <4>2. windows[f.window] # NoOid /\ f.window \notin ToSet(client)
        BY <1>1, <3>2 DEF WindowsListed
      <4>3. IsInjective(new) /\ ToSet(new) = ToSet(client) \cup {f.window}
        BY <1>2, <1>4, <4>1, <4>2, AppendFacts
      <4>4. ToSet(client) \cup {f.window} = Existing(windows)
        <5>1. \A w \in ToSet(client) \cup {f.window} : w \in DOMAIN windows
          BY <1>1, <1>2, <1>4, RowTypes, ToSetIn
        <5> QED
          BY <1>1, <3>2, <4>2, <5>1 DEF WindowsListed, Existing
      <4> QED
        BY <4>3, <4>4
    <3> QED
      BY <1>0, <1>1, <3>1, <3>2
  <2> DEFINE g == [at |-> "updateClient", read |-> client, new |-> new]
  <2>a. g.at = "updateClient" /\ g.read = client /\ g.new = new
    OBVIOUS
  <2>b. Goto(p, g) /\ UNCHANGED result
    BY <1>1, <1>6, <1>f, <2>n DEF GetClientData
  <2>c. (result'[p] # "error") = (result[p] # "error")
    BY <1>4, <2>b
  <2> HIDE DEF g
  <2>d. TakesOver(f, g)
    BY <1>0, <1>1, FreeFacts DEF Free, BlockAts, TabAts, GoneAts, DeleteAts, CreateAts
  <2>h. Keeps(g, NoFrame, (result[p] # "error"))
    BY <2>a, KeepsAny DEF KeepAts, NewWindows
  <2>i. Reads(g)
    BY <2>a DEF Reads, GoneAts
  <2>j. WindowsListed(g)
    BY <1>0, <1>1, <2>1, <2>a DEF WindowsListed, Existing
  <2>k. \A w \in Existing(windows) : Closes(f, w) => Closes(g, w)
    BY <1>0, <1>1 DEF Closes
  <2> QED
    BY <1>1, <1>3, <1>f, <2>b, <2>c, <2>d, <2>h, <2>i, <2>j, <2>k, QuietGoto
<1> QED
  BY <1>5, <1>6

LEMMA ReadBlockAlone ==
    ASSUME IInv, NEW p \in Call, Alone(p), ~stale, ReadBlock(p)
    PROVE  ~stale' /\ Alone(p)'
<1>f. PICK f : f = Top(p)
  OBVIOUS
<1>0. PICK at \in {"SetView", "setTermSize"} : At(p, at)
  BY DEF ReadBlock
<1>1. /\ TypeInv /\ stack[p] # <<>> /\ f = Head(stack[p]) /\ f \in FrameOf(at) /\ f.at = at
      /\ RowsInv /\ CallsInv /\ TopInv(f) /\ RowInv(f)
      /\ Reads(f) /\ WindowsListed(f) /\ Keeps(f, NoFrame, result[p] # "error")
  BY <1>0, <1>f, AtAlone
<1>3. UNCHANGED <<workspaces, tabs, blocks, windows, client, told, stale>>
  BY DEF ReadBlock, rows
<1>4. result \in [Call -> {"ok", "error", "panic"}]
  BY <1>1 DEF TypeInv, TypeOK
<1>5. CASE blocks[f.block] = NoOid /\ f.at # "SetView"
  <2>a. Return(p, "error")
    BY <1>1, <1>5, <1>f DEF ReadBlock
  <2>b. (result'[p] # "error") = FALSE
    BY <1>4, <2>a DEF Return
  <2>c. \A x \in Under(p) : Above(x, f) /\ Keeps(x, f, TRUE) => Keeps(x, NoFrame, FALSE)
    BY ReturnsError
  <2>d. f.at \notin WindowAts /\ \A w \in Existing(windows) : ~Closes(f, w)
    BY <1>0, <1>1 DEF WindowAts, Closes
  <2> QED
    BY <1>1, <1>3, <1>f, <2>a, <2>b, <2>c, <2>d, QuietReturn
<1>6. CASE blocks[f.block] = NoOid /\ f.at = "SetView"
  <2>a. Panic(p)
    BY <1>1, <1>6, <1>f DEF ReadBlock
  <2>b. f.at \notin WindowAts \cup DeleteAts
    BY <1>6 DEF WindowAts, DeleteAts, BlockAts, TabAts, GoneAts
  <2> QED
    BY <1>1, <1>3, <1>f, <2>a, <2>b, QuietPanic
<1>7. CASE blocks[f.block] # NoOid
  <2> DEFINE g == [at |-> "updateBlock", block |-> f.block, read |-> blocks[f.block]]
  <2>a. g.at = "updateBlock" /\ g.block = f.block /\ g.read = blocks[f.block]
    OBVIOUS
  <2>b. Goto(p, g) /\ UNCHANGED result
    BY <1>1, <1>7, <1>f DEF ReadBlock
  <2>c. (result'[p] # "error") = (result[p] # "error")
    BY <1>4, <2>b
  <2> HIDE DEF g
  <2>d. TakesOver(f, g)
    BY <1>0, <1>1, FreeFacts DEF Free, BlockAts, TabAts, GoneAts, DeleteAts, CreateAts
  <2>h. Keeps(g, NoFrame, (result[p] # "error"))
    BY <2>a, KeepsAny DEF KeepAts, NewWindows
  <2>i. Reads(g)
    BY <2>a DEF Reads, GoneAts
  <2>j. WindowsListed(g)
    BY <1>0, <1>1, <2>a, WindowsListedKept DEF WindowAts
  <2>k. \A w \in Existing(windows) : Closes(f, w) => Closes(g, w)
    BY <1>0, <1>1 DEF Closes
  <2> QED
    BY <1>1, <1>3, <1>f, <2>b, <2>c, <2>d, <2>h, <2>i, <2>j, <2>k, QuietGoto
<1> QED
  BY <1>5, <1>6, <1>7

LEMMA DeleteLayoutRowAlone ==
    ASSUME IInv, NEW p \in Call, Alone(p), ~stale, DeleteLayoutRow(p)
    PROVE  ~stale' /\ Alone(p)'
<1>f. PICK f : f = Top(p)
  OBVIOUS
<1>0. At(p, "DeleteTab:layout")
  BY DEF DeleteLayoutRow
<1>1. /\ TypeInv /\ stack[p] # <<>> /\ f = Head(stack[p]) /\ f \in FrameOf("DeleteTab:layout")
      /\ f.at = "DeleteTab:layout"
      /\ Reads(f) /\ WindowsListed(f) /\ Keeps(f, NoFrame, result[p] # "error")
  BY <1>0, <1>f, AtAlone
<1>2. f.ws \in Workspace /\ f.tab \in Tab /\ f.close \in BOOLEAN
  BY <1>1 DEF FrameOf
<1>3. UNCHANGED <<workspaces, tabs, blocks, windows, client, told, stale>>
  BY DEF DeleteLayoutRow
<1>4. result \in [Call -> {"ok", "error", "panic"}]
  BY <1>1 DEF TypeInv, TypeOK
<1>5. CASE ~f.close
  <2>a. Return(p, "ok")
    BY <1>1, <1>5, <1>f DEF DeleteLayoutRow
  <2>b. (result'[p] # "error") = TRUE
    BY <1>4, <2>a DEF Return
  <2>c. ASSUME NEW x \in Under(p), Above(x, f), Keeps(x, f, TRUE) PROVE Keeps(x, NoFrame, TRUE)
    <3>1. x.at # "DeleteTab:blocks"
      BY <1>1, <2>c DEF Above, OnlyBlocks, BlockAts
    <3>2. ASSUME x.at = "DeleteWorkspace:tabs", workspaces[x.ws] # NoOid,
                 NEW t \in Listed(workspaces[x.ws])
          PROVE  t \in ToSet(x.todo)
      <4>1. f.ws = x.ws
        BY <1>1, <2>c, <3>2 DEF Above, OnlyTabs, OnlyBlocks, BlockAts, TabAts
      <4>2. f.tab \notin Listed(workspaces[x.ws])
        BY <1>1, <4>1 DEF Reads, GoneAts
      <4> QED
        BY <2>c, <3>2, <4>2 DEF Keeps
    <3> QED
      BY <1>1, <2>c, <3>1, <3>2 DEF Keeps
  <2>d. f.at \notin WindowAts /\ \A w \in Existing(windows) : ~Closes(f, w)
    BY <1>1 DEF WindowAts, Closes
  <2> QED
    BY <1>1, <1>3, <1>f, <2>a, <2>b, <2>c, <2>d, QuietReturn
<1>6. CASE f.close
  <2> DEFINE g == [at |-> "DeleteTab:window", ws |-> f.ws]
  <2>a. g.at = "DeleteTab:window"
    OBVIOUS
  <2>b. Goto(p, g) /\ UNCHANGED result
    BY <1>1, <1>6, <1>f DEF DeleteLayoutRow
  <2>c. (result'[p] # "error") = (result[p] # "error")
    BY <1>4, <2>b
  <2> HIDE DEF g
  <2>d. TakesOver(f, g)
    BY <1>1, <1>6, <2>a
       DEF TakesOver, OnlyBlocks, OnlyTabs, BlockAts, TabAts, GoneAts, DeleteAts, CreateAts
  <2>h. Keeps(g, NoFrame, (result[p] # "error"))
    BY <2>a, KeepsAny DEF KeepAts, NewWindows
  <2>i. Reads(g)
    BY <2>a, ReadsAny DEF ReadAts
  <2>j. WindowsListed(g)
    BY <1>1, <2>a, WindowsListedKept DEF WindowAts
  <2>k. \A w \in Existing(windows) : Closes(f, w) => Closes(g, w)
    BY <1>1 DEF Closes
  <2> QED
    BY <1>1, <1>3, <1>f, <2>b, <2>c, <2>d, <2>h, <2>i, <2>j, <2>k, QuietGoto
<1> QED
  BY <1>2, <1>5, <1>6

\* A workspace is read and changed, and is about to be written back.
LEMMA WritesBackAlone ==
    ASSUME IInv, NEW p \in Call, Alone(p), ~stale, stack[p] # <<>>, NEW f, f = Top(p),
           f.at \in {"ChangeTabPinning", "UpdateTabIds", "UpdateWorkspace"},
           NEW ws \in Workspace, NEW w \in WorkspaceRow, w = workspaces[ws],
           NEW new, new.active = w.active, OnceRow(w) => Listed(new) = Listed(w),
           Goto(p, [at |-> "writeBack", ws |-> ws, read |-> w, new |-> new]),
           UNCHANGED <<rows, result, told, stale>>
    PROVE  ~stale' /\ Alone(p)'
<1>1. TypeInv /\ RowsInv /\ WindowsListed(f) /\ ActiveListed
  BY DEF IInv, Alone
<1>3. UNCHANGED <<workspaces, tabs, blocks, windows, client, told, stale>>
  BY DEF rows
<1>4. result \in [Call -> {"ok", "error", "panic"}]
  BY <1>1 DEF TypeInv, TypeOK
<1>5. new.active \in Listed(new) \cup {NoOid}
  <2>1. ws \in Existing(workspaces)
    BY <1>1, RowTypes, CallsAssumption DEF Existing
  <2>2. OnceRow(w) /\ w.active \in Listed(w) \cup {NoOid}
    BY <1>1, <2>1 DEF RowsInv, ListedOnce, graph, OnceRow, ActiveListed
  <2> QED
    BY <2>2
<1> DEFINE g == [at |-> "writeBack", ws |-> ws, read |-> w, new |-> new]
<1>a. g.at = "writeBack" /\ g.ws = ws /\ g.read = w /\ g.new = new
  OBVIOUS
<1>b. Goto(p, g) /\ UNCHANGED result
  OBVIOUS
<1>c. (result'[p] # "error") = (result[p] # "error")
  BY <1>4, <1>b
<1> HIDE DEF g
<1>d. TakesOver(f, g)
  BY <1>a DEF TakesOver, OnlyBlocks, OnlyTabs, BlockAts, TabAts, GoneAts, DeleteAts, CreateAts
<1>h. Keeps(g, NoFrame, (result[p] # "error"))
  BY <1>a, KeepsAny DEF KeepAts, NewWindows
<1>i. Reads(g)
  BY <1>5, <1>a DEF Reads, GoneAts
<1>j. WindowsListed(g)
  BY <1>1, <1>a, WindowsListedKept DEF WindowAts
<1>k. \A v \in Existing(windows) : Closes(f, v) => Closes(g, v)
  BY DEF Closes
<1> QED
  BY <1>1, <1>3, <1>b, <1>c, <1>d, <1>h, <1>i, <1>j, <1>k, QuietGoto

LEMMA UpdateWorkspaceAlone ==
    ASSUME IInv, NEW p \in Call, Alone(p), ~stale, UpdateWorkspace(p)
    PROVE  ~stale' /\ Alone(p)'
<1>f. PICK f : f = Top(p)
  OBVIOUS
<1>0. At(p, "UpdateWorkspace")
  BY DEF UpdateWorkspace
<1>1. /\ TypeInv /\ stack[p] # <<>> /\ f = Head(stack[p]) /\ f \in FrameOf("UpdateWorkspace")
      /\ f.at = "UpdateWorkspace" /\ Reads(f)
  BY <1>0, <1>f, AtAlone
<1>2. f.ws \in Workspace
  BY <1>1 DEF FrameOf
<1>w. PICK w : w = workspaces[f.ws]
  OBVIOUS
<1>4. result \in [Call -> {"ok", "error", "panic"}]
  BY <1>1 DEF TypeInv, TypeOK
<1>5. UNCHANGED <<workspaces, tabs, blocks, windows, client, told, stale>>
  BY DEF UpdateWorkspace, rows
<1>6. CASE w = NoOid
  <2>a. Return(p, "error")
    BY <1>1, <1>6, <1>f, <1>w DEF UpdateWorkspace
  <2>b. (result'[p] # "error") = FALSE
    BY <1>4, <2>a DEF Return
  <2>c. \A x \in Under(p) : Above(x, f) /\ Keeps(x, f, TRUE) => Keeps(x, NoFrame, FALSE)
    BY ReturnsError
  <2>d. f.at \notin WindowAts /\ \A v \in Existing(windows) : ~Closes(f, v)
    BY <1>1 DEF WindowAts, Closes
  <2> QED
    BY <1>1, <1>5, <1>f, <2>a, <2>b, <2>c, <2>d, QuietReturn
<1>7. CASE ~(w = NoOid)
  <2>1. w \in WorkspaceRow
    BY <1>1, <1>2, <1>w, <1>7, RowTypes
  <2> DEFINE new == [w EXCEPT !.named = TRUE]
  <2>2. new.active = w.active /\ (OnceRow(w) => Listed(new) = Listed(w))
    BY <2>1 DEF WorkspaceRow, Listed
  <2>4. Goto(p, [at |-> "writeBack", ws |-> f.ws, read |-> w, new |-> new])
    BY <1>1, <1>f, <1>w, <1>7 DEF UpdateWorkspace
  <2>5. UNCHANGED <<rows, result, told, stale>>
    BY <1>1, <1>f, <1>w, <1>7 DEF UpdateWorkspace
  <2> HIDE DEF new
  <2> QED
    BY <1>1, <1>2, <1>f, <1>w, <2>1, <2>2, <2>4, <2>5, WritesBackAlone
<1> QED
  BY <1>6, <1>7

LEMMA UpdateTabIdsAlone ==
    ASSUME IInv, NEW p \in Call, Alone(p), ~stale, UpdateTabIds(p)
    PROVE  ~stale' /\ Alone(p)'
<1>f. PICK f : f = Top(p)
  OBVIOUS
<1>0. At(p, "UpdateTabIds")
  BY DEF UpdateTabIds
<1>1. /\ TypeInv /\ stack[p] # <<>> /\ f = Head(stack[p]) /\ f \in FrameOf("UpdateTabIds")
      /\ f.at = "UpdateTabIds" /\ Reads(f)
  BY <1>0, <1>f, AtAlone
<1>2. f.ws \in Workspace /\ f.seen \in WorkspaceRow
  BY <1>1 DEF FrameOf
<1>w. PICK w : w = workspaces[f.ws]
  OBVIOUS
<1>4. result \in [Call -> {"ok", "error", "panic"}]
  BY <1>1 DEF TypeInv, TypeOK
<1>5. UNCHANGED <<workspaces, tabs, blocks, windows, client, told, stale>>
  BY DEF UpdateTabIds, rows
<1>6. CASE w = NoOid
  <2>a. Return(p, "error")
    BY <1>1, <1>6, <1>f, <1>w DEF UpdateTabIds
  <2>b. (result'[p] # "error") = FALSE
    BY <1>4, <2>a DEF Return
  <2>c. \A x \in Under(p) : Above(x, f) /\ Keeps(x, f, TRUE) => Keeps(x, NoFrame, FALSE)
    BY ReturnsError
  <2>d. f.at \notin WindowAts /\ \A v \in Existing(windows) : ~Closes(f, v)
    BY <1>1 DEF WindowAts, Closes
  <2> QED
    BY <1>1, <1>5, <1>f, <2>a, <2>b, <2>c, <2>d, QuietReturn
<1>7. CASE ~(w = NoOid)
  <2>1. w \in WorkspaceRow
    BY <1>1, <1>2, <1>w, <1>7, RowTypes
  <2> DEFINE new == [w EXCEPT !.tabs = Reverse(w.tabs), !.pinned = w.pinned]
  <2>6. f.seen = w
    BY <1>1, <1>w DEF Reads
  <2>7. [w EXCEPT !.tabs = w.tabs, !.pinned = w.pinned] = w
    BY <2>1 DEF WorkspaceRow
  <2>8. w.tabs \in Seq(Tab) /\ ToSet(Reverse(w.tabs)) = ToSet(w.tabs)
    <3>1. w.tabs \in Seq(Tab)
      BY <2>1 DEF WorkspaceRow
    <3> QED
      BY <3>1, ReverseFacts
  <2>2. new.active = w.active /\ (OnceRow(w) => Listed(new) = Listed(w))
    <3>1. new.active = w.active /\ new.tabs = Reverse(w.tabs) /\ new.pinned = w.pinned
      BY <2>1 DEF WorkspaceRow
    <3> HIDE DEF new
    <3> QED
      BY <2>8, <3>1 DEF Listed
  <2>4. Goto(p, [at |-> "writeBack", ws |-> f.ws, read |-> w, new |-> new])
    <3>1. Goto(p, [at |-> "writeBack", ws |-> f.ws,
                   read |-> [w EXCEPT !.tabs = f.seen.tabs, !.pinned = f.seen.pinned],
                   new |-> [w EXCEPT !.tabs = Reverse(f.seen.tabs), !.pinned = f.seen.pinned]])
      BY <1>1, <1>f, <1>w, <1>7 DEF UpdateTabIds
    <3> QED
      BY <2>6, <2>7, <3>1
  <2>5. UNCHANGED <<rows, result, told, stale>>
    BY <1>1, <1>f, <1>w, <1>7 DEF UpdateTabIds
  <2> HIDE DEF new
  <2> QED
    BY <1>1, <1>2, <1>f, <1>w, <2>1, <2>2, <2>4, <2>5, WritesBackAlone
<1> QED
  BY <1>6, <1>7

LEMMA ChangeTabPinningAlone ==
    ASSUME IInv, NEW p \in Call, Alone(p), ~stale, ChangeTabPinning(p)
    PROVE  ~stale' /\ Alone(p)'
<1>f. PICK f : f = Top(p)
  OBVIOUS
<1>0. At(p, "ChangeTabPinning")
  BY DEF ChangeTabPinning
<1>1. /\ TypeInv /\ stack[p] # <<>> /\ f = Head(stack[p]) /\ f \in FrameOf("ChangeTabPinning")
      /\ f.at = "ChangeTabPinning" /\ Reads(f)
  BY <1>0, <1>f, AtAlone
<1>2. f.ws \in Workspace /\ f.tab \in Tab /\ f.pin \in BOOLEAN
  BY <1>1 DEF FrameOf
<1>w. PICK w : w = workspaces[f.ws]
  OBVIOUS
<1>4. result \in [Call -> {"ok", "error", "panic"}]
  BY <1>1 DEF TypeInv, TypeOK
<1>5. UNCHANGED <<workspaces, tabs, blocks, windows, client, told, stale>>
  BY DEF ChangeTabPinning, rows
<1>6. CASE w = NoOid \/ (f.pin /\ f.tab \notin Listed(w))
  <2>a. Return(p, "error")
    BY <1>1, <1>6, <1>f, <1>w DEF ChangeTabPinning
  <2>b. (result'[p] # "error") = FALSE
    BY <1>4, <2>a DEF Return
  <2>c. \A x \in Under(p) : Above(x, f) /\ Keeps(x, f, TRUE) => Keeps(x, NoFrame, FALSE)
    BY ReturnsError
  <2>d. f.at \notin WindowAts /\ \A v \in Existing(windows) : ~Closes(f, v)
    BY <1>1 DEF WindowAts, Closes
  <2> QED
    BY <1>1, <1>5, <1>f, <2>a, <2>b, <2>c, <2>d, QuietReturn
<1>7. CASE ~(w = NoOid \/ (f.pin /\ f.tab \notin Listed(w)))
  <2>1. w \in WorkspaceRow
    BY <1>1, <1>2, <1>w, <1>7, RowTypes
  <2> DEFINE pinned == f.tab \in ToSet(w.pinned)
             new == CASE f.pin /\ ~pinned -> Pin(w, f.tab)
                      [] ~f.pin /\ pinned -> Unpin(w, f.tab)
                      [] OTHER -> w
  <2>4. Goto(p, [at |-> "writeBack", ws |-> f.ws, read |-> w, new |-> new])
    BY <1>1, <1>f, <1>w, <1>7 DEF ChangeTabPinning
  <2>5. UNCHANGED <<rows, result, told, stale>>
    BY <1>1, <1>f, <1>w, <1>7 DEF ChangeTabPinning
  <2>2. new.active = w.active /\ (OnceRow(w) => Listed(new) = Listed(w))
    <3>1. CASE f.pin /\ ~pinned
      <4>1. f.tab \in ToSet(w.tabs) /\ new = Pin(w, f.tab)
        BY <1>7, <3>1 DEF Listed
      <4> QED
        BY <1>2, <2>1, <4>1, PinFacts
    <3>2. CASE ~f.pin /\ pinned
      <4>1. f.tab \in ToSet(w.pinned) /\ new = Unpin(w, f.tab)
        BY <3>2
      <4> QED
        BY <1>2, <2>1, <4>1, PinFacts
    <3>3. CASE ~(f.pin /\ ~pinned) /\ ~(~f.pin /\ pinned)
      <4>1. new = w
        BY <1>2, <3>3
      <4> QED
        BY <2>1, <4>1
    <3> QED
      BY <3>1, <3>2, <3>3
  <2> HIDE DEF new
  <2> QED
    BY <1>1, <1>2, <1>f, <1>w, <2>1, <2>2, <2>4, <2>5, WritesBackAlone
<1> QED
  BY <1>6, <1>7

-----------------------------------------------------------------------------
(* Steps that change rows                                                  *)

\* Shown, for functions F that may close a window.
ShownOf(F) ==
    \A w \in Existing(windows) :
       /\ w \in told \/ workspaces[windows[w]] # NoOid \/ \E e \in F : Closes(e, w)
       /\ \A v \in Existing(windows) \ {w} : windows[v] # windows[w]

LEMMA ShownMore ==
    ASSUME NEW p, NEW F, ShownOf(F)', F \subseteq FramesOf(p)'
    PROVE  Shown(p)'
BY DEF ShownOf, Shown

LEMMA ShownStill ==
    ASSUME NEW p, Shown(p), UNCHANGED <<windows, told>>,
           \A w : workspaces[w] # NoOid => workspaces'[w] # NoOid,
           NEW F, \A w \in Existing(windows) : \A e \in FramesOf(p) : Closes(e, w) => \E d \in F : Closes(d, w)
    PROVE  ShownOf(F)'
BY DEF ShownOf, Shown, Existing

\* p goes on with g.
LEMMA LoudGoto ==
    ASSUME IInv, NEW p \in Call, Alone(p), ~stale', stack[p] # <<>>, NEW f, f = Top(p),
           NEW g, Goto(p, g), Fits(f, g), Leaves(p, f), Passes(p, f, g, TRUE),
           NEW ok, ok = (result'[p] # "error"),
           Keeps(g, NoFrame, ok)', Reads(g)', WindowsListed(g)',
           NEW F, F = Under(p), ShownOf(F \cup {g})', ActiveListed', IsInjective(client)'
    PROVE  ~stale' /\ Alone(p)'
<1>1. TypeInv /\ Ordered(p) /\ Linked(p) /\ \A q \in Call \ {p} : stack[q] = <<>>
  BY DEF IInv, Alone
<1>2. /\ Ordered(p)' /\ Linked(p)' /\ Top(p)' = g /\ Under(p)' = Under(p)
      /\ \A q \in Call \ {p} : stack'[q] = stack[q]
  BY <1>1, GotoStack
<1>3. Ready(p)' /\ Reads(Top(p))' /\ WindowsListed(Top(p))'
  BY <1>2 DEF Ready, Reads, WindowsListed
<1>4. Shown(p)'
  <2>1. F \cup {g} \subseteq FramesOf(p)'
    BY <1>2 DEF FramesOf
  <2> QED
    BY <2>1, ShownMore
<1> QED
  BY <1>1, <1>2, <1>3, <1>4 DEF Alone

\* p calls g.
LEMMA LoudCall ==
    ASSUME IInv, NEW p \in Call, Alone(p), ~stale', stack[p] # <<>>, NEW f, f = Top(p),
           NEW g, NEW h, CallThen(p, g, h), Fits(f, g), Fits(f, h), Above(h, g),
           Leaves(p, f), Passes(p, f, h, TRUE), Keeps(h, g, TRUE)',
           NEW ok, ok = (result'[p] # "error"),
           Keeps(g, NoFrame, ok)', Reads(g)', WindowsListed(g)',
           NEW F, F = Under(p), ShownOf(F \cup {g, h})', ActiveListed', IsInjective(client)'
    PROVE  ~stale' /\ Alone(p)'
<1>1. TypeInv /\ Ordered(p) /\ Linked(p) /\ \A q \in Call \ {p} : stack[q] = <<>>
  BY DEF IInv, Alone
<1>2. /\ Ordered(p)' /\ Linked(p)' /\ Top(p)' = g /\ Under(p)' = Under(p) \cup {h}
      /\ \A q \in Call \ {p} : stack'[q] = stack[q]
  BY <1>1, CallStack
<1>3. Ready(p)' /\ Reads(Top(p))' /\ WindowsListed(Top(p))'
  BY <1>2 DEF Ready, Reads, WindowsListed
<1>4. Shown(p)'
  <2>1. F \cup {g, h} \subseteq FramesOf(p)'
    BY <1>2 DEF FramesOf
  <2> QED
    BY <2>1, ShownMore
<1> QED
  BY <1>1, <1>2, <1>3, <1>4 DEF Alone

\* p returns.
LEMMA LoudReturn ==
    ASSUME IInv, NEW p \in Call, Alone(p), ~stale', stack[p] # <<>>, NEW f, f = Top(p),
           Return(p, "ok") \/ Return(p, "error"), Leaves(p, f),
           NEW ok, ok = (result'[p] # "error"), Passes(p, f, NoFrame, ok),
           \A g : g.at \notin WindowAts => WindowsListed(g)',
           NEW F, F = Under(p), ShownOf(F)', ActiveListed', IsInjective(client)'
    PROVE  ~stale' /\ Alone(p)'
<1>1. TypeInv /\ Ordered(p) /\ Linked(p) /\ \A q \in Call \ {p} : stack[q] = <<>>
  BY DEF IInv, Alone
<1>2. /\ Ordered(p)' /\ Linked(p)' /\ Ready(p)' /\ Reads(Top(p))'
      /\ Top(p)' \in Under(p) \cup {NoFrame} /\ Top(p)'.at \notin WindowAts
      /\ Under(p) \subseteq FramesOf(p)'
      /\ \A q \in Call \ {p} : stack'[q] = stack[q]
  BY <1>1, ReturnRest
<1>3. WindowsListed(Top(p))'
  <2>1. PICK g : g = Top(p)'
    OBVIOUS
  <2>2. WindowsListed(g)'
    BY <2>1, <1>2
  <2> QED
    BY <2>1, <2>2 DEF WindowsListed
<1>4. Shown(p)'
  BY <1>2, ShownMore
<1> QED
  BY <1>1, <1>2, <1>3, <1>4 DEF Alone

\* Functions that wait, and that the running one is above.
LEMMA WaitingAt ==
    ASSUME TypeInv, NEW p \in Call, NEW x \in Under(p), x.at \in KeepAts
    PROVE  x.at \in {"DeleteTab:blocks", "DeleteWorkspace:tabs", "CreateWindow:insert"}
BY UnderFacts DEF Waits, KeepAts, NewWindows

\* f runs above no function that relies on its steps.
LEMMA Unseen ==
    ASSUME TypeInv, NEW p \in Call, NEW f,
           f.at \notin BlockAts \cup TabAts \cup GoneAts \cup CreateAts
    PROVE  Leaves(p, f) /\ \A g, ok : Passes(p, f, g, ok)
<1>1. ASSUME NEW x \in Under(p), Above(x, f) PROVE x.at \notin KeepAts
  BY <1>1, WaitingAt DEF Above, OnlyBlocks, OnlyTabs
<1> QED
  BY <1>1, KeepsAny DEF Leaves, Passes

\* f, of a creation, leaves the windows and every workspace where it is.
LEMMA Created ==
    ASSUME TypeInv, NEW p \in Call, NEW f, f.at \in CreateAts, UNCHANGED windows,
           \A w : workspaces[w] # NoOid => workspaces'[w] # NoOid
    PROVE  /\ Leaves(p, f)
           /\ f.at # "CreateWorkspace" => \A g : Passes(p, f, g, TRUE)
<1>1. ASSUME NEW x \in Under(p), Above(x, f), x.at \in KeepAts PROVE x.at = "CreateWindow:insert"
  BY <1>1, WaitingAt DEF Above, OnlyBlocks, OnlyTabs, CreateAts, BlockAts, TabAts, GoneAts
<1>2. ASSUME NEW x \in Under(p), NEW a, Above(x, f), Keeps(x, a, TRUE) PROVE Keeps(x, a, TRUE)'
  <2>1. CASE x.at = "CreateWindow:insert"
    BY <1>2, <2>1 DEF Keeps, Existing, NewWindows
  <2>2. CASE x.at \notin KeepAts
    BY <2>2, KeepsAny
  <2> QED
    BY <1>1, <1>2, <2>1, <2>2
<1>3. ASSUME NEW x \in Under(p), NEW g, Above(x, f), Keeps(x, f, TRUE), f.at # "CreateWorkspace"
      PROVE  Keeps(x, g, TRUE)'
  <2>1. CASE x.at = "CreateWindow:insert"
    BY <1>3, <2>1 DEF Keeps, Existing, NewWindows
  <2>2. CASE x.at \notin KeepAts
    BY <2>2, KeepsAny
  <2> QED
    BY <1>1, <1>3, <2>1, <2>2
<1> QED
  BY <1>2, <1>3 DEF Leaves, Passes

\* The workspaces and the windows stay.
LEMMA TabsOnly ==
    ASSUME NEW p, Alone(p), UNCHANGED <<workspaces, windows, client, told>>
    PROVE  ActiveListed' /\ IsInjective(client)'
           /\ \A g : WindowsListed(g) => WindowsListed(g)'
BY ListedSame DEF Alone, ActiveListed, Existing

-----------------------------------------------------------------------------
(* Windows, the client and workspaces that are deleted                     *)

LEMMA DeleteWindowRowAlone ==
    ASSUME IInv, NEW p \in Call, Alone(p), ~stale, DeleteWindowRow(p)
    PROVE  ~stale' /\ Alone(p)'
<1>f. PICK f : f = Top(p)
  OBVIOUS
<1>F. PICK F : F = Under(p)
  OBVIOUS
<1>0. At(p, "CloseWindow:delete")
  BY DEF DeleteWindowRow
<1>1. /\ TypeInv /\ stack[p] # <<>> /\ f = Head(stack[p]) /\ f \in FrameOf("CloseWindow:delete")
      /\ f.at = "CloseWindow:delete" /\ WindowsListed(f)
  BY <1>0, <1>f, AtAlone
<1>2. f.window \in Window
  BY <1>1 DEF FrameOf
<1> DEFINE g == [at |-> "CloseWindow:client", window |-> f.window]
<1>3. g.at = "CloseWindow:client" /\ g.window = f.window
  OBVIOUS
<1>4. Goto(p, g)
  BY <1>1, <1>f DEF DeleteWindowRow
<1> HIDE DEF g
<1>5. /\ windows' = [windows EXCEPT ![f.window] = NoOid]
      /\ UNCHANGED <<workspaces, tabs, blocks, client, told, stale>>
  BY <1>1, <1>f DEF DeleteWindowRow
<1>6. Existing(windows)' = Existing(windows) \ {f.window}
      /\ windows'[f.window] = NoOid /\ \A w \in Existing(windows)' : windows'[w] = windows[w]
  BY <1>1, <1>2, <1>5, RowTypes DEF Existing
<1>7. Fits(f, g)
  BY <1>1, <1>3
     DEF Fits, Above, OnlyBlocks, OnlyTabs, BlockAts, TabAts, GoneAts, DeleteAts, CreateAts
<1>8. Leaves(p, f) /\ Passes(p, f, g, TRUE)
  BY <1>1, Unseen DEF BlockAts, TabAts, GoneAts, CreateAts
<1>9. \A ok : Keeps(g, NoFrame, ok)'
  BY <1>3, KeepsAny DEF KeepAts, NewWindows
<1>10. Reads(g)'
  BY <1>3, ReadsAny DEF ReadAts
<1>11. WindowsListed(g)'
  <2>1. client \in Seq(Window) /\ ToSet(client) \subseteq Window
    BY <1>1, RowTypes, ToSetIn
  <2>2. ASSUME NEW w \in ToSet(client) PROVE windows'[w] # NoOid \/ f.window = w
    BY <1>1, <1>5, <2>1, <2>2, RowTypes DEF WindowsListed
  <2>3. ASSUME NEW w \in Existing(windows)' PROVE w \in ToSet(client)
    BY <1>1, <1>6, <2>3 DEF WindowsListed
  <2> QED
    BY <1>3, <1>5, <1>6, <2>2, <2>3 DEF WindowsListed
<1>12. ShownOf(F \cup {g})'
  <2>1. ASSUME NEW w \in Existing(windows)' 
        PROVE  /\ w \in told \/ workspaces[windows[w]] # NoOid \/ \E e \in F : Closes(e, w)
               /\ \A v \in Existing(windows)' \ {w} : windows[v] # windows[w]
    BY <1>6, <1>f, <1>F, <2>1 DEF Alone, Shown, FramesOf, Closes
  <2> QED
    BY <1>5, <1>6, <2>1 DEF ShownOf
<1>13. ActiveListed' /\ IsInjective(client)' /\ ~stale'
  BY <1>5 DEF Alone, ActiveListed, Existing
<1> QED
  BY <1>1, <1>4, <1>7, <1>8, <1>9, <1>10, <1>11, <1>12, <1>13, <1>f, <1>F, LoudGoto

LEMMA ForgetWindowAlone ==
    ASSUME IInv, NEW p \in Call, Alone(p), ~stale, ForgetWindow(p)
    PROVE  ~stale' /\ Alone(p)'
<1>f. PICK f : f = Top(p)
  OBVIOUS
<1>F. PICK F : F = Under(p)
  OBVIOUS
<1>0. At(p, "CloseWindow:update")
  BY DEF ForgetWindow
<1>1. /\ TypeInv /\ stack[p] # <<>> /\ f = Head(stack[p]) /\ f \in FrameOf("CloseWindow:update")
      /\ f.at = "CloseWindow:update" /\ WindowsListed(f) /\ Reads(f)
  BY <1>0, <1>f, AtAlone
<1>2. /\ f.read = client /\ client \in Seq(Window) /\ IsInjective(client)
      /\ ToSet(client) \subseteq Window
      /\ result \in [Call -> {"ok", "error", "panic"}]
  BY <1>1, RowTypes, ToSetIn DEF Reads, Alone, TypeInv, TypeOK
<1>3. /\ Return(p, "ok") /\ client' = RemoveFirst(client, f.window)
      /\ UNCHANGED <<workspaces, tabs, blocks, windows, told>> /\ ~stale'
  BY <1>1, <1>2, <1>f DEF ForgetWindow, UpdateClientRow
<1>4. (result'[p] # "error") = TRUE
  BY <1>2, <1>3 DEF Return
<1>5. IsInjective(client') /\ ToSet(client') = ToSet(client) \ {f.window}
  BY <1>2, <1>3, RemoveFirstFacts
<1>6. Leaves(p, f) /\ Passes(p, f, NoFrame, TRUE)
  BY <1>1, Unseen DEF BlockAts, TabAts, GoneAts, CreateAts
<1>7. ASSUME NEW g, g.at \notin WindowAts PROVE WindowsListed(g)'
  <2>1. \A w \in ToSet(client') : windows[w] # NoOid
    BY <1>1, <1>5 DEF WindowsListed
  <2>2. ASSUME NEW w \in Existing(windows) PROVE w \in ToSet(client')
    <3>1. w # f.window
      BY <1>1, <2>2, RowTypes, CallsAssumption DEF WindowsListed, Existing
    <3> QED
      BY <1>1, <1>5, <2>2, <3>1 DEF WindowsListed
  <2> QED
    BY <1>3, <1>7, <2>1, <2>2 DEF WindowsListed, WindowAts, Existing
<1>8. ShownOf(F)'
  <2>1. \A w : \A e \in FramesOf(p) : Closes(e, w) => \E d \in F : Closes(d, w)
    BY <1>1, <1>f, <1>F DEF FramesOf, Closes
  <2> QED
    BY <1>3, <2>1, ShownStill DEF Alone
<1>9. ActiveListed' /\ ~stale'
  BY <1>3 DEF Alone, ActiveListed, Existing
<1> QED
  BY <1>1, <1>3, <1>4, <1>5, <1>6, <1>7, <1>8, <1>9, <1>f, <1>F, LoudReturn

LEMMA UpdateClientAlone ==
    ASSUME IInv, NEW p \in Call, Alone(p), ~stale, UpdateClient(p)
    PROVE  ~stale' /\ Alone(p)'
<1>f. PICK f : f = Top(p)
  OBVIOUS
<1>F. PICK F : F = Under(p)
  OBVIOUS
<1>0. At(p, "updateClient")
  BY DEF UpdateClient
<1>1. /\ TypeInv /\ stack[p] # <<>> /\ f = Head(stack[p]) /\ f \in FrameOf("updateClient")
      /\ f.at = "updateClient" /\ WindowsListed(f) /\ Reads(f)
  BY <1>0, <1>f, AtAlone
<1>2. /\ f.read = client /\ ToSet(f.new) = Existing(windows) /\ IsInjective(f.new)
      /\ result \in [Call -> {"ok", "error", "panic"}]
  BY <1>1 DEF Reads, WindowsListed, TypeInv, TypeOK
<1>3. /\ Return(p, "ok") /\ client' = f.new
      /\ UNCHANGED <<workspaces, tabs, blocks, windows, told>> /\ ~stale'
  BY <1>1, <1>2, <1>f DEF UpdateClient, UpdateClientRow
<1>4. (result'[p] # "error") = TRUE
  BY <1>2, <1>3 DEF Return
<1>6. Leaves(p, f) /\ Passes(p, f, NoFrame, TRUE)
  BY <1>1, Unseen DEF BlockAts, TabAts, GoneAts, CreateAts
<1>7. ASSUME NEW g, g.at \notin WindowAts PROVE WindowsListed(g)'
  BY <1>2, <1>3, <1>7 DEF WindowsListed, WindowAts, Existing
<1>8. ShownOf(F)'
  <2>1. \A w : \A e \in FramesOf(p) : Closes(e, w) => \E d \in F : Closes(d, w)
    BY <1>1, <1>f, <1>F DEF FramesOf, Closes
  <2> QED
    BY <1>3, <2>1, ShownStill DEF Alone
<1>9. ActiveListed' /\ ~stale' /\ IsInjective(client)'
  BY <1>2, <1>3 DEF Alone, ActiveListed, Existing
<1> QED
  BY <1>1, <1>3, <1>4, <1>6, <1>7, <1>8, <1>9, <1>f, <1>F, LoudReturn

LEMMA InsertWindowAlone ==
    ASSUME IInv, NEW p \in Call, Alone(p), ~stale, InsertWindow(p)
    PROVE  ~stale' /\ Alone(p)'
<1>f. PICK f : f = Top(p)
  OBVIOUS
<1>F. PICK F : F = Under(p)
  OBVIOUS
<1>0. At(p, "CreateWindow:insert")
  BY DEF InsertWindow
<1>1. /\ TypeInv /\ stack[p] # <<>> /\ f = Head(stack[p])
      /\ f \in FrameOf("CreateWindow:insert")
      /\ f.at = "CreateWindow:insert" /\ WindowsListed(f) /\ Keeps(f, NoFrame, result[p] # "error")
  BY <1>0, <1>f, AtAlone
<1>2. f.window \in Window /\ f.ws \in Workspace
  BY <1>1 DEF FrameOf
<1>3. result \in [Call -> {"ok", "error", "panic"}]
  BY <1>1 DEF TypeInv, TypeOK
<1>4. CASE Failed(p)
  <2>a. Return(p, "error") /\ UNCHANGED <<workspaces, tabs, blocks, windows, client, told, stale>>
    BY <1>1, <1>4, <1>f DEF InsertWindow
  <2>b. (result'[p] # "error") = FALSE
    BY <1>3, <2>a DEF Return
  <2>c. \A x \in Under(p) : Above(x, f) /\ Keeps(x, f, TRUE) => Keeps(x, NoFrame, FALSE)
    BY ReturnsError
  <2>d. f.at \notin WindowAts /\ \A v \in Existing(windows) : ~Closes(f, v)
    BY <1>1 DEF WindowAts, Closes
  <2> QED
    BY <1>1, <1>f, <2>a, <2>b, <2>c, <2>d, QuietReturn
<1>5. CASE ~Failed(p)
  <2> DEFINE g == [at |-> "CreateWindow:client", window |-> f.window]
  <2>3. g.at = "CreateWindow:client" /\ g.window = f.window
    OBVIOUS
  <2>4. Goto(p, g) /\ UNCHANGED result
    BY <1>1, <1>5, <1>f DEF InsertWindow
  <2> HIDE DEF g
  <2>5. /\ windows' = [windows EXCEPT ![f.window] = f.ws]
        /\ UNCHANGED <<workspaces, tabs, blocks, client, told, stale>>
    BY <1>1, <1>5, <1>f DEF InsertWindow
  <2>1. /\ windows[f.window] = NoOid /\ workspaces[f.ws] # NoOid
        /\ \A w \in Existing(windows) : windows[w] # f.ws
    BY <1>1, <1>5, NoFrameSays DEF Keeps, NewWindows, Failed, NoFrame
  <2>6. /\ Existing(windows)' = Existing(windows) \cup {f.window} /\ f.window \notin Existing(windows)
        /\ windows'[f.window] = f.ws /\ f.ws # NoOid
        /\ \A w \in Existing(windows) : windows'[w] = windows[w]
    <3>1. DOMAIN windows = Window /\ f.ws # NoOid
      BY <1>1, <1>2, RowTypes, CallsAssumption
    <3>2. windows'[f.window] = f.ws /\ \A w \in Window \ {f.window} : windows'[w] = windows[w]
      BY <1>2, <2>5, <3>1
    <3>3. DOMAIN windows' = Window
      BY <2>5, <3>1
    <3> QED
      BY <1>2, <2>1, <3>1, <3>2, <3>3 DEF Existing
  <2>7. Fits(f, g)
    BY <1>1, <2>3
       DEF Fits, Above, OnlyBlocks, OnlyTabs, BlockAts, TabAts, GoneAts, DeleteAts, CreateAts
  <2>8. Leaves(p, f) /\ Passes(p, f, g, TRUE)
    BY <1>1, Unseen DEF BlockAts, TabAts, GoneAts, CreateAts
  <2>9. \A ok : Keeps(g, NoFrame, ok)'
    BY <2>3, KeepsAny DEF KeepAts, NewWindows
  <2>10. Reads(g)'
    BY <2>3, ReadsAny DEF ReadAts
  <2>11. WindowsListed(g)'
    <3>1. client \in Seq(Window) /\ ToSet(client) \subseteq Window
      BY <1>1, RowTypes, ToSetIn
    <3>2. ASSUME NEW w \in ToSet(client) PROVE windows'[w] # NoOid /\ w # f.window
      <4>1. windows[w] # NoOid
        BY <1>1, <3>2 DEF WindowsListed
      <4>2. w \in Existing(windows)
        BY <1>1, <3>1, <4>1, RowTypes DEF Existing
      <4> QED
        BY <2>6, <4>1, <4>2
    <3>3. ASSUME NEW w \in Existing(windows)' PROVE w \in ToSet(client) \/ f.window = w
      BY <1>1, <2>6, <3>3 DEF WindowsListed
    <3> QED
      BY <2>3, <2>5, <2>6, <3>2, <3>3 DEF WindowsListed
  <2>12. ShownOf(F \cup {g})'
    <3>1. ASSUME NEW w \in Existing(windows)
          PROVE  /\ w \in told \/ workspaces[windows[w]] # NoOid \/ \E e \in F : Closes(e, w)
                 /\ \A v \in Existing(windows) \ {w} : windows[v] # windows[w]
      BY <1>1, <1>f, <1>F, <3>1 DEF Alone, Shown, FramesOf, Closes
    <3>2. ASSUME NEW w \in Existing(windows)'
          PROVE  /\ w \in told \/ workspaces[windows'[w]] # NoOid \/ \E e \in F : Closes(e, w)
                 /\ \A v \in Existing(windows)' \ {w} : windows'[v] # windows'[w]
      <4>1. CASE w = f.window
        BY <2>1, <2>6, <4>1
      <4>2. CASE w # f.window
        BY <2>1, <2>6, <3>1, <3>2, <4>2
      <4> QED
        BY <4>1, <4>2
    <3> QED
      BY <2>5, <3>2 DEF ShownOf
  <2>13. ActiveListed' /\ IsInjective(client)' /\ ~stale'
    BY <2>5 DEF Alone, ActiveListed, Existing
  <2> QED
    BY <1>1, <2>4, <2>7, <2>8, <2>9, <2>10, <2>11, <2>12, <2>13, <1>f, <1>F, LoudGoto
<1> QED
  BY <1>4, <1>5

LEMMA UpdateWindowAlone ==
    ASSUME IInv, NEW p \in Call, Alone(p), ~stale, UpdateWindow(p)
    PROVE  ~stale' /\ Alone(p)'
<1>f. PICK f : f = Top(p)
  OBVIOUS
<1>F. PICK F : F = Under(p)
  OBVIOUS
<1>0. At(p, "updateWindow")
  BY DEF UpdateWindow
<1>1. /\ TypeInv /\ stack[p] # <<>> /\ f = Head(stack[p]) /\ f \in FrameOf("updateWindow")
      /\ f.at = "updateWindow" /\ WindowsListed(f) /\ Reads(f)
  BY <1>0, <1>f, AtAlone
<1>2. f.window \in Window /\ f.ws \in Workspace /\ f.read \in Workspace
  BY <1>1 DEF FrameOf
<1>3. /\ result \in [Call -> {"ok", "error", "panic"}] /\ DOMAIN windows = Window
      /\ f.read = windows[f.window] /\ f.read # NoOid /\ f.ws # NoOid
  BY <1>1, <1>2, RowTypes, CallsAssumption DEF TypeInv, TypeOK, Reads
<1>4. /\ windows' = [windows EXCEPT ![f.window] = f.ws]
      /\ told' = IF f.ws = f.read THEN told ELSE told \ {f.window}
      /\ UNCHANGED <<workspaces, tabs, blocks, client>> /\ ~stale'
  <2>1. /\ windows' = [windows EXCEPT ![f.window] = IF @ = NoOid THEN NoOid ELSE f.ws]
        /\ stale' = (stale \/ windows[f.window] # f.read)
        /\ told' = IF f.ws = f.read THEN told ELSE told \ {f.window}
        /\ UNCHANGED <<workspaces, tabs, blocks, client>>
    BY <1>1, <1>f DEF UpdateWindow
  <2> QED
    BY <1>2, <1>3, <2>1
<1>5. /\ Existing(windows)' = Existing(windows) /\ f.window \in Existing(windows)
      /\ windows'[f.window] = f.ws /\ DOMAIN windows' = Window
      /\ \A w \in Window \ {f.window} : windows'[w] = windows[w]
  <2>1. /\ windows'[f.window] = f.ws /\ DOMAIN windows' = Window
        /\ \A w \in Window \ {f.window} : windows'[w] = windows[w]
    BY <1>2, <1>3, <1>4
  <2> QED
    BY <1>2, <1>3, <2>1 DEF Existing
<1>6. \A w \in Window : windows'[w] = NoOid <=> windows[w] = NoOid
  BY <1>3, <1>5
<1>7. ASSUME NEW g, g.at \notin WindowAts PROVE WindowsListed(g)'
  <2>1. client \in Seq(Window) /\ ToSet(client) \subseteq Window
    BY <1>1, RowTypes, ToSetIn
  <2>2. WindowsListed(g)
    BY <1>1, <1>7, WindowsListedKept DEF WindowAts
  <2> QED
    BY <1>4, <1>5, <1>6, <1>7, <2>1, <2>2 DEF WindowsListed, WindowAts
<1>8. Leaves(p, f) /\ \A g, ok : Passes(p, f, g, ok)
  BY <1>1, Unseen DEF BlockAts, TabAts, GoneAts, CreateAts
<1>9. ActiveListed' /\ IsInjective(client)' /\ ~stale'
  BY <1>4 DEF Alone, ActiveListed, Existing
<1>10. ASSUME NEW w \in Existing(windows)
       PROVE  /\ w \in told \/ workspaces[windows[w]] # NoOid \/ \E e \in F : Closes(e, w)
              /\ \A v \in Existing(windows) \ {w} : windows[v] # windows[w]
  BY <1>1, <1>f, <1>F, <1>10 DEF Alone, Shown, FramesOf, Closes
<1>11. CASE f.ws = f.read
  <2>a. Return(p, "ok")
    BY <1>1, <1>11, <1>f DEF UpdateWindow
  <2>b. (result'[p] # "error") = TRUE
    BY <1>3, <2>a DEF Return
  <2>c. windows' = windows /\ told' = told
    BY <1>3, <1>4, <1>11, <1>2, <1>1, RowTypes
  <2>d. ShownOf(F)'
    BY <1>4, <1>10, <2>c DEF ShownOf, Existing
  <2> QED
    BY <1>1, <1>7, <1>8, <1>9, <1>f, <1>F, <2>a, <2>b, <2>d, LoudReturn
<1>12. CASE f.ws # f.read
  <2>1. workspaces[f.ws] # NoOid /\ \A w \in Existing(windows) : windows[w] # f.ws
    BY <1>1, <1>12 DEF Reads
  <2> DEFINE g == [at |-> "DeleteWorkspace", ws |-> f.read, force |-> FALSE]
  <2>2. g.at = "DeleteWorkspace"
    OBVIOUS
  <2>3. Goto(p, g) /\ UNCHANGED result
    BY <1>1, <1>12, <1>f DEF UpdateWindow
  <2> HIDE DEF g
  <2>4. Fits(f, g)
    BY <1>1, <2>2
       DEF Fits, Above, OnlyBlocks, OnlyTabs, BlockAts, TabAts, GoneAts, DeleteAts, CreateAts
  <2>5. \A ok : Keeps(g, NoFrame, ok)'
    BY <2>2, KeepsAny DEF KeepAts, NewWindows
  <2>6. Reads(g)'
    BY <2>2, ReadsAny DEF ReadAts
  <2>7. WindowsListed(g)'
    BY <2>2, <1>7 DEF WindowAts
  <2>8. ShownOf(F \cup {g})'
    <3>1. told' = told \ {f.window}
      BY <1>4, <1>12
    <3>2. Existing(windows) \subseteq Window
      BY <1>3 DEF Existing
    <3>3. ASSUME NEW w \in Existing(windows)
          PROVE  /\ w \in told' \/ workspaces[windows'[w]] # NoOid \/ \E e \in F : Closes(e, w)
                 /\ \A v \in Existing(windows) \ {w} : windows'[v] # windows'[w]
      <4>1. CASE w = f.window
        BY <1>5, <2>1, <3>2, <4>1
      <4>2. CASE w # f.window
        BY <1>5, <1>10, <2>1, <3>1, <3>2, <3>3, <4>2
      <4> QED
        BY <4>1, <4>2
    <3> QED
      BY <1>4, <1>5, <3>3 DEF ShownOf
  <2> QED
    BY <1>1, <1>8, <1>9, <1>f, <1>F, <2>3, <2>4, <2>5, <2>6, <2>7, <2>8, LoudGoto
<1> QED
  BY <1>11, <1>12

LEMMA DeleteWorkspaceRowAlone ==
    ASSUME IInv, NEW p \in Call, Alone(p), ~stale, DeleteWorkspaceRow(p)
    PROVE  ~stale' /\ Alone(p)'
<1>f. PICK f : f = Top(p)
  OBVIOUS
<1>F. PICK F : F = Under(p)
  OBVIOUS
<1>0. At(p, "DeleteWorkspace:delete")
  BY DEF DeleteWorkspaceRow
<1>1. /\ TypeInv /\ stack[p] # <<>> /\ f = Head(stack[p])
      /\ f \in FrameOf("DeleteWorkspace:delete")
      /\ f.at = "DeleteWorkspace:delete" /\ WindowsListed(f) /\ Reads(f)
  BY <1>0, <1>f, AtAlone
<1>2. f.window \in Window \cup {NoOid} /\ f.ws \in Workspace
  BY <1>1 DEF FrameOf
<1>3. /\ result \in [Call -> {"ok", "error", "panic"}]
      /\ workspaces[f.ws] # NoOid => Listed(workspaces[f.ws]) = {}
      /\ f.window \in WindowsOf(f.ws)
  BY <1>1 DEF TypeInv, TypeOK, Reads
<1>4. /\ workspaces' = [workspaces EXCEPT ![f.ws] = NoOid]
      /\ UNCHANGED <<tabs, blocks, windows, client>> /\ ~stale'
  <2>1. /\ stale' = (stale \/ (workspaces[f.ws] # NoOid /\ Listed(workspaces[f.ws]) # {}))
        /\ workspaces' = [workspaces EXCEPT ![f.ws] = NoOid]
        /\ UNCHANGED <<tabs, blocks, windows, client>>
    BY <1>1, <1>f DEF DeleteWorkspaceRow
  <2> QED
    BY <1>3, <2>1
<1>5. /\ workspaces'[f.ws] = NoOid /\ DOMAIN workspaces' = DOMAIN workspaces
      /\ \A w : w # f.ws => workspaces'[w] = workspaces[w]
  BY <1>1, <1>2, <1>4, RowTypes
<1>6. \A g : WindowsListed(g) => WindowsListed(g)'
  BY <1>4, ListedSame
<1>7. ASSUME NEW g, g.at \notin WindowAts PROVE WindowsListed(g)'
  BY <1>1, <1>6, <1>7, WindowsListedKept DEF WindowAts
<1>8. Leaves(p, f) /\ \A g, ok : Passes(p, f, g, ok)
  BY <1>1, Unseen DEF BlockAts, TabAts, GoneAts, CreateAts
<1>9. ActiveListed' /\ IsInjective(client)' /\ ~stale'
  BY <1>4, <1>5 DEF Alone, ActiveListed, Existing
<1>10. ASSUME NEW w \in Existing(windows)
       PROVE  /\ w \in told \/ workspaces[windows[w]] # NoOid \/ \E e \in F : Closes(e, w)
              /\ \A v \in Existing(windows) \ {w} : windows[v] # windows[w]
  BY <1>1, <1>f, <1>F, <1>10 DEF Alone, Shown, FramesOf, Closes
<1>11. ASSUME NEW w \in Existing(windows)
       PROVE  windows[w] # f.ws \/ (w = f.window /\ f.window # NoOid)
  <2>1. ASSUME windows[w] = f.ws PROVE w = f.window /\ f.window # NoOid
    <3>1. f.window \in Existing(windows) /\ windows[f.window] = f.ws
      BY <1>3, <2>1 DEF WindowsOf
    <3>2. NoOid \notin Existing(windows)
      BY <1>1, RowTypes, CallsAssumption DEF Existing
    <3> QED
      BY <1>10, <2>1, <3>1, <3>2
  <2> QED
    BY <2>1
<1>12. CASE f.window = NoOid \/ f.free # {}
  <2>a. Return(p, "ok") /\ told' = IF f.window = NoOid THEN told ELSE told \cup {f.window}
    BY <1>1, <1>12, <1>f DEF DeleteWorkspaceRow
  <2>b. (result'[p] # "error") = TRUE
    BY <1>3, <2>a DEF Return
  <2>d. ShownOf(F)'
    <3>1. ASSUME NEW w \in Existing(windows)
          PROVE  w \in told' \/ workspaces'[windows[w]] # NoOid \/ \E e \in F : Closes(e, w)
      <4>1. CASE windows[w] = f.ws
        BY <1>11, <2>a, <4>1
      <4>2. CASE windows[w] # f.ws
        BY <1>5, <1>10, <2>a, <4>2
      <4> QED
        BY <4>1, <4>2
    <3> QED
      BY <1>4, <1>10, <3>1 DEF ShownOf, Existing
  <2> QED
    BY <1>1, <1>7, <1>8, <1>9, <1>f, <1>F, <2>a, <2>b, <2>d, LoudReturn
<1>13. CASE ~(f.window = NoOid \/ f.free # {})
  <2> DEFINE g == [at |-> "CloseWindow", window |-> f.window]
  <2>2. g.at = "CloseWindow" /\ g.window = f.window
    OBVIOUS
  <2>3. Goto(p, g) /\ UNCHANGED <<result, told>>
    BY <1>1, <1>13, <1>f DEF DeleteWorkspaceRow
  <2> HIDE DEF g
  <2>4. Fits(f, g)
    BY <1>1, <2>2
       DEF Fits, Above, OnlyBlocks, OnlyTabs, BlockAts, TabAts, GoneAts, DeleteAts, CreateAts
  <2>5. \A ok : Keeps(g, NoFrame, ok)'
    BY <2>2, KeepsAny DEF KeepAts, NewWindows
  <2>6. Reads(g)'
    BY <2>2, ReadsAny DEF ReadAts
  <2>7. WindowsListed(g)'
    BY <2>2, <1>7 DEF WindowAts
  <2>8. ShownOf(F \cup {g})'
    <3>1. ASSUME NEW w \in Existing(windows)
          PROVE  w \in told \/ workspaces'[windows[w]] # NoOid \/ \E e \in F \cup {g} : Closes(e, w)
      <4>1. CASE windows[w] = f.ws
        BY <1>11, <2>2, <4>1 DEF Closes
      <4>2. CASE windows[w] # f.ws
        BY <1>5, <1>10, <4>2
      <4> QED
        BY <4>1, <4>2
    <3> QED
      BY <1>4, <1>10, <2>3, <3>1 DEF ShownOf, Existing
  <2> QED
    BY <1>1, <1>8, <1>9, <1>f, <1>F, <2>3, <2>4, <2>5, <2>6, <2>7, <2>8, LoudGoto
<1> QED
  BY <1>12, <1>13

-----------------------------------------------------------------------------
(* Tabs and blocks                                                         *)

LEMMA ShownUnder ==
    ASSUME NEW p, Alone(p), NEW f, f = Top(p), f.at \notin {"CloseWindow", "CloseWindow:delete"},
           UNCHANGED <<windows, told>>, \A w : workspaces[w] # NoOid => workspaces'[w] # NoOid,
           NEW G, Under(p) \subseteq G
    PROVE  ShownOf(G)'
<1>1. \A w : \A e \in FramesOf(p) : Closes(e, w) => \E d \in G : Closes(d, w)
  BY DEF FramesOf, Closes
<1> QED
  BY <1>1, ShownStill DEF Alone

\* Tabs and blocks change under functions that do not rely on them.
LEMMA BlocksGoto ==
    ASSUME IInv, NEW p \in Call, Alone(p), ~stale', stack[p] # <<>>, NEW f, f = Top(p),
           NEW g, Goto(p, g), UNCHANGED result, Fits(f, g), Leaves(p, f), Passes(p, f, g, TRUE),
           UNCHANGED <<workspaces, windows, client, told>>,
           f.at \notin {"CloseWindow", "CloseWindow:delete"} \cup WindowAts,
           g.at \notin KeepAts \cup WindowAts, Reads(g)'
    PROVE  ~stale' /\ Alone(p)'
<1>1. WindowsListed(g)'
  BY TabsOnly, WindowsListedKept DEF Alone
<1>2. \A ok : Keeps(g, NoFrame, ok)'
  BY KeepsAny
<1>3. ActiveListed' /\ IsInjective(client)'
  BY TabsOnly
<1>F. PICK F : F = Under(p)
  OBVIOUS
<1>4. ShownOf(F \cup {g})'
  BY <1>F, ShownUnder
<1> QED
  BY <1>1, <1>2, <1>3, <1>4, <1>F, LoudGoto

LEMMA BlocksCall ==
    ASSUME IInv, NEW p \in Call, Alone(p), ~stale', stack[p] # <<>>, NEW f, f = Top(p),
           NEW g, NEW h, CallThen(p, g, h), UNCHANGED result,
           Fits(f, g), Fits(f, h), Above(h, g), Leaves(p, f), Passes(p, f, h, TRUE),
           UNCHANGED <<workspaces, windows, client, told>>,
           f.at \notin {"CloseWindow", "CloseWindow:delete"} \cup WindowAts,
           h.at \notin KeepAts, g.at \notin KeepAts \cup WindowAts, Reads(g)'
    PROVE  ~stale' /\ Alone(p)'
<1>1. WindowsListed(g)'
  BY TabsOnly, WindowsListedKept DEF Alone
<1>2. \A ok : Keeps(g, NoFrame, ok)'
  BY KeepsAny
<1>5. Keeps(h, g, TRUE)'
  BY KeepsAny
<1>3. ActiveListed' /\ IsInjective(client)'
  BY TabsOnly
<1>F. PICK F : F = Under(p)
  OBVIOUS
<1>4. ShownOf(F \cup {g, h})'
  BY <1>F, ShownUnder
<1> QED
  BY <1>1, <1>2, <1>3, <1>4, <1>5, <1>F, LoudCall

LEMMA BlocksReturn ==
    ASSUME IInv, NEW p \in Call, Alone(p), ~stale', stack[p] # <<>>, NEW f, f = Top(p),
           Return(p, "ok"), Leaves(p, f), Passes(p, f, NoFrame, TRUE),
           UNCHANGED <<workspaces, windows, client, told>>,
           f.at \notin {"CloseWindow", "CloseWindow:delete"} \cup WindowAts
    PROVE  ~stale' /\ Alone(p)'
<1>1. \A g : g.at \notin WindowAts => WindowsListed(g)'
  BY TabsOnly, WindowsListedKept DEF Alone
<1>2. (result'[p] # "error") = TRUE
  BY DEF Return, IInv, TypeInv, TypeOK
<1>3. ActiveListed' /\ IsInjective(client)'
  BY TabsOnly
<1>F. PICK F : F = Under(p)
  OBVIOUS
<1>4. ShownOf(F)'
  BY <1>F, ShownUnder
<1> QED
  BY <1>1, <1>2, <1>3, <1>4, <1>F, LoudReturn

\* With an error, and no row changed.
LEMMA QuietError ==
    ASSUME IInv, NEW p \in Call, Alone(p), ~stale, stack[p] # <<>>, NEW f, f = Top(p),
           Return(p, "error"), UNCHANGED <<workspaces, tabs, blocks, windows, client, told, stale>>,
           f.at \notin {"CloseWindow", "CloseWindow:delete"} \cup WindowAts
    PROVE  ~stale' /\ Alone(p)'
<1>1. \A x \in Under(p) : Above(x, f) /\ Keeps(x, f, TRUE) => Keeps(x, NoFrame, FALSE)
  BY ReturnsError
<1>2. (result'[p] # "error") = FALSE
  BY DEF Return, IInv, TypeInv, TypeOK
<1>3. \A w \in Existing(windows) : ~Closes(f, w)
  BY DEF Closes
<1> QED
  BY <1>1, <1>2, <1>3, QuietReturn

LEMMA FreeFits ==
    ASSUME NEW f, f.at \notin BlockAts \cup TabAts \cup GoneAts \cup DeleteAts \cup CreateAts
    PROVE  \A g : Fits(f, g)
BY DEF Fits, Above, OnlyBlocks, OnlyTabs

LEMMA InsertTabAlone ==
    ASSUME IInv, NEW p \in Call, Alone(p), ~stale, InsertTab(p)
    PROVE  ~stale' /\ Alone(p)'
<1>f. PICK f : f = Top(p)
  OBVIOUS
<1>0. At(p, "createTabObj:insert")
  BY DEF InsertTab
<1>1. /\ TypeInv /\ stack[p] # <<>> /\ f = Head(stack[p])
      /\ f \in FrameOf("createTabObj:insert")
      /\ f.at = "createTabObj:insert" /\ Reads(f)
  BY <1>0, <1>f, AtAlone
<1>2. UNCHANGED <<workspaces, windows, client, told, stale, result>>
  BY DEF InsertTab
<1> DEFINE g == [f EXCEPT !.at = "createTabObj:list"]
<1>3. g.at = "createTabObj:list" /\ g.ws = f.ws /\ g.read = f.read
  BY <1>1 DEF FrameOf
<1>4. Goto(p, g)
  BY <1>1, <1>f DEF InsertTab
<1> HIDE DEF g
<1>5. Fits(f, g)
  BY <1>1, <1>3
     DEF Fits, Above, OnlyBlocks, OnlyTabs, BlockAts, TabAts, GoneAts, DeleteAts, CreateAts
<1>9. windows' = windows /\ (\A w : workspaces[w] # NoOid => workspaces'[w] # NoOid)
      /\ f.at \in CreateAts /\ f.at # "CreateWorkspace"
  BY <1>1, <1>2 DEF CreateAts
<1>6. Leaves(p, f) /\ Passes(p, f, g, TRUE)
  BY <1>1, <1>9, Created
<1>7. Reads(g)'
  BY <1>1, <1>2, <1>3 DEF Reads, GoneAts
<1>8. f.at \notin {"CloseWindow", "CloseWindow:delete"} \cup WindowAts
      /\ g.at \notin KeepAts \cup WindowAts
  BY <1>1, <1>3 DEF WindowAts, KeepAts, NewWindows
<1> QED
  BY <1>1, <1>2, <1>4, <1>5, <1>6, <1>7, <1>8, <1>f, BlocksGoto

LEMMA CreateFirstBlockAlone ==
    ASSUME IInv, NEW p \in Call, Alone(p), ~stale, CreateFirstBlock(p)
    PROVE  ~stale' /\ Alone(p)'
<1>f. PICK f : f = Top(p)
  OBVIOUS
<1>0. At(p, "CreateTab:layout")
  BY DEF CreateFirstBlock
<1>1. /\ TypeInv /\ stack[p] # <<>> /\ f = Head(stack[p]) /\ f.at = "CreateTab:layout"
  BY <1>0, <1>f, AtAlone
<1>2. UNCHANGED <<workspaces, windows, client, told, stale>>
  BY DEF CreateFirstBlock
<1>8. f.at \notin {"CloseWindow", "CloseWindow:delete"} \cup WindowAts
  BY <1>1 DEF WindowAts
<1>3. CASE Failed(p) \/ tabs[f.tab] = NoOid
  <2>1. Return(p, "error") /\ UNCHANGED <<blocks, tabs>>
    BY <1>1, <1>3, <1>f DEF CreateFirstBlock
  <2> QED
    BY <1>1, <1>2, <1>8, <1>f, <2>1, QuietError
<1>4. CASE ~(Failed(p) \/ tabs[f.tab] = NoOid)
  <2> DEFINE g == [at |-> "GetLayoutIdForTab", tab |-> f.tab]
  <2>3. g.at = "GetLayoutIdForTab"
    OBVIOUS
  <2>4. Goto(p, g) /\ UNCHANGED result
    BY <1>1, <1>4, <1>f DEF CreateFirstBlock
  <2> HIDE DEF g
  <2>5. Fits(f, g)
    BY <1>1, <2>3
       DEF Fits, Above, OnlyBlocks, OnlyTabs, BlockAts, TabAts, GoneAts, DeleteAts, CreateAts
  <2>9. windows' = windows /\ (\A w : workspaces[w] # NoOid => workspaces'[w] # NoOid)
        /\ f.at \in CreateAts /\ f.at # "CreateWorkspace"
    BY <1>1, <1>2 DEF CreateAts
  <2>6. Leaves(p, f) /\ Passes(p, f, g, TRUE)
    BY <1>1, <2>9, Created
  <2>7. Reads(g)' /\ g.at \notin KeepAts \cup WindowAts
    BY <2>3, ReadsAny DEF ReadAts, KeepAts, NewWindows, WindowAts
  <2> QED
    BY <1>1, <1>2, <1>8, <1>f, <2>4, <2>5, <2>6, <2>7, BlocksGoto
<1> QED
  BY <1>3, <1>4

LEMMA CreateBlockAlone ==
    ASSUME IInv, NEW p \in Call, Alone(p), ~stale, CreateBlock(p)
    PROVE  ~stale' /\ Alone(p)'
<1>f. PICK f : f = Top(p)
  OBVIOUS
<1>0. At(p, "CreateBlock")
  BY DEF CreateBlock
<1>1. /\ TypeInv /\ stack[p] # <<>> /\ f = Head(stack[p]) /\ f.at = "CreateBlock"
  BY <1>0, <1>f, AtAlone
<1>2. UNCHANGED <<workspaces, windows, client, told, stale>>
  BY DEF CreateBlock
<1>5. \A g : Fits(f, g)
  BY <1>1, FreeFits DEF BlockAts, TabAts, GoneAts, DeleteAts, CreateAts
<1>6. Leaves(p, f) /\ \A g : Passes(p, f, g, TRUE)
  BY <1>1, Unseen DEF BlockAts, TabAts, GoneAts, CreateAts
<1>8. f.at \notin {"CloseWindow", "CloseWindow:delete"} \cup WindowAts
  BY <1>1 DEF WindowAts
<1> DEFINE queue == [at |-> "GetLayoutIdForTab", tab |-> f.tab]
<1>3. CASE tabs[f.tab] = NoOid
  <2>1. Return(p, "error") /\ UNCHANGED <<blocks, tabs>>
    BY <1>1, <1>3, <1>f DEF CreateBlock
  <2> QED
    BY <1>1, <1>2, <1>8, <1>f, <2>1, QuietError
<1>4. CASE tabs[f.tab] # NoOid /\ f.target = NoOid
  <2>3. queue.at = "GetLayoutIdForTab"
    OBVIOUS
  <2>4. Goto(p, queue) /\ UNCHANGED result
    BY <1>1, <1>4, <1>f DEF CreateBlock
  <2> HIDE DEF queue
  <2>7. Reads(queue)' /\ queue.at \notin KeepAts \cup WindowAts
    BY <2>3, ReadsAny DEF ReadAts, KeepAts, NewWindows, WindowAts
  <2> QED
    BY <1>1, <1>2, <1>5, <1>6, <1>8, <1>f, <2>4, <2>7, BlocksGoto
<1>7. CASE tabs[f.tab] # NoOid /\ f.target # NoOid
  <2> DEFINE g == [at |-> "DeleteBlock", block |-> f.target, recursive |-> FALSE]
             h == [queue EXCEPT !.at = "CreateBlock:replaced"]
  <2>3. g.at = "DeleteBlock" /\ h.at = "CreateBlock:replaced"
    OBVIOUS
  <2>4. CallThen(p, g, h) /\ UNCHANGED result
    BY <1>1, <1>7, <1>f DEF CreateBlock
  <2> HIDE DEF g, h
  <2>7. Reads(g)' /\ g.at \notin KeepAts \cup WindowAts /\ h.at \notin KeepAts /\ Above(h, g)
    BY <2>3, ReadsAny DEF ReadAts, KeepAts, NewWindows, WindowAts, Above
  <2> QED
    BY <1>1, <1>2, <1>5, <1>6, <1>8, <1>f, <2>4, <2>7, BlocksCall
<1> QED
  BY <1>3, <1>4, <1>7

LEMMA CreateSubBlockAlone ==
    ASSUME IInv, NEW p \in Call, Alone(p), ~stale, CreateSubBlock(p)
    PROVE  ~stale' /\ Alone(p)'
<1>f. PICK f : f = Top(p)
  OBVIOUS
<1>0. At(p, "CreateSubBlock")
  BY DEF CreateSubBlock
<1>1. /\ TypeInv /\ stack[p] # <<>> /\ f = Head(stack[p]) /\ f.at = "CreateSubBlock"
  BY <1>0, <1>f, AtAlone
<1>2. UNCHANGED <<workspaces, windows, client, told, stale>>
  BY DEF CreateSubBlock
<1>6. Leaves(p, f) /\ Passes(p, f, NoFrame, TRUE)
  BY <1>1, Unseen DEF BlockAts, TabAts, GoneAts, CreateAts
<1>8. f.at \notin {"CloseWindow", "CloseWindow:delete"} \cup WindowAts
  BY <1>1 DEF WindowAts
<1>3. CASE blocks[f.block] = NoOid
  <2>1. Return(p, "error") /\ UNCHANGED <<blocks, tabs>>
    BY <1>1, <1>3, <1>f DEF CreateSubBlock
  <2> QED
    BY <1>1, <1>2, <1>8, <1>f, <2>1, QuietError
<1>4. CASE blocks[f.block] # NoOid
  <2>1. Return(p, "ok")
    BY <1>1, <1>4, <1>f DEF CreateSubBlock
  <2> QED
    BY <1>1, <1>2, <1>6, <1>8, <1>f, <2>1, BlocksReturn
<1> QED
  BY <1>3, <1>4

LEMMA UpdateBlockAlone ==
    ASSUME IInv, NEW p \in Call, Alone(p), ~stale, UpdateBlock(p)
    PROVE  ~stale' /\ Alone(p)'
<1>f. PICK f : f = Top(p)
  OBVIOUS
<1>0. At(p, "updateBlock")
  BY DEF UpdateBlock
<1>1. /\ TypeInv /\ stack[p] # <<>> /\ f = Head(stack[p]) /\ f.at = "updateBlock" /\ Reads(f)
  BY <1>0, <1>f, AtAlone
<1>2. UNCHANGED <<workspaces, windows, client, told>> /\ Return(p, "ok")
  BY DEF UpdateBlock
<1>3. stale' = (stale \/ blocks[f.block] # f.read)
  BY <1>1, <1>f DEF UpdateBlock
<1>4. ~stale'
  BY <1>1, <1>3 DEF Reads
<1>6. Leaves(p, f) /\ Passes(p, f, NoFrame, TRUE)
  BY <1>1, Unseen DEF BlockAts, TabAts, GoneAts, CreateAts
<1>8. f.at \notin {"CloseWindow", "CloseWindow:delete"} \cup WindowAts
  BY <1>1 DEF WindowAts
<1> QED
  BY <1>1, <1>2, <1>4, <1>6, <1>8, <1>f, BlocksReturn

LEMMA MoveBlockToTabAlone ==
    ASSUME IInv, NEW p \in Call, Alone(p), ~stale, MoveBlockToTab(p)
    PROVE  ~stale' /\ Alone(p)'
<1>f. PICK f : f = Top(p)
  OBVIOUS
<1>0. At(p, "MoveBlockToTab")
  BY DEF MoveBlockToTab
<1>1. /\ TypeInv /\ stack[p] # <<>> /\ f = Head(stack[p]) /\ f.at = "MoveBlockToTab"
  BY <1>0, <1>f, AtAlone
<1>2. UNCHANGED <<workspaces, windows, client, told, stale>>
  BY DEF MoveBlockToTab
<1>5. \A g : Fits(f, g)
  BY <1>1, FreeFits DEF BlockAts, TabAts, GoneAts, DeleteAts, CreateAts
<1>6. Leaves(p, f) /\ \A g : Passes(p, f, g, TRUE)
  BY <1>1, Unseen DEF BlockAts, TabAts, GoneAts, CreateAts
<1>8. f.at \notin {"CloseWindow", "CloseWindow:delete"} \cup WindowAts
  BY <1>1 DEF WindowAts
<1> DEFINE possible == /\ f.to # NoOid /\ blocks[f.block] # NoOid
                       /\ tabs[f.tab] # NoOid /\ tabs[f.to] # NoOid
                       /\ f.block \in ToSet(tabs[f.tab])
<1>3. CASE ~possible
  <2>1. Return(p, "error") /\ UNCHANGED <<blocks, tabs>>
    BY <1>1, <1>3, <1>f DEF MoveBlockToTab
  <2> QED
    BY <1>1, <1>2, <1>8, <1>f, <2>1, QuietError
<1>4. CASE possible
  <2> DEFINE g == [at |-> "GetLayoutIdForTab", tab |-> f.tab]
             h == [at |-> "GetLayoutIdForTab", tab |-> f.to]
  <2>3. g.at = "GetLayoutIdForTab" /\ h.at = "GetLayoutIdForTab"
    OBVIOUS
  <2>4. CallThen(p, g, h) /\ UNCHANGED result
    BY <1>1, <1>4, <1>f DEF MoveBlockToTab
  <2> HIDE DEF g, h
  <2>7. Reads(g)' /\ g.at \notin KeepAts \cup WindowAts /\ h.at \notin KeepAts /\ Above(h, g)
    BY <2>3, ReadsAny DEF ReadAts, KeepAts, NewWindows, WindowAts, Above
  <2> QED
    BY <1>1, <1>2, <1>5, <1>6, <1>8, <1>f, <2>4, <2>7, BlocksCall
<1> QED
  BY <1>3, <1>4

-----------------------------------------------------------------------------
(* A call alone: workspaces are written                                    *)

\* The one row of a workspace is replaced, by its only writer.
LEMMA WrittenBack ==
    ASSUME IInv, NEW p \in Call, Alone(p), ~stale, NEW ws \in Workspace, NEW read \in WorkspaceRow,
           read = workspaces[ws], NEW new \in WorkspaceRow, UpdateWorkspaceRow(ws, read, new),
           new.active \in Listed(new) \cup {NoOid}
    PROVE  /\ ~stale' /\ workspaces'[ws] = new /\ ActiveListed'
           /\ \A w : workspaces[w] # NoOid => workspaces'[w] # NoOid
           /\ \A w : w # ws => workspaces'[w] = workspaces[w]
<1>1. /\ DOMAIN workspaces = Workspace /\ read # NoOid /\ new # NoOid
  BY RowTypes, CallsAssumption DEF IInv
<1>2. workspaces' = [workspaces EXCEPT ![ws] = new] /\ ~stale'
  BY <1>1 DEF UpdateWorkspaceRow
<1>3. /\ workspaces'[ws] = new /\ DOMAIN workspaces' = Workspace
      /\ \A w : w # ws => workspaces'[w] = workspaces[w]
  BY <1>1, <1>2
<1>4. ActiveListed'
  <2>1. ASSUME NEW w \in Existing(workspaces)'
        PROVE  workspaces'[w].active \in Listed(workspaces'[w]) \cup {NoOid}
    <3>1. CASE w = ws
      BY <1>3, <3>1
    <3>2. CASE w # ws
      BY <1>1, <1>3, <2>1, <3>2 DEF Alone, ActiveListed, Existing
    <3> QED
      BY <3>1, <3>2
  <2> QED
    BY <2>1 DEF ActiveListed
<1> QED
  BY <1>1, <1>2, <1>3, <1>4

LEMMA ListTabAlone ==
    ASSUME IInv, NEW p \in Call, Alone(p), ~stale, ListTab(p)
    PROVE  ~stale' /\ Alone(p)'
<1>f. PICK f : f = Top(p)
  OBVIOUS
<1>F. PICK F : F = Under(p)
  OBVIOUS
<1>0. At(p, "createTabObj:list")
  BY DEF ListTab
<1>1. /\ TypeInv /\ stack[p] # <<>> /\ f = Head(stack[p]) /\ f \in FrameOf("createTabObj:list")
      /\ f.at = "createTabObj:list" /\ Reads(f) /\ WindowsListed(f)
  BY <1>0, <1>f, AtAlone
<1>2. f.ws \in Workspace /\ f.tab \in Tab /\ f.read \in WorkspaceRow
  BY <1>1 DEF FrameOf
<1>3. UNCHANGED <<windows, client, told>> /\ result' = [result EXCEPT ![p] = "ok"]
  BY DEF ListTab
<1>r. PICK r : r = IF f.pinned THEN [f.read EXCEPT !.pinned = Append(@, f.tab)]
                               ELSE [f.read EXCEPT !.tabs = Append(@, f.tab)]
  OBVIOUS
<1>4. /\ r \in WorkspaceRow /\ r.active = f.read.active
      /\ Listed(r) = Listed(f.read) \cup {f.tab}
  <2>1. f.read.tabs \in Seq(Tab) /\ f.read.pinned \in Seq(Tab)
    BY <1>2 DEF WorkspaceRow
  <2>2. /\ Append(f.read.tabs, f.tab) \in Seq(Tab) /\ Append(f.read.pinned, f.tab) \in Seq(Tab)
        /\ ToSet(Append(f.read.tabs, f.tab)) = ToSet(f.read.tabs) \cup {f.tab}
        /\ ToSet(Append(f.read.pinned, f.tab)) = ToSet(f.read.pinned) \cup {f.tab}
    BY <1>2, <2>1, AppendFacts
  <2>3. CASE f.pinned
    <3>1. r \in WorkspaceRow /\ r.active = f.read.active /\ r.tabs = f.read.tabs
          /\ r.pinned = Append(f.read.pinned, f.tab)
      BY <1>2, <1>r, <2>2, <2>3 DEF WorkspaceRow
    <3> QED
      BY <2>2, <3>1 DEF Listed
  <2>4. CASE ~f.pinned
    <3>1. r \in WorkspaceRow /\ r.active = f.read.active /\ r.pinned = f.read.pinned
          /\ r.tabs = Append(f.read.tabs, f.tab)
      BY <1>2, <1>r, <2>2, <2>4 DEF WorkspaceRow
    <3> QED
      BY <2>2, <3>1 DEF Listed
  <2> QED
    BY <2>3, <2>4
<1>5. f.read = workspaces[f.ws] /\ UpdateWorkspaceRow(f.ws, f.read, r)
  BY <1>1, <1>f, <1>r DEF ListTab, Reads
<1>6. r.active \in Listed(r) \cup {NoOid}
  <2>1. f.ws \in Existing(workspaces)
    BY <1>1, <1>2, <1>5, RowTypes, CallsAssumption DEF Existing
  <2> QED
    BY <1>4, <1>5, <2>1 DEF Alone, ActiveListed
<1>7. /\ ~stale' /\ workspaces'[f.ws] = r /\ ActiveListed'
      /\ \A w : workspaces[w] # NoOid => workspaces'[w] # NoOid
  BY <1>2, <1>4, <1>5, <1>6, WrittenBack
<1>8. f.at \in CreateAts /\ f.at # "CreateWorkspace"
  BY <1>1 DEF CreateAts
<1>9. Leaves(p, f) /\ \A g : Passes(p, f, g, TRUE)
  BY <1>1, <1>3, <1>7, <1>8, Created
<1>10. \A g : g.at \notin WindowAts => WindowsListed(g)'
  BY <1>1, <1>3, WindowsListedKept, ListedSame DEF WindowAts
<1>11. \A G : F \subseteq G => ShownOf(G)'
  BY <1>1, <1>3, <1>7, <1>f, <1>F, ShownUnder
<1>12. IsInjective(client)' /\ (result'[p] # "error") = TRUE
  BY <1>1, <1>3 DEF Alone, TypeInv, TypeOK
<1> DEFINE g == [at |-> "SetActiveTab", ws |-> f.ws, tab |-> f.tab]
           h == [at |-> "CreateTab:layout", tab |-> f.tab]
<1>13. g.at = "SetActiveTab" /\ g.ws = f.ws /\ g.tab = f.tab /\ h.at = "CreateTab:layout"
  OBVIOUS
<1>14. IF f.activate THEN CallThen(p, g, h) ELSE Goto(p, h)
  BY <1>1, <1>f DEF ListTab
<1> HIDE DEF g, h
<1>15. Fits(f, g) /\ Fits(f, h) /\ Above(h, g)
  BY <1>1, <1>13
     DEF Fits, Above, OnlyBlocks, OnlyTabs, BlockAts, TabAts, GoneAts, DeleteAts, CreateAts
<1>16. Keeps(h, g, TRUE)' /\ Keeps(g, NoFrame, TRUE)' /\ Keeps(h, NoFrame, TRUE)'
  BY <1>13, KeepsAny DEF KeepAts, NewWindows
<1>17. Reads(g)'
  BY <1>4, <1>7, <1>13 DEF Reads, GoneAts
<1>18. Reads(h)'
  BY <1>13, ReadsAny DEF ReadAts
<1>19. WindowsListed(g)' /\ WindowsListed(h)'
  BY <1>10, <1>13 DEF WindowAts
<1>20. CASE f.activate
  <2>1. ShownOf(F \cup {g, h})' /\ CallThen(p, g, h)
    BY <1>11, <1>14, <1>20
  <2> QED
    BY <1>1, <1>f, <1>F, <1>7, <1>9, <1>12, <1>15, <1>16, <1>17, <1>19, <2>1, LoudCall
<1>21. CASE ~f.activate
  <2>1. ShownOf(F \cup {h})' /\ Goto(p, h)
    BY <1>11, <1>14, <1>21
  <2> QED
    BY <1>1, <1>f, <1>F, <1>7, <1>9, <1>12, <1>15, <1>16, <1>18, <1>19, <2>1, LoudGoto
<1> QED
  BY <1>20, <1>21

LEMMA WriteBackAlone ==
    ASSUME IInv, NEW p \in Call, Alone(p), ~stale, WriteBack(p)
    PROVE  ~stale' /\ Alone(p)'
<1>f. PICK f : f = Top(p)
  OBVIOUS
<1>F. PICK F : F = Under(p)
  OBVIOUS
<1>0. At(p, "writeBack")
  BY DEF WriteBack
<1>1. /\ TypeInv /\ stack[p] # <<>> /\ f = Head(stack[p]) /\ f \in FrameOf("writeBack")
      /\ f.at = "writeBack" /\ Reads(f) /\ WindowsListed(f)
  BY <1>0, <1>f, AtAlone
<1>2. f.ws \in Workspace /\ f.read \in WorkspaceRow /\ f.new \in WorkspaceRow
  BY <1>1 DEF FrameOf
<1>3. UNCHANGED <<windows, client, told>> /\ Return(p, "ok") /\ UpdateWorkspaceRow(f.ws, f.read, f.new)
  BY <1>1, <1>f DEF WriteBack
<1>5. f.read = workspaces[f.ws] /\ f.new.active \in Listed(f.new) \cup {NoOid}
  BY <1>1 DEF Reads
<1>7. /\ ~stale' /\ ActiveListed'
      /\ \A w : workspaces[w] # NoOid => workspaces'[w] # NoOid
  BY <1>2, <1>3, <1>5, WrittenBack
<1>8. f.at \in CreateAts /\ f.at # "CreateWorkspace"
  BY <1>1 DEF CreateAts
<1>9. Leaves(p, f) /\ Passes(p, f, NoFrame, TRUE)
  BY <1>1, <1>3, <1>7, <1>8, Created
<1>10. \A g : g.at \notin WindowAts => WindowsListed(g)'
  BY <1>1, <1>3, WindowsListedKept, ListedSame DEF WindowAts
<1>11. ShownOf(F)'
  BY <1>1, <1>3, <1>7, <1>f, <1>F, ShownUnder
<1>12. IsInjective(client)' /\ (result'[p] # "error") = TRUE
  BY <1>1, <1>3 DEF Alone, TypeInv, TypeOK, Return
<1> QED
  BY <1>1, <1>3, <1>7, <1>9, <1>10, <1>11, <1>12, <1>f, <1>F, LoudReturn

LEMMA CreateWorkspaceAlone ==
    ASSUME IInv, NEW p \in Call, Alone(p), ~stale, CreateWorkspace(p)
    PROVE  ~stale' /\ Alone(p)'
<1>f. PICK f : f = Top(p)
  OBVIOUS
<1>F. PICK F : F = Under(p)
  OBVIOUS
<1>0. At(p, "CreateWorkspace")
  BY DEF CreateWorkspace
<1>1. /\ TypeInv /\ stack[p] # <<>> /\ f = Head(stack[p]) /\ f \in FrameOf("CreateWorkspace")
      /\ f.at = "CreateWorkspace" /\ TopInv(f) /\ WindowsListed(f)
  BY <1>0, <1>f, AtAlone
<1>2. f.ws \in Workspace /\ workspaces[f.ws] = NoOid
  BY <1>1 DEF FrameOf, TopInv, MakesWs
<1>r. PICK r : r = [tabs |-> <<>>, pinned |-> <<>>, active |-> NoOid, named |-> FALSE]
  OBVIOUS
<1>3. /\ UNCHANGED <<windows, client, told, stale, result>>
      /\ workspaces' = [workspaces EXCEPT ![f.ws] = r]
  BY <1>1, <1>f, <1>r DEF CreateWorkspace
<1>4. r \in WorkspaceRow /\ r.active = NoOid /\ r # NoOid
  <2>1. r \in WorkspaceRow /\ r.active = NoOid
    BY <1>r DEF WorkspaceRow
  <2> QED
    BY <2>1, CallsAssumption
<1>5. /\ workspaces'[f.ws] = r /\ DOMAIN workspaces' = Workspace /\ DOMAIN workspaces = Workspace
      /\ \A w : w # f.ws => workspaces'[w] = workspaces[w]
  BY <1>1, <1>2, <1>3, RowTypes
<1>6. \A w : workspaces[w] # NoOid => workspaces'[w] # NoOid
  BY <1>2, <1>5
<1>7. ActiveListed'
  <2>1. ASSUME NEW w \in Existing(workspaces)'
        PROVE  workspaces'[w].active \in Listed(workspaces'[w]) \cup {NoOid}
    <3>1. CASE w = f.ws
      BY <1>4, <1>5, <3>1
    <3>2. CASE w # f.ws
      BY <1>5, <2>1, <3>2 DEF Alone, ActiveListed, Existing
    <3> QED
      BY <3>1, <3>2
  <2> QED
    BY <2>1 DEF ActiveListed
<1> DEFINE g == [at |-> "CreateTab", ws |-> f.ws, pinned |-> FALSE, activate |-> TRUE]
           h == [at |-> "CreateWorkspace:update", ws |-> f.ws, named |-> f.named]
<1>8. g.at = "CreateTab" /\ h.at = "CreateWorkspace:update"
  OBVIOUS
<1>9. CallThen(p, g, h)
  BY <1>1, <1>f DEF CreateWorkspace
<1> HIDE DEF g, h
<1>10. Fits(f, g) /\ Fits(f, h) /\ Above(h, g)
  BY <1>1, <1>8
     DEF Fits, Above, OnlyBlocks, OnlyTabs, BlockAts, TabAts, GoneAts, DeleteAts, CreateAts
<1>11. f.at \in CreateAts
  BY <1>1 DEF CreateAts
<1>12. Leaves(p, f)
  BY <1>1, <1>3, <1>6, <1>11, Created
<1>13. Passes(p, f, h, TRUE)
  <2>1. ASSUME NEW x \in Under(p), Above(x, f), Keeps(x, f, TRUE) PROVE Keeps(x, h, TRUE)'
    <3>1. CASE x.at \notin KeepAts
      BY <3>1, KeepsAny
    <3>2. CASE x.at \in KeepAts
      <4>1. x.at = "CreateWindow:insert"
        BY <1>1, <2>1, <3>2, WaitingAt
           DEF Above, OnlyBlocks, OnlyTabs, BlockAts, TabAts, GoneAts
      <4>2. workspaces'[x.ws] # NoOid
        BY <1>4, <1>5, <1>6, <2>1, <4>1 DEF Keeps
      <4> QED
        BY <1>3, <2>1, <4>1, <4>2 DEF Keeps, Existing, NewWindows
    <3> QED
      BY <3>1, <3>2
  <2> QED
    BY <2>1 DEF Passes
<1>14. Keeps(h, g, TRUE)' /\ \A ok : Keeps(g, NoFrame, ok)'
  BY <1>8, KeepsAny DEF KeepAts, NewWindows
<1>15. Reads(g)'
  BY <1>8, ReadsAny DEF ReadAts
<1>16. WindowsListed(g)'
  BY <1>1, <1>3, <1>8, WindowsListedKept, ListedSame DEF WindowAts
<1>17. ShownOf(F \cup {g, h})'
  BY <1>1, <1>3, <1>6, <1>f, <1>F, ShownUnder
<1>18. IsInjective(client)' /\ ~stale'
  BY <1>3 DEF Alone
<1> QED
  BY <1>1, <1>f, <1>F, <1>7, <1>9, <1>10, <1>12, <1>13, <1>14, <1>15, <1>16, <1>17, <1>18, LoudCall

LEMMA DeleteTabRowAlone ==
    ASSUME IInv, NEW p \in Call, Alone(p), ~stale, DeleteTabRow(p)
    PROVE  ~stale' /\ Alone(p)'
<1>f. PICK f : f = Top(p)
  OBVIOUS
<1>0. At(p, "DeleteTab:delete")
  BY DEF DeleteTabRow
<1>1. /\ TypeInv /\ stack[p] # <<>> /\ f = Head(stack[p]) /\ f \in FrameOf("DeleteTab:delete")
      /\ f.at = "DeleteTab:delete" /\ Reads(f)
  BY <1>0, <1>f, AtAlone
<1>2. UNCHANGED <<workspaces, windows, client, told, result>>
  BY DEF DeleteTabRow
<1>3. stale' = (stale \/ tabs[f.tab] \notin {NoOid, <<>>})
  BY <1>1, <1>f DEF DeleteTabRow
<1>4. ~stale'
  BY <1>1, <1>3 DEF Reads
<1> DEFINE g == [f EXCEPT !.at = "DeleteTab:layout"]
<1>5. g.at = "DeleteTab:layout" /\ g.ws = f.ws /\ g.tab = f.tab /\ g.close = f.close
  BY <1>1 DEF FrameOf
<1>6. Goto(p, g)
  BY <1>1, <1>f DEF DeleteTabRow
<1> HIDE DEF g
<1>7. Fits(f, g)
  BY <1>1, <1>5
     DEF Fits, Above, OnlyBlocks, OnlyTabs, BlockAts, TabAts, GoneAts, DeleteAts, CreateAts
<1>8. ASSUME NEW x \in Under(p), Above(x, f)
      PROVE  /\ \A a : Keeps(x, a, TRUE) => Keeps(x, a, TRUE)'
             /\ Keeps(x, f, TRUE) => Keeps(x, g, TRUE)'
  <2>1. CASE x.at \notin KeepAts
    BY <2>1, KeepsAny
  <2>2. CASE x.at \in KeepAts
    <3>1. x.at = "DeleteWorkspace:tabs"
      BY <1>1, <1>8, <2>2, WaitingAt
         DEF Above, OnlyBlocks, BlockAts, CreateAts
    <3> QED
      BY <1>1, <1>2, <1>5, <3>1 DEF Keeps, NewWindows, TabAts, GoneAts
  <2> QED
    BY <2>1, <2>2
<1>9. Leaves(p, f) /\ Passes(p, f, g, TRUE)
  BY <1>8 DEF Leaves, Passes
<1>10. Reads(g)'
  BY <1>1, <1>2, <1>5 DEF Reads, GoneAts
<1>11. f.at \notin {"CloseWindow", "CloseWindow:delete"} \cup WindowAts
       /\ g.at \notin KeepAts \cup WindowAts
  BY <1>1, <1>5 DEF WindowAts, KeepAts, NewWindows
<1> QED
  BY <1>1, <1>2, <1>4, <1>6, <1>7, <1>9, <1>10, <1>11, <1>f, BlocksGoto

-----------------------------------------------------------------------------
(* Blocks and tabs are deleted                                             *)

\* A tab without the block that is deleted.
LEMMA TabsWithout ==
    ASSUME TypeInv, RowsInv, NEW id \in Existing(blocks), RemoveBlock(id), NEW t \in Tab,
           tabs'[t] # NoOid
    PROVE  tabs[t] # NoOid /\ \A b \in ToSet(tabs'[t]) : b \in ToSet(tabs[t]) /\ b # id
<1>1. tabs' = [s \in Tab |-> IF s = blocks[id].parent /\ tabs[s] # NoOid
                             THEN RemoveFirst(tabs[s], id) ELSE tabs[s]]
  BY DEF RemoveBlock
<1>2. tabs[t] # NoOid
  BY <1>1
<1>3. t \in Existing(tabs) /\ ListedBy(graph, t) = tabs[t]
  BY <1>2, RowTypes DEF Existing, ListedBy, graph
<1>4. /\ tabs[t] \in Seq(Block) /\ IsInjective(tabs[t])
      /\ \A b \in ToSet(tabs[t]) : blocks[b].parent = t
  BY <1>3, KidsFacts
<1>5. CASE t = blocks[id].parent
  <2>1. tabs'[t] = RemoveFirst(tabs[t], id)
    BY <1>1, <1>2, <1>5
  <2>2. ToSet(RemoveFirst(tabs[t], id)) = ToSet(tabs[t]) \ {id}
    BY <1>4, RemoveFirstFacts
  <2> QED
    BY <1>2, <2>1, <2>2
<1>6. CASE t # blocks[id].parent
  BY <1>1, <1>2, <1>4, <1>6
<1> QED
  BY <1>5, <1>6

LEMMA DeleteBlockObjAlone ==
    ASSUME IInv, NEW p \in Call, Alone(p), ~stale, DeleteBlockObj(p)
    PROVE  ~stale' /\ Alone(p)'
<1>f. PICK f : f = Top(p)
  OBVIOUS
<1>0. At(p, "deleteBlockObj")
  BY DEF DeleteBlockObj
<1>1. /\ TypeInv /\ stack[p] # <<>> /\ f = Head(stack[p]) /\ f \in FrameOf("deleteBlockObj")
      /\ f.at = "deleteBlockObj" /\ RowsInv
  BY <1>0, <1>f, AtAlone
<1>2. UNCHANGED <<workspaces, windows, client, told, stale>> /\ f.block \in Block
  BY <1>1 DEF DeleteBlockObj, FrameOf
<1>8. f.at \notin {"CloseWindow", "CloseWindow:delete"} \cup WindowAts
  BY <1>1 DEF WindowAts
<1> DEFINE b == blocks[f.block]
           gone == b # NoOid /\ b.subs = <<>>
           last == Exists(b.parent) /\ RemoveFirst(ChildrenOf(b.parent), f.block) = <<>>
           g == [at |-> "DeleteBlock:tab", tab |-> f.parent]
<1>3. CASE Failed(p) \/ ~gone
  <2>1. Return(p, "error") /\ UNCHANGED <<blocks, tabs>>
    BY <1>1, <1>3, <1>f DEF DeleteBlockObj
  <2> QED
    BY <1>1, <1>2, <1>8, <1>f, <2>1, QuietError
<1>4. CASE ~(Failed(p) \/ ~gone) /\ f.recursive /\ f.parent \in Tab /\ last
  <2>1. Goto(p, g) /\ UNCHANGED result
    BY <1>1, <1>4, <1>f DEF DeleteBlockObj
  <2>2. g.at = "DeleteBlock:tab"
    OBVIOUS
  <2> HIDE DEF g
  <2>3. ~OnlyBlocks(f) /\ \A ws : ~OnlyTabs(f, ws)
    BY <1>1, <1>4 DEF OnlyBlocks, OnlyTabs, TabAts, GoneAts
  <2>4. f.at \notin CreateAts /\ g.at \in DeleteAts
    BY <1>1, <2>2 DEF CreateAts, DeleteAts
  <2>5. Fits(f, g)
    BY <2>3, <2>4 DEF Fits, Above
  <2>6. ASSUME NEW x \in Under(p), Above(x, f) PROVE x.at \notin KeepAts
    BY <1>1, <2>3, <2>4, <2>6, WaitingAt DEF Above
  <2>7. Leaves(p, f) /\ Passes(p, f, g, TRUE)
    BY <2>6, KeepsAny DEF Leaves, Passes
  <2>8. Reads(g)' /\ g.at \notin KeepAts \cup WindowAts
    BY <2>2, ReadsAny DEF ReadAts, KeepAts, NewWindows, WindowAts
  <2> QED
    BY <1>1, <1>2, <1>8, <1>f, <2>1, <2>5, <2>7, <2>8, BlocksGoto
<1>5. CASE ~(Failed(p) \/ ~gone) /\ ~(f.recursive /\ f.parent \in Tab /\ last)
  <2>1. Return(p, "ok") /\ RemoveBlock(f.block)
    BY <1>1, <1>5, <1>f DEF DeleteBlockObj
  <2>2. f.block \in Existing(blocks)
    BY <1>1, <1>2, <1>5, RowTypes DEF Existing
  <2>3. \A t \in Tab : tabs'[t] # NoOid =>
           tabs[t] # NoOid /\ \A c \in ToSet(tabs'[t]) : c \in ToSet(tabs[t]) /\ c # f.block
    BY <1>1, <2>1, <2>2, TabsWithout
  <2>4. f.at \notin TabAts \cup GoneAts \cup CreateAts
    BY <1>1 DEF TabAts, GoneAts, CreateAts
  <2>5. ASSUME NEW x \in Under(p), Above(x, f)
        PROVE  /\ \A a : Keeps(x, a, TRUE) => Keeps(x, a, TRUE)'
               /\ Keeps(x, f, TRUE) => Keeps(x, NoFrame, TRUE)'
    <3>1. CASE x.at \notin KeepAts
      BY <3>1, KeepsAny
    <3>2. CASE x.at = "DeleteTab:blocks"
      <4>1. x.tab \in Tab
        BY <1>1, <3>2, BlocksTab
      <4>2. tabs'[x.tab] # NoOid =>
               tabs[x.tab] # NoOid /\ \A c \in ToSet(tabs'[x.tab]) : c \in ToSet(tabs[x.tab]) /\ c # f.block
        BY <2>3, <4>1
      <4>3. x.at \notin NewWindows \cup {"DeleteWorkspace:tabs", "CreateWindow:insert"}
        BY <3>2 DEF NewWindows
      <4>4. ASSUME NEW a, Keeps(x, a, TRUE) PROVE Keeps(x, a, TRUE)'
        BY <1>2, <3>2, <4>2, <4>3, <4>4 DEF Keeps
      <4>5. ASSUME Keeps(x, f, TRUE) PROVE Keeps(x, NoFrame, TRUE)'
        BY <1>2, <3>2, <4>2, <4>3, <4>5 DEF Keeps
      <4> QED
        BY <4>4, <4>5
    <3>3. CASE x.at = "DeleteWorkspace:tabs"
      BY <1>2, <2>4, <3>3 DEF Keeps, NewWindows
    <3> QED
      BY <1>1, <2>4, <2>5, <3>1, <3>2, <3>3, WaitingAt DEF Above
  <2>6. Leaves(p, f) /\ Passes(p, f, NoFrame, TRUE)
    BY <2>5 DEF Leaves, Passes
  <2> QED
    BY <1>1, <1>2, <1>8, <1>f, <2>1, <2>6, BlocksReturn
<1> QED
  BY <1>3, <1>4, <1>5

LEMMA UnlistTabAlone ==
    ASSUME IInv, NEW p \in Call, Alone(p), ~stale, UnlistTab(p)
    PROVE  ~stale' /\ Alone(p)'
<1>f. PICK f : f = Top(p)
  OBVIOUS
<1>F. PICK F : F = Under(p)
  OBVIOUS
<1>0. At(p, "DeleteTab:blocks")
  BY DEF UnlistTab
<1>1. /\ TypeInv /\ stack[p] # <<>> /\ f = Head(stack[p]) /\ f \in FrameOf("DeleteTab:blocks")
      /\ f.at = "DeleteTab:blocks" /\ RowsInv /\ WindowsListed(f)
      /\ Keeps(f, NoFrame, result[p] # "error")
  BY <1>0, <1>f, AtAlone
<1>2. f.ws \in Workspace /\ f.tab \in Tab /\ f.read \in WorkspaceRow
  BY <1>1 DEF FrameOf
<1>3. UNCHANGED <<tabs, blocks, windows, client, told>>
  BY DEF UnlistTab
<1>8. f.at \notin {"CloseWindow", "CloseWindow:delete"} \cup WindowAts
  BY <1>1 DEF WindowAts
<1>4. CASE Failed(p)
  <2>1. Return(p, "error") /\ UNCHANGED <<workspaces, stale>>
    BY <1>1, <1>4, <1>f DEF UnlistTab
  <2> QED
    BY <1>1, <1>3, <1>8, <1>f, <2>1, QuietError
<1>5. CASE ~Failed(p)
  <2>r. PICK r : r = [Without(f.read, f.tab) EXCEPT !.active = NewActive(f.read, f.tab)]
    OBVIOUS
  <2> DEFINE g == [at |-> "DeleteTab:delete", ws |-> f.ws, tab |-> f.tab, found |-> f.found,
                   close |-> f.recursive /\ NewActive(f.read, f.tab) = NoOid]
  <2>1. g.at = "DeleteTab:delete" /\ g.ws = f.ws /\ g.tab = f.tab /\ (g.close => f.recursive)
    OBVIOUS
  <2>2. UpdateWorkspaceRow(f.ws, f.read, r) /\ Goto(p, g) /\ UNCHANGED result /\ f.todo = <<>>
    BY <1>1, <1>5, <1>f, <2>r DEF UnlistTab
  <2> HIDE DEF g
  <2>3. f.read = workspaces[f.ws] /\ f.tab \in Listed(f.read)
    BY <1>1 DEF Keeps
  <2>4. f.ws \in Existing(workspaces) /\ workspaces[f.ws] # NoOid
    BY <1>1, <1>2, <2>3, RowTypes, CallsAssumption DEF Existing
  <2>5. r \in WorkspaceRow /\ Listed(r) = Listed(f.read) \ {f.tab}
        /\ r.active \in Listed(r) \cup {NoOid}
    <3>1. OnceRow(f.read)
      BY <1>1, <2>3, <2>4 DEF RowsInv, ListedOnce, graph, OnceRow
    <3>2. f.read.active \in Listed(f.read) \cup {NoOid}
      BY <2>3, <2>4 DEF Alone, ActiveListed
    <3>3. /\ r \in WorkspaceRow
          /\ r.active \in Listed(r) \cup {NoOid} \/ (f.read.active # f.tab /\ r.active = f.read.active)
          /\ OnceRow(f.read) => OnceRow(r) /\ Listed(r) = Listed(f.read) \ {f.tab}
      BY <1>2, <2>r, WithoutFacts
    <3> QED
      BY <3>1, <3>2, <3>3
  <2>6. /\ ~stale' /\ workspaces'[f.ws] = r /\ ActiveListed'
        /\ \A w : workspaces[w] # NoOid => workspaces'[w] # NoOid
        /\ \A w : w # f.ws => workspaces'[w] = workspaces[w]
    BY <1>2, <2>2, <2>3, <2>5, WrittenBack
  <2>7. tabs[f.tab] = <<>>
    <3>1. tabs[f.tab] # NoOid
      BY <1>1, <1>2, <2>3, <2>4, ListedFacts
    <3>2. tabs[f.tab] \in Seq(Block)
      BY <1>1, <1>2, <3>1, RowTypes
    <3>3. ToSet(f.todo) = {}
      BY <2>2, EmptyFacts
    <3>4. \A b \in ToSet(tabs[f.tab]) : FALSE
      BY <1>1, <1>5, <3>1, <3>3, NoFrameSays DEF Keeps, Failed, BlockAts
    <3>5. PICK s \in Seq(Block) : s = tabs[f.tab]
      BY <3>2
    <3>6. Len(s) \in Nat /\ DOMAIN s = 1 .. Len(s) /\ \A i \in DOMAIN s : s[i] \in ToSet(s)
      BY DEF ToSet
    <3>7. Len(s) = 0
      <4>1. DOMAIN s = {}
        BY <3>4, <3>5, <3>6
      <4> QED
        BY <3>6, <4>1
    <3> QED
      BY <3>5, <3>7
  <2>8. Reads(g)'
    BY <1>3, <2>1, <2>3, <2>5, <2>6, <2>7 DEF Reads, GoneAts
  <2>9. /\ ~OnlyBlocks(f) /\ f.at \notin CreateAts /\ g.at \in DeleteAts
        /\ \A ws : OnlyTabs(f, ws) => f.ws = ws /\ OnlyTabs(g, ws)
    BY <1>1, <2>1 DEF OnlyBlocks, OnlyTabs, BlockAts, TabAts, GoneAts, CreateAts, DeleteAts
  <2>10. Fits(f, g)
    BY <2>9 DEF Fits, Above
  <2>11. ASSUME NEW x \in Under(p), Above(x, f)
         PROVE  /\ \A a : Keeps(x, a, TRUE) => Keeps(x, a, TRUE)'
                /\ Keeps(x, f, TRUE) => Keeps(x, g, TRUE)'
    <3>1. CASE x.at \notin KeepAts
      BY <3>1, KeepsAny
    <3>2. CASE x.at \in KeepAts
      <4>1. x.at = "DeleteWorkspace:tabs" /\ x.ws = f.ws
        BY <1>1, <2>9, <2>11, <3>2, WaitingAt DEF Above
      <4>2. Listed(workspaces'[x.ws]) \subseteq Listed(workspaces[x.ws])
            /\ workspaces[x.ws] # NoOid
        BY <2>3, <2>4, <2>5, <2>6, <4>1
      <4>3. g.at \in TabAts \cup GoneAts
        BY <2>1 DEF GoneAts
      <4> QED
        BY <2>1, <4>1, <4>2, <4>3 DEF Keeps, NewWindows
    <3> QED
      BY <3>1, <3>2
  <2>12. Leaves(p, f) /\ Passes(p, f, g, TRUE)
    BY <2>11 DEF Leaves, Passes
  <2>13. WindowsListed(g)'
    BY <1>1, <1>3, <1>8, <2>1, WindowsListedKept, ListedSame DEF WindowAts
  <2>14. \A ok : Keeps(g, NoFrame, ok)'
    BY <2>1, KeepsAny DEF KeepAts, NewWindows
  <2>15. ShownOf(F \cup {g})'
    BY <1>3, <1>8, <1>f, <1>F, <2>6, ShownUnder
  <2>16. IsInjective(client)'
    BY <1>3 DEF Alone
  <2> QED
    BY <1>1, <1>f, <1>F, <2>2, <2>6, <2>8, <2>10, <2>12, <2>13, <2>14, <2>15, <2>16, LoudGoto
<1> QED
  BY <1>4, <1>5

-----------------------------------------------------------------------------
(* A call starts when no other runs                                        *)

\* What a request says of the rows, which nobody has changed since.
AsksNow(f) ==
    /\ f.at \notin WindowAts \cup (ReadAts \ {"SetActiveTab", "UpdateTabIds"})
                             \cup (KeepAts \ {"CreateWindow", "MoveBlockToNewWindow"})
    /\ f.at = "UpdateTabIds" => f.seen = workspaces[f.ws]
    /\ f.at \in NewWindows =>
          f.window \notin made /\ \A w \in Existing(windows) : windows[w] # f.ws

LEMMA TabAsksNow == ASSUME NEW f \in TabRequests PROVE AsksNow(f)
<1>1. f.at \in {"DeleteTab", "SetActiveTab", "ChangeTabPinning"}
  <2>1. PICK w \in Existing(workspaces) :
           f \in [at : {"DeleteTab"}, ws : {w}, tab : Listed(workspaces[w]), recursive : {TRUE}]
                   \cup [at : {"SetActiveTab"}, ws : {w}, tab : Listed(workspaces[w])]
                   \cup [at : {"ChangeTabPinning"}, ws : {w}, tab : Listed(workspaces[w]),
                         pin : BOOLEAN]
    BY DEF TabRequests
  <2> QED
    BY <2>1
<1> QED
  BY <1>1 DEF AsksNow, WindowAts, ReadAts, KeepAts, NewWindows

LEMMA WorkspaceAsksNow == ASSUME NEW f \in WorkspaceRequests PROVE AsksNow(f)
<1> DEFINE more == {x \in Existing(workspaces) : Len(workspaces[x].tabs) > 1}
<1>1. CASE f \in {[at |-> "UpdateTabIds", ws |-> w, seen |-> workspaces[w]] : w \in more}
  <2>1. PICK w \in more : f = [at |-> "UpdateTabIds", ws |-> w, seen |-> workspaces[w]]
    BY <1>1
  <2>2. f.at = "UpdateTabIds" /\ f.seen = workspaces[f.ws]
    BY <2>1
  <2> QED
    BY <2>2 DEF AsksNow, WindowAts, ReadAts, KeepAts, NewWindows
<1>2. CASE f \notin {[at |-> "UpdateTabIds", ws |-> w, seen |-> workspaces[w]] : w \in more}
  <2>1. \/ f \in [at : {"CreateTab"}, ws : Existing(workspaces), pinned : {FALSE}, activate : {TRUE}]
        \/ f \in [at : {"DeleteWorkspace"}, ws : Existing(workspaces), force : {TRUE}]
        \/ f \in [at : {"UpdateWorkspace"}, ws : Existing(workspaces)]
        \/ f \in {[at |-> "CreateWorkspace", ws |-> w, named |-> TRUE]
                     : w \in IF Unused(Workspace) = {} THEN {} ELSE {Fresh(Workspace)}}
    BY <1>2 DEF WorkspaceRequests
  <2>2. f.at \in {"CreateTab", "DeleteWorkspace", "UpdateWorkspace", "CreateWorkspace"}
    <3>1. f \in [at : {"CreateTab"}, ws : Existing(workspaces), pinned : {FALSE}, activate : {TRUE}]
          => f.at = "CreateTab"
      OBVIOUS
    <3>2. f \in [at : {"DeleteWorkspace"}, ws : Existing(workspaces), force : {TRUE}]
          => f.at = "DeleteWorkspace"
      OBVIOUS
    <3>3. f \in [at : {"UpdateWorkspace"}, ws : Existing(workspaces)] => f.at = "UpdateWorkspace"
      OBVIOUS
    <3>4. ASSUME NEW ids,
                 f \in {[at |-> "CreateWorkspace", ws |-> w, named |-> TRUE] : w \in ids}
          PROVE  f.at = "CreateWorkspace"
      BY <3>4
    <3> QED
      BY <2>1, <3>1, <3>2, <3>3, <3>4
  <2> QED
    BY <2>2 DEF AsksNow, WindowAts, ReadAts, KeepAts, NewWindows
<1> QED
  BY <1>1, <1>2

\* A workspace id that is not given out is shown by no window.
LEMMA FreshUnseen ==
    ASSUME MadeInv, NEW ws, ws \notin made
    PROVE  \A w \in Existing(windows) : windows[w] # ws
BY DEF MadeInv

LEMMA WindowAsksNow == ASSUME TypeInv, MadeInv, NEW f \in WindowRequests PROVE AsksNow(f)
<1>1. CASE f.at \in {"CloseWindow", "FocusWindow", "SetWindowPosAndSize", "SwitchWorkspace"}
  BY <1>1 DEF AsksNow, WindowAts, ReadAts, KeepAts, NewWindows
<1> DEFINE free == {w \in Existing(workspaces) : WindowsOf(w) = {NoOid}}
<1>2. ASSUME Unused(Window) # {},
             f \in [at : {"CreateWindow"}, window : {Fresh(Window)}, new : {FALSE}, ws : free]
      PROVE  AsksNow(f)
  <2>1. PICK v \in Window : v = Fresh(Window) /\ v \notin made
    BY <1>2, FreshFacts
  <2>2. f.at = "CreateWindow" /\ f.window = v /\ WindowsOf(f.ws) = {NoOid}
    BY <1>2, <2>1
  <2>3. ASSUME NEW w \in Existing(windows), windows[w] = f.ws PROVE FALSE
    <3>1. w \in WindowsOf(f.ws)
      BY <2>3 DEF WindowsOf
    <3>2. w \in Window
      BY RowTypes DEF Existing
    <3> QED
      BY <2>2, <3>1, <3>2, CallsAssumption
  <2> QED
    BY <2>1, <2>2, <2>3 DEF AsksNow, WindowAts, ReadAts, KeepAts, NewWindows
<1>3. ASSUME Unused(Window) # {}, Unused(Workspace) # {},
             f \in [at : {"CreateWindow"}, window : {Fresh(Window)}, new : {TRUE},
                    ws : {Fresh(Workspace)}]
      PROVE  AsksNow(f)
  <2>1. PICK v \in Window : v = Fresh(Window) /\ v \notin made
    BY <1>3, FreshFacts
  <2>2. PICK w \in Workspace : w = Fresh(Workspace) /\ w \notin made
    BY <1>3, FreshFacts
  <2>3. f.at = "CreateWindow" /\ f.ws = w /\ f.window = v
    BY <1>3, <2>1, <2>2
  <2> QED
    BY <2>1, <2>2, <2>3, FreshUnseen DEF AsksNow, WindowAts, ReadAts, KeepAts, NewWindows
<1>4. f \in [at : {"CloseWindow", "FocusWindow", "SetWindowPosAndSize"},
               window : Existing(windows)]
      => f.at \in {"CloseWindow", "FocusWindow", "SetWindowPosAndSize"}
  OBVIOUS
<1>5. f \in [at : {"SwitchWorkspace"}, window : Existing(windows), ws : Existing(workspaces)]
      => f.at = "SwitchWorkspace"
  OBVIOUS
<1> QED
  <2>1. CASE Unused(Window) = {}
    BY <1>1, <1>4, <1>5, <2>1 DEF WindowRequests
  <2>2. CASE Unused(Window) # {} /\ Unused(Workspace) = {}
    BY <1>1, <1>2, <1>4, <1>5, <2>2 DEF WindowRequests
  <2>3. CASE Unused(Window) # {} /\ Unused(Workspace) # {}
    BY <1>1, <1>2, <1>3, <1>4, <1>5, <2>3 DEF WindowRequests
  <2> QED
    BY <2>1, <2>2, <2>3

LEMMA BlockAsksNow == ASSUME TypeInv, MadeInv, NEW f \in BlockRequests PROVE AsksNow(f)
<1>1. CASE f.at \in {"DeleteBlock", "DeleteBlockCommand", "CreateSubBlock", "SetView",
                     "setTermSize", "CreateBlock"}
  BY <1>1 DEF AsksNow, WindowAts, ReadAts, KeepAts, NewWindows
<1> DEFINE tops == {b \in Existing(blocks) : blocks[b].parent \in Tab}
<1>2. ASSUME Unused(Window) # {}, Unused(Workspace) # {},
             f \in {[at |-> "MoveBlockToNewWindow", tab |-> blocks[b].parent, block |-> b,
                     window |-> Fresh(Window), ws |-> Fresh(Workspace)] : b \in tops}
      PROVE  AsksNow(f)
  <2>1. PICK v \in Window : v = Fresh(Window) /\ v \notin made
    BY <1>2, FreshFacts
  <2>2. PICK w \in Workspace : w = Fresh(Workspace) /\ w \notin made
    BY <1>2, FreshFacts
  <2>3. f.at = "MoveBlockToNewWindow" /\ f.ws = w /\ f.window = v
    BY <1>2, <2>1, <2>2
  <2> QED
    BY <2>1, <2>2, <2>3, FreshUnseen DEF AsksNow, WindowAts, ReadAts, KeepAts, NewWindows
<1> QED
  <2>1. CASE Unused(Window) = {} \/ Unused(Workspace) = {}
    BY <1>1, <2>1 DEF BlockRequests
  <2>2. CASE ~(Unused(Window) = {} \/ Unused(Workspace) = {})
    BY <1>1, <1>2, <2>2 DEF BlockRequests
  <2> QED
    BY <2>1, <2>2

LEMMA StartAlone ==
    ASSUME IInv, AloneInv, NEW p \in Call, Start(p), ~overlap'
    PROVE  ~stale' /\ Alone(p)'
<1>1. /\ stack[p] = <<>> /\ overlap' = (overlap \/ ~Idle) /\ result' = [result EXCEPT ![p] = "ok"]
      /\ UNCHANGED <<workspaces, tabs, blocks, windows, client, told, stale>>
  BY DEF Start
<1>2. Idle /\ ~overlap /\ ~stale
  BY <1>1 DEF AloneInv
<1>3. TypeInv /\ MadeInv
  BY <1>2 DEF IInv, RowsInv
<1>4. PICK f \in TabRequests \cup WorkspaceRequests \cup WindowRequests \cup BlockRequests :
         stack' = [stack EXCEPT ![p] = <<f>>]
  BY DEF Start
<1>5. Asks(f) /\ AsksNow(f)
  BY <1>3, <1>4, TabAsks, WorkspaceAsks, WindowAsks, BlockAsks,
     TabAsksNow, WorkspaceAsksNow, WindowAsksNow, BlockAsksNow
<1>6. PICK q \in Call : Alone(q)
  BY <1>2 DEF AloneInv
<1>7. Top(q) = NoFrame /\ FramesOf(q) = {NoFrame}
  BY <1>2 DEF Idle, Top, FramesOf, Under
<1>8. /\ stack'[p] = <<f>> /\ DOMAIN stack'[p] = {1} /\ Top(p)' = f
      /\ \A c \in Call \ {p} : stack'[c] = <<>>
  BY <1>2, <1>3, <1>4 DEF TypeInv, Idle, Top
<1>9. Ordered(p)' /\ Linked(p)'
  <2>1. PICK s : s = stack'[p]
    OBVIOUS
  <2>2. \A i, j \in DOMAIN s : ~(i < j) /\ ~(j > 1)
    BY <1>8, <2>1
  <2>3. Ordered(p)'
    BY <2>1, <2>2 DEF Ordered
  <2>4. Linked(p)'
    BY <2>1, <2>2 DEF Linked
  <2> QED
    BY <2>3, <2>4
<1>10. Ready(p)'
  <2>1. ASSUME NEW ok PROVE Keeps(f, NoFrame, ok)
    <3>1. CASE f.at \notin KeepAts
      BY <3>1, KeepsAny
    <3>2. CASE f.at \in KeepAts
      <4>1. f.at \in {"CreateWindow", "MoveBlockToNewWindow"} /\ f.at \in NewWindows
        BY <1>5, <3>2 DEF AsksNow, NewWindows
      <4>2. windows[f.window] = NoOid
        BY <1>3, <1>5, <4>1, RowTypes DEF Asks, AsksNow, MadeInv, Existing
      <4> QED
        BY <1>5, <4>1, <4>2 DEF Keeps, AsksNow
    <3> QED
      BY <3>1, <3>2
  <2> QED
    BY <1>1, <1>8, <2>1, KeepsSame DEF Ready
<1>11. Reads(Top(p))'
  <2>1. Reads(f)
    <3>1. CASE f.at \notin ReadAts
      BY <3>1, ReadsAny
    <3>2. CASE f.at \in ReadAts
      <4>1. f.at \in {"SetActiveTab", "UpdateTabIds"}
        BY <1>5, <3>2 DEF AsksNow
      <4> QED
        BY <1>5, <4>1 DEF Reads, Asks, AsksNow, GoneAts
    <3> QED
      BY <3>1, <3>2
  <2>2. Reads(f)'
    BY <1>1, <2>1, ReadsSame
  <2> QED
    BY <1>8, <2>2 DEF Reads
<1>12. WindowsListed(Top(p))'
  <2>1. WindowsListed(f)
    BY <1>5, <1>6, <1>7, NoFrameSays, WindowsListedKept DEF Alone, AsksNow
  <2>2. WindowsListed(f)'
    BY <1>1, <2>1, ListedSame
  <2> QED
    BY <1>8, <2>2 DEF WindowsListed
<1>13. Shown(p)'
  BY <1>1, <1>6, <1>7, NoFrameSays DEF Alone, Shown, Existing
<1>14. ActiveListed' /\ IsInjective(client)'
  BY <1>1, <1>6 DEF Alone, ActiveListed, Existing
<1> QED
  BY <1>1, <1>2, <1>8, <1>9, <1>10, <1>11, <1>12, <1>13, <1>14 DEF Alone

-----------------------------------------------------------------------------
(* The invariant of a call that runs alone holds                           *)

\* A step is one of a running call, and starts none.
LEMMA StepsRun ==
    ASSUME NEW p \in Call, Step(p)
    PROVE  stack[p] # <<>> /\ overlap' = overlap
<1>1. CASE DeleteSteps(p)
  BY <1>1 DEF DeleteSteps, DeleteBlock, DeleteSubBlock, DeleteBlockObj, DeleteEmptyTab,
     DeleteTab, ReadTab, DeleteTabBlock, UnlistTab, DeleteTabRow, DeleteLayoutRow,
     CloseEmptyWindow, CloseWindow, DeleteWindowRow, ReadClient, ForgetWindow,
     DeleteWorkspace, ListWorkspaces, KeepOrEmpty, DeleteWorkspaceTab, FindWindow,
     DeleteWorkspaceRow, At
<1>2. CASE CreateSteps(p)
  BY <1>2 DEF CreateSteps, CreateTab, CreateTabObj, InsertTab, ListTab, CreateFirstBlock,
     GetLayoutIdForTab, QueueLayoutAction, CreateWorkspace, NameWorkspace, CreateWindow,
     InsertWindow, CreateBlock, QueueAfterReplace, CreateSubBlock, At
<1>3. CASE UpdateSteps(p)
  BY <1>3 DEF UpdateSteps, ReadForActive, CheckTab, ChangeTabPinning, UpdateTabIds,
     UpdateWorkspace, WriteBack, GetClientData, UpdateClient, SwitchWorkspace, GetWindow,
     CheckOtherWindows, UpdateWindow, SetWindowPosAndSize, ReadBlock, UpdateBlock,
     MoveBlockToNewWindow, ReadNewWorkspace, MoveBlockToTab, DeleteBlockCommand, At
<1> QED
  BY <1>1, <1>2, <1>3 DEF Step

LEMMA StepAlone ==
    ASSUME IInv, NEW p \in Call, Alone(p), ~stale, Step(p)
    PROVE  ~stale' /\ Alone(p)'
<1>1. CASE DeleteSteps(p)
  BY <1>1, DeleteBlockAlone, DeleteSubBlockAlone, DeleteBlockObjAlone,
     DeleteEmptyTabAlone, DeleteTabAlone, ReadTabAlone, DeleteTabBlockAlone,
     UnlistTabAlone, DeleteTabRowAlone, DeleteLayoutRowAlone, CloseEmptyWindowAlone,
     CloseWindowAlone, DeleteWindowRowAlone, ReadClientAlone, ForgetWindowAlone,
     DeleteWorkspaceAlone, ListWorkspacesAlone, KeepOrEmptyAlone,
     DeleteWorkspaceTabAlone, FindWindowAlone, DeleteWorkspaceRowAlone
     DEF DeleteSteps
<1>2. CASE CreateSteps(p)
  BY <1>2, CreateTabAlone, CreateTabObjAlone, InsertTabAlone, ListTabAlone,
     CreateFirstBlockAlone, GetLayoutIdForTabAlone, QueueLayoutActionAlone,
     CreateWorkspaceAlone, NameWorkspaceAlone, CreateWindowAlone, InsertWindowAlone,
     CreateBlockAlone, QueueAfterReplaceAlone, CreateSubBlockAlone
     DEF CreateSteps
<1>3. CASE UpdateSteps(p)
  BY <1>3, ReadForActiveAlone, CheckTabAlone, ChangeTabPinningAlone, UpdateTabIdsAlone,
     UpdateWorkspaceAlone, WriteBackAlone, GetClientDataAlone, UpdateClientAlone,
     SwitchWorkspaceAlone, GetWindowAlone, CheckOtherWindowsAlone, UpdateWindowAlone,
     SetWindowPosAndSizeAlone, ReadBlockAlone, UpdateBlockAlone,
     MoveBlockToNewWindowAlone, ReadNewWorkspaceAlone, MoveBlockToTabAlone,
     DeleteBlockCommandAlone
     DEF UpdateSteps
<1> QED
  BY <1>1, <1>2, <1>3 DEF Step

LEMMA InitAlone == ASSUME Init PROVE AloneInv
<1>1. PICK g \in Graphs :
         /\ workspaces = g.workspaces /\ tabs = g.tabs /\ blocks = g.blocks
         /\ windows = g.windows /\ client = g.client
  BY DEF Init
<1>2. WindowsAgree(g, {})
  BY CallsAssumption DEF Sound
<1>3. /\ stack = [q \in Call |-> <<>>] /\ result = [q \in Call |-> "ok"]
      /\ told = {} /\ stale = FALSE
  BY DEF Init
<1>4. PICK p \in Call : TRUE
  BY CallsAssumption
<1>5. /\ stack[p] = <<>> /\ \A q \in Call \ {p} : stack[q] = <<>>
      /\ Top(p) = NoFrame
  BY <1>3 DEF Top
<1>6. Ordered(p) /\ Linked(p)
  BY <1>5 DEF Ordered, Linked
<1>7. Ready(p) /\ Reads(Top(p))
  BY <1>5, NoFrameSays, KeepsAny, ReadsAny DEF Ready
<1>8. WindowsListed(Top(p))
  <2>1. WindowsListed(NoFrame)
    BY <1>1, <1>2, NoFrameSays DEF WindowsListed, WindowsAgree, Existing, WindowAts
  <2> QED
    BY <1>5, <2>1
<1>9. Shown(p)
  BY <1>1, <1>2 DEF Shown, WindowsAgree
<1>10. ActiveListed /\ IsInjective(client)
  BY <1>1, <1>2 DEF ActiveListed, WindowsAgree
<1> QED
  BY <1>3, <1>4, <1>5, <1>6, <1>7, <1>8, <1>9, <1>10 DEF AloneInv, Alone

LEMMA StutterAlone == ASSUME AloneInv, UNCHANGED vars PROVE AloneInv'
<1>1. UNCHANGED <<workspaces, tabs, blocks, windows, client, stack, result, told, overlap, stale>>
  BY DEF vars
<1>2. ASSUME NEW p \in Call, Alone(p) PROVE Alone(p)'
  <2>1. Top(p)' = Top(p) /\ FramesOf(p)' = FramesOf(p)
    BY <1>1 DEF Top, FramesOf, Under
  <2>2. Ordered(p)'
    BY <1>1, <1>2 DEF Alone, Ordered
  <2>3. Linked(p)'
    <3>1. \A x, a : Keeps(x, a, TRUE)' <=> Keeps(x, a, TRUE)
      BY <1>1, KeepsSame
    <3> QED
      BY <1>1, <1>2, <3>1 DEF Alone, Linked
  <2>f. PICK f : f = Top(p)
    OBVIOUS
  <2>4. Ready(p)'
    <3>1. PICK ok : ok = (result[p] # "error")
      OBVIOUS
    <3>2. Keeps(f, NoFrame, ok)'
      BY <1>1, <1>2, <2>f, <3>1, KeepsSame DEF Alone, Ready
    <3> QED
      BY <1>1, <2>1, <2>f, <3>1, <3>2 DEF Ready
  <2>5. Reads(Top(p))' /\ WindowsListed(Top(p))'
    <3>1. Reads(f)' /\ WindowsListed(f)'
      BY <1>1, <1>2, <2>f, ReadsSame, ListedSame DEF Alone
    <3> QED
      BY <2>1, <2>f, <3>1 DEF Reads, WindowsListed
  <2>6. Shown(p)'
    BY <1>1, <1>2, <2>1 DEF Alone, Shown, Existing
  <2>7. ActiveListed' /\ IsInjective(client)'
    BY <1>1, <1>2 DEF Alone, ActiveListed, Existing
  <2> QED
    BY <1>1, <1>2, <2>2, <2>3, <2>4, <2>5, <2>6, <2>7 DEF Alone
<1> QED
  BY <1>1, <1>2 DEF AloneInv

LEMMA NextAlone == ASSUME IInv, AloneInv, [Next]_vars PROVE AloneInv'
<1>1. SUFFICES ASSUME ~overlap' PROVE AloneInv'
  BY DEF AloneInv
<1>2. ASSUME NEW p \in Call, Start(p) PROVE AloneInv'
  BY <1>1, <1>2, StartAlone DEF AloneInv
<1>3. ASSUME NEW p \in Call, Step(p) PROVE AloneInv'
  <2>1. stack[p] # <<>> /\ ~overlap
    BY <1>1, <1>3, StepsRun
  <2>2. Alone(p) /\ ~stale
    BY <2>1, AloneIs
  <2>3. ~stale' /\ Alone(p)'
    BY <1>3, <2>2, StepAlone
  <2> QED
    BY <2>3 DEF AloneInv
<1> QED
  BY <1>2, <1>3, StutterAlone DEF Next

\* What ObjectGraph promises of such a call follows.
LEMMA AloneAgrees == ASSUME IInv, AloneInv PROVE AloneIsSound
<1>1. SUFFICES ASSUME ~overlap
               PROVE  ~stale /\ (Idle => NoOrphans(graph) /\ WindowsAgree(graph, told))
  BY DEF AloneIsSound
<1>2. PICK p \in Call : Alone(p)
  BY <1>1 DEF AloneInv
<1>3. ~stale
  BY <1>1 DEF AloneInv
<1>4. ASSUME Idle PROVE NoOrphans(graph) /\ WindowsAgree(graph, told)
  <2>1. NoOrphans(graph)
    BY <1>3, <1>4, RowsAgree DEF OnlyStaleWritesHarm
  <2>2. Top(p) = NoFrame /\ FramesOf(p) = {NoFrame}
    BY <1>4 DEF Idle, Top, FramesOf, Under
  <2>3. ToSet(client) = Existing(windows)
    <3>1. WindowsListed(NoFrame) /\ client \in Seq(Window) /\ DOMAIN windows = Window
      BY <1>2, <2>2, RowTypes DEF Alone, IInv
    <3>2. ToSet(client) \subseteq Window
      BY <3>1, ToSetIn
    <3> QED
      BY <3>1, <3>2, NoFrameSays DEF WindowsListed, WindowAts, Existing
  <2>4. \A w \in Existing(windows) :
           /\ w \notin told => workspaces[windows[w]] # NoOid
           /\ \A v \in Existing(windows) \ {w} : windows[v] # windows[w]
    BY <1>2, <2>2, NoFrameSays DEF Alone, Shown
  <2>5. WindowsAgree(graph, told)
    BY <1>2, <2>3, <2>4 DEF WindowsAgree, graph, Alone, ActiveListed
  <2> QED
    BY <2>1, <2>5
<1> QED
  BY <1>3, <1>4

\* While no two calls run at the same time, no row is overwritten that has
\* changed since it was read, although wcore's functions call each other and
\* read and write the same rows, and each call leaves a graph that agrees.
THEOREM AloneIsTrue == Spec => []AloneIsSound
BY InitHolds, InitAlone, NextKeeps, NextAlone, AloneAgrees, PTL DEF Spec
=============================================================================
