------------------------- MODULE ObjectGraphProofs -------------------------
(***************************************************************************)
(* Proofs about ObjectGraph, for any ids, any number of calls and any      *)
(* sound database to start with: until a row is overwritten over a change  *)
(* that its writer had not read, no interleaving of calls leaves a         *)
(* reference to a row that is gone, a row with two parents or, when all    *)
(* calls are done, an orphan.                                              *)
(*                                                                         *)
(* The invariant says which shape rows and frames have, and, while nothing *)
(* is stale, how far each row is from what the graph promises: a tab that  *)
(* no workspace lists is one that a running call is about to list or to    *)
(* delete.  For that it says what the running function of a call may rely  *)
(* on, what one that waits still knows, and that no other running function *)
(* works on the same new or dying row.                                     *)
(***************************************************************************)
EXTENDS ObjectGraph, SequenceTheorems, WellFoundedInduction, TLAPS

-----------------------------------------------------------------------------
(* What a function knows where it is.                                      *)

FrameOf(at) ==
  CASE at = "DeleteBlock" -> [at : {at}, block : Block, recursive : BOOLEAN]
    [] at = "deleteBlockObj" ->
         [at : {at}, block : Block, recursive : BOOLEAN, parent : Tab \cup Block, todo : Seq(Block)]
    [] at \in {"DeleteBlock:tab", "CreateTab:layout", "GetLayoutIdForTab", "QueueLayoutAction",
               "CreateBlock:replaced"} -> [at : {at}, tab : Tab]
    [] at = "DeleteTab" ->
         [at : {at}, ws : Workspace \cup {NoOid}, tab : Tab, recursive : BOOLEAN]
    [] at = "DeleteTab:tab" ->
         [at : {at}, ws : Workspace, tab : Tab, recursive : BOOLEAN, read : WorkspaceRow]
    [] at = "DeleteTab:blocks" ->
         [at : {at}, ws : Workspace, tab : Tab, recursive : BOOLEAN, read : WorkspaceRow,
          found : BOOLEAN, todo : Seq(Block)]
    [] at \in {"DeleteTab:delete", "DeleteTab:layout"} ->
         [at : {at}, ws : Workspace, tab : Tab, found : BOOLEAN, close : BOOLEAN]
    [] at \in {"DeleteTab:window", "UpdateWorkspace"} -> [at : {at}, ws : Workspace]
    [] at \in {"CloseWindow", "CloseWindow:client"} -> [at : {at}, window : Window \cup {NoOid}]
    [] at \in {"CloseWindow:delete", "CreateWindow:client", "FocusWindow",
               "SetWindowPosAndSize"} -> [at : {at}, window : Window]
    [] at = "CloseWindow:update" ->
         [at : {at}, window : Window \cup {NoOid}, read : Seq(Window)]
    [] at = "DeleteWorkspace" -> [at : {at}, ws : Workspace, force : BOOLEAN]
    [] at = "ListWorkspaces" ->
         [at : {at}, ws : Workspace, force : BOOLEAN, read : WorkspaceRow]
    [] at = "ListWindows" ->
         [at : {at}, ws : Workspace, force : BOOLEAN, read : WorkspaceRow,
          free : SUBSET Workspace]
    [] at = "DeleteWorkspace:tabs" ->
         [at : {at}, ws : Workspace, free : SUBSET Workspace, todo : Seq(Tab)]
    [] at = "DeleteWorkspace:delete" ->
         [at : {at}, ws : Workspace, window : Window \cup {NoOid}, free : SUBSET Workspace]
    [] at \in {"CreateTab", "createTabObj"} ->
         [at : {at}, ws : Workspace, pinned : BOOLEAN, activate : BOOLEAN]
    [] at \in {"createTabObj:insert", "createTabObj:list"} ->
         [at : {at}, ws : Workspace, tab : Tab, pinned : BOOLEAN, activate : BOOLEAN,
          read : WorkspaceRow]
    [] at = "SetActiveTab" -> [at : {at}, ws : Workspace, tab : Tab]
    [] at = "SetActiveTab:tab" -> [at : {at}, ws : Workspace, tab : Tab, read : WorkspaceRow]
    [] at = "writeBack" ->
         [at : {at}, ws : Workspace, read : WorkspaceRow, new : WorkspaceRow]
    [] at = "ChangeTabPinning" -> [at : {at}, ws : Workspace, tab : Tab, pin : BOOLEAN]
    [] at = "UpdateTabIds" -> [at : {at}, ws : Workspace, seen : WorkspaceRow]
    [] at \in {"CreateWorkspace", "CreateWorkspace:update"} ->
         [at : {at}, ws : Workspace, named : BOOLEAN]
    [] at = "CreateWindow" -> [at : {at}, window : Window, new : BOOLEAN, ws : Workspace]
    [] at \in {"CreateWindow:insert", "SwitchWorkspace", "GetWindow"} ->
         [at : {at}, window : Window, ws : Workspace]
    [] at = "updateClient" -> [at : {at}, read : Seq(Window), new : Seq(Window)]
    [] at \in {"otherWindows", "updateWindow"} ->
         [at : {at}, window : Window, ws : Workspace, read : Workspace]
    [] at = "CreateBlock" -> [at : {at}, tab : Tab, target : Block \cup {NoOid}]
    [] at \in {"CreateSubBlock", "SetView", "setTermSize", "DeleteBlockCommand"} ->
         [at : {at}, block : Block]
    [] at = "updateBlock" -> [at : {at}, block : Block, read : BlockRow]
    [] at \in {"MoveBlockToNewWindow", "newWorkspace"} ->
         [at : {at}, tab : Tab, block : Block, window : Window, ws : Workspace]
    [] at = "MoveBlockToTab" -> [at : {at}, tab : Tab, block : Block, to : Tab \cup {NoOid}]
    [] OTHER -> {}
\* The steps of the functions.
Ats == {"DeleteBlock", "deleteBlockObj", "DeleteBlock:tab", "CreateTab:layout",
        "GetLayoutIdForTab", "QueueLayoutAction", "CreateBlock:replaced", "DeleteTab",
        "DeleteTab:tab", "DeleteTab:blocks", "DeleteTab:delete", "DeleteTab:layout",
        "DeleteTab:window", "UpdateWorkspace", "CloseWindow", "CloseWindow:client",
        "CloseWindow:delete", "CreateWindow:client", "FocusWindow",
        "SetWindowPosAndSize", "CloseWindow:update", "DeleteWorkspace",
        "ListWorkspaces", "ListWindows", "DeleteWorkspace:tabs",
        "DeleteWorkspace:delete", "CreateTab", "createTabObj", "createTabObj:insert",
        "createTabObj:list", "SetActiveTab", "SetActiveTab:tab", "writeBack",
        "ChangeTabPinning", "UpdateTabIds", "CreateWorkspace", "CreateWorkspace:update",
        "CreateWindow", "CreateWindow:insert", "SwitchWorkspace", "GetWindow",
        "updateClient", "otherWindows", "updateWindow", "CreateBlock", "CreateSubBlock",
        "SetView", "setTermSize", "DeleteBlockCommand", "updateBlock",
        "MoveBlockToNewWindow", "newWorkspace", "MoveBlockToTab"}

Frame == UNION {FrameOf(at) : at \in Ats}

\* Where a function waits for one that it has called.
Waits == {"deleteBlockObj", "DeleteTab:blocks", "CloseWindow:delete", "DeleteWorkspace:tabs",
          "CreateTab:layout", "CreateWorkspace:update", "CreateWindow:insert",
          "CreateBlock:replaced", "newWorkspace", "GetLayoutIdForTab"}

StackOf(s) ==
    /\ s \in Seq(Frame)
    /\ \A i \in DOMAIN s : i > 1 => s[i].at \in Waits

TypeInv ==
    /\ TypeOK
    /\ overlap \in BOOLEAN /\ stale \in BOOLEAN
    /\ made \subseteq Workspace \cup Tab \cup Block \cup Window
    /\ DOMAIN stack = Call
    /\ \A p \in Call : StackOf(stack[p])

\* The running function of p, and those that wait for it.
NoFrame == [at |-> "none"]
Top(p)  == IF stack[p] = <<>> THEN NoFrame ELSE stack[p][1]
Under(p) == {stack[p][i] : i \in DOMAIN stack[p] \ {1}}
FramesOf(p) == Under(p) \cup {Top(p)}

\* f is about to delete its tab; it has made one that no workspace lists yet;
\* it moves a block to a workspace that it makes; it makes a tab active.
Deletes == {"DeleteTab:tab", "DeleteTab:blocks", "DeleteTab:delete", "DeleteTab:layout"}
Lists   == {"createTabObj:insert", "createTabObj:list"}
Moves   == {"MoveBlockToNewWindow", "newWorkspace"}
Activates == {"SetActiveTab", "SetActiveTab:tab"}

\* f is to make the workspace f.ws.
MakesWs(f) ==
    \/ f.at \in {"CreateWorkspace", "MoveBlockToNewWindow"}
    \/ f.at = "CreateWindow" /\ f.new

WithWs == {"DeleteTab:tab", "DeleteTab:blocks", "DeleteTab:delete", "DeleteTab:layout",
           "DeleteTab:window", "DeleteWorkspace", "ListWorkspaces", "ListWindows",
           "DeleteWorkspace:tabs", "DeleteWorkspace:delete", "CreateTab", "createTabObj",
           "createTabObj:insert", "createTabObj:list", "SetActiveTab", "SetActiveTab:tab",
           "writeBack", "ChangeTabPinning", "UpdateTabIds", "UpdateWorkspace",
           "CreateWorkspace", "CreateWorkspace:update", "CreateWindow", "CreateWindow:insert",
           "SwitchWorkspace", "GetWindow", "otherWindows", "updateWindow",
           "MoveBlockToNewWindow", "newWorkspace"}

NewWindows == {"CreateWindow", "CreateWindow:insert", "MoveBlockToNewWindow"}

\* Ids are given out once: those of rows and of frames have been.
MadeFrame(f) ==
    /\ f.at \in Deletes \cup Lists \cup Moves => f.tab \in made
    /\ f.at \in WithWs => f.ws \in made
    /\ f.at \in NewWindows => f.window \in made

MadeInv ==
    /\ Existing(workspaces) \cup Existing(tabs) \cup Existing(blocks) \cup Existing(windows)
         \subseteq made
    /\ \A w \in Existing(windows) : windows[w] \in made

Unlisted(t) == \A w \in Existing(workspaces) : t \notin Listed(workspaces[w])

\* Nothing but what calls are about to list or to delete is an orphan.
OrphansInv ==
    /\ \A t \in Existing(tabs) :
          ~Unlisted(t) \/ \E p \in Call : /\ Top(p).at \in {"createTabObj:list", "DeleteTab:delete"}
                                          /\ Top(p).tab = t
    /\ Existing(tabs) \subseteq layouts
    /\ \A t \in layouts : tabs[t] # NoOid \/ \E p \in Call : /\ Top(p).at = "DeleteTab:layout"
                                                              /\ Top(p).tab = t
    /\ \A b \in Existing(blocks) : /\ Exists(blocks[b].parent)
                                   /\ b \in ToSet(ChildrenOf(blocks[b].parent))

OnceRow(w) == /\ IsInjective(w.tabs) /\ IsInjective(w.pinned)
              /\ ToSet(w.tabs) \cap ToSet(w.pinned) = {}

\* What a running function f may rely on.
TopInv(f) ==
    /\ f.at = "createTabObj:insert" => tabs[f.tab] = NoOid
    /\ f.at = "createTabObj:list" => tabs[f.tab] # NoOid /\ Unlisted(f.tab)
    /\ f.at = "DeleteTab:delete" => tabs[f.tab] # NoOid /\ Unlisted(f.tab) /\ f.found
    /\ f.at = "DeleteTab:layout" => tabs[f.tab] = NoOid /\ f.found
    /\ MakesWs(f) => workspaces[f.ws] = NoOid
    /\ f.at = "writeBack" /\ OnceRow(f.read) =>
          OnceRow(f.new) /\ Listed(f.new) = Listed(f.read)
    /\ f.at = "MoveBlockToTab" => f.to # f.tab

\* ... also while it waits: a tab that it has found was there, and the tab
\* that it moves a block from is not one of the workspace that it makes.
RowInv(f) ==
    /\ MadeFrame(f)
    /\ f.at \in {"DeleteTab:tab", "DeleteTab:blocks"} => f.tab \in Listed(f.read)
    /\ f.at = "DeleteTab:blocks" => f.found \/ tabs[f.tab] = NoOid
    /\ f.at \in Moves /\ workspaces[f.ws] # NoOid =>
          f.tab \notin Listed(workspaces[f.ws]) /\ workspaces[f.ws].active # f.tab

\* Two running functions do not work on the same new or dying row.
ApartInv(f, g) ==
    /\ f.at \in Lists /\ g.at \in Lists => f.tab # g.tab
    /\ f.at = "DeleteTab:delete" /\ g.at = "DeleteTab:delete" => f.tab # g.tab
    /\ MakesWs(f) /\ MakesWs(g) => f.ws # g.ws

\* ... and a running function g leaves alone what f relies on.
PairInv(g, f) ==
    /\ f.at \in Deletes /\ g.at \in Lists => g.tab # f.tab
    /\ f.at \in Moves /\ g.at \in Lists \cup Activates /\ g.ws = f.ws => g.tab # f.tab
    /\ f.at \in Moves /\ g.at = "writeBack" /\ g.ws = f.ws => g.new.active # f.tab

CallsInv ==
    /\ \A q \in Call : TopInv(Top(q))
    /\ \A q \in Call : \A r \in Call \ {q} : ApartInv(Top(q), Top(r))
    /\ \A q \in Call : \A f \in FramesOf(q) :
          RowInv(f) /\ \A r \in Call : PairInv(Top(r), f)

RowsInv == MadeInv /\ NoDangling(graph) /\ ListedOnce(graph) /\ OrphansInv

IInv == TypeInv /\ (~stale => RowsInv /\ CallsInv)

-----------------------------------------------------------------------------
(* Lists                                                                   *)

LEMMA LeastOf ==
    ASSUME NEW S, S \subseteq Nat, S # {}
    PROVE  Min(S) \in S /\ \A y \in S : Min(S) <= y
<1> DEFINE R == OpToRel(<, Nat)
<1>1. PICK x \in S : \A y \in S : <<y, x>> \notin R
  <2> HIDE DEF R
  <2>1. IsWellFoundedOn(R, Nat)
    BY NatLessThanWellFounded DEF R
  <2> QED
    BY <2>1, WFMin
<1>2. \A y \in S : ~(y < x)
  BY <1>1 DEF OpToRel
<1>3. \A y \in S : x <= y
  BY <1>2, SMT
<1> QED
  BY <1>3 DEF Min

LEMMA FirstIndex ==
    ASSUME NEW S, NEW s \in Seq(S), NEW e, e \in ToSet(s)
    PROVE  LET i == SelectInSeq(s, LAMBDA v : v = e)
           IN i \in 1 .. Len(s) /\ s[i] = e
<1> DEFINE I == {i \in 1 .. Len(s) : s[i] = e}
<1>1. I \subseteq Nat /\ I # {}
  BY DEF ToSet
<1>2. Min(I) \in I
  BY <1>1, LeastOf
<1>3. SelectInSeq(s, LAMBDA v : v = e) = Min(I)
  BY <1>1 DEF SelectInSeq
<1> QED
  BY <1>2, <1>3

LEMMA RemoveAtFacts ==
    ASSUME NEW S, NEW s \in Seq(S), NEW i \in 1 .. Len(s)
    PROVE  /\ RemoveAt(s, i) \in Seq(S) /\ Len(RemoveAt(s, i)) = Len(s) - 1
           /\ \A k \in 1 .. Len(s) - 1 : RemoveAt(s, i)[k] = s[IF k < i THEN k ELSE k + 1]
<1>1. /\ SubSeq(s, 1, i - 1) \in Seq(S) /\ Len(SubSeq(s, 1, i - 1)) = i - 1
      /\ \A k \in 1 .. i - 1 : SubSeq(s, 1, i - 1)[k] = s[k]
  OBVIOUS
<1>2. /\ SubSeq(s, i + 1, Len(s)) \in Seq(S) /\ Len(SubSeq(s, i + 1, Len(s))) = Len(s) - i
      /\ \A k \in 1 .. Len(s) - i : SubSeq(s, i + 1, Len(s))[k] = s[k + i]
  OBVIOUS
<1> DEFINE a == SubSeq(s, 1, i - 1)
           b == SubSeq(s, i + 1, Len(s))
<1> HIDE DEF a, b
<1>3. RemoveAt(s, i) = a \o b
  BY DEF RemoveAt, a, b
<1>4. /\ a \o b \in Seq(S) /\ Len(a \o b) = Len(s) - 1
      /\ \A k \in 1 .. Len(a) : (a \o b)[k] = a[k]
      /\ \A k \in 1 .. Len(b) : (a \o b)[Len(a) + k] = b[k]
  <2>1. a \in Seq(S) /\ b \in Seq(S) /\ Len(a) = i - 1 /\ Len(b) = Len(s) - i
    BY <1>1, <1>2 DEF a, b
  <2>2. a \o b \in Seq(S) /\ Len(a \o b) = Len(a) + Len(b)
    BY <2>1
  <2>3. \A k \in 1 .. Len(a) : (a \o b)[k] = a[k]
    BY <2>1
  <2>4. \A k \in 1 .. Len(b) : (a \o b)[Len(a) + k] = b[k]
    BY <2>1
  <2> QED
    BY <2>1, <2>2, <2>3, <2>4
<1>5. ASSUME NEW k \in 1 .. Len(s) - 1
      PROVE  (a \o b)[k] = s[IF k < i THEN k ELSE k + 1]
  <2>1. CASE k < i
    BY <1>1, <1>4, <2>1 DEF a
  <2>2. CASE ~(k < i)
    <3>1. k - Len(a) \in 1 .. Len(b) /\ k = Len(a) + (k - Len(a)) /\ Len(a) = i - 1
      BY <1>1, <1>2, <2>2 DEF a, b
    <3>2. (a \o b)[k] = b[k - Len(a)]
      BY <1>4, <3>1
    <3>3. b[k - Len(a)] = s[(k - Len(a)) + i]
      BY <1>2, <3>1 DEF b
    <3> QED
      BY <2>2, <3>1, <3>2, <3>3
  <2> QED
    BY <2>1, <2>2
<1> QED
  BY <1>3, <1>4, <1>5

\* RemoveElemFromSlice: what stays, in a slice that has each element once.
LEMMA RemoveFirstFacts ==
    ASSUME NEW S, NEW s \in Seq(S), NEW e
    PROVE  /\ RemoveFirst(s, e) \in Seq(S)
           /\ ToSet(RemoveFirst(s, e)) \subseteq ToSet(s)
           /\ ToSet(s) \ {e} \subseteq ToSet(RemoveFirst(s, e))
           /\ IsInjective(s) => /\ IsInjective(RemoveFirst(s, e))
                                /\ ToSet(RemoveFirst(s, e)) = ToSet(s) \ {e}
           /\ e \in ToSet(s) => Len(RemoveFirst(s, e)) = Len(s) - 1
           /\ e \notin ToSet(s) => RemoveFirst(s, e) = s
<1>1. CASE e \notin ToSet(s)
  <2>1. RemoveFirst(s, e) = s
    BY <1>1 DEF RemoveFirst, ToSet
  <2> QED
    BY <2>1, <1>1
<1>2. CASE e \in ToSet(s)
  <2> DEFINE i == SelectInSeq(s, LAMBDA v : v = e)
             r == RemoveAt(s, i)
  <2>1. i \in 1 .. Len(s) /\ s[i] = e
    BY <1>2, FirstIndex
  <2>2. RemoveFirst(s, e) = r
    BY <1>2 DEF RemoveFirst, ToSet
  <2> HIDE DEF i
  <2>3. /\ r \in Seq(S) /\ Len(r) = Len(s) - 1
        /\ \A k \in 1 .. Len(s) - 1 : r[k] = s[IF k < i THEN k ELSE k + 1]
    BY <2>1, RemoveAtFacts
  <2> HIDE DEF r
  <2>4. ToSet(r) \subseteq ToSet(s)
    BY <2>1, <2>3 DEF ToSet
  <2>5. ASSUME NEW x \in ToSet(s), x # e PROVE x \in ToSet(r)
    <3>1. PICK k \in 1 .. Len(s) : s[k] = x
      BY <2>5 DEF ToSet
    <3>2. k < i \/ k > i
      BY <2>1, <2>5, <3>1
    <3>3. CASE k < i
      <4>1. r[k] = x /\ k \in 1 .. Len(s) - 1
        BY <2>1, <2>3, <3>1, <3>3
      <4> QED
        BY <4>1, <2>3 DEF ToSet
    <3>4. CASE k > i
      <4>1. r[k - 1] = x /\ k - 1 \in 1 .. Len(s) - 1
        BY <2>1, <2>3, <3>1, <3>4
      <4> QED
        BY <4>1, <2>3 DEF ToSet
    <3> QED
      BY <3>2, <3>3, <3>4
  <2>6. ASSUME IsInjective(s) PROVE IsInjective(r) /\ e \notin ToSet(r)
    <3>1. \A a, b \in 1 .. Len(s) : s[a] = s[b] => a = b
      BY <2>6 DEF IsInjective
    <3>2. \A a, b \in 1 .. Len(r) : r[a] = r[b] => a = b
      BY <2>1, <2>3, <3>1
    <3>3. \A a \in 1 .. Len(r) : r[a] # e
      BY <2>1, <2>3, <3>1
    <3> QED
      BY <2>3, <3>2, <3>3 DEF IsInjective, ToSet
  <2> QED
    BY <1>2, <2>2, <2>3, <2>4, <2>5, <2>6
<1> QED
  BY <1>1, <1>2

LEMMA AppendFacts ==
    ASSUME NEW S, NEW s \in Seq(S), NEW e \in S
    PROVE  /\ Append(s, e) \in Seq(S) /\ ToSet(Append(s, e)) = ToSet(s) \cup {e}
           /\ IsInjective(s) /\ e \notin ToSet(s) => IsInjective(Append(s, e))
<1>1. /\ Append(s, e) \in Seq(S) /\ Len(Append(s, e)) = Len(s) + 1
      /\ \A k \in 1 .. Len(s) : Append(s, e)[k] = s[k]
      /\ Append(s, e)[Len(s) + 1] = e
  OBVIOUS
<1> DEFINE a == Append(s, e)
<1> HIDE DEF a
<1>2. ToSet(a) = ToSet(s) \cup {e}
  <2>1. ToSet(a) \subseteq ToSet(s) \cup {e}
    BY <1>1 DEF ToSet, a
  <2>2. e \in ToSet(a)
    BY <1>1 DEF ToSet, a
  <2>3. ASSUME NEW x \in ToSet(s) PROVE x \in ToSet(a)
    <3>1. PICK k \in 1 .. Len(s) : s[k] = x
      BY DEF ToSet
    <3>2. k \in 1 .. Len(a) /\ a[k] = x
      BY <1>1, <3>1 DEF a
    <3> QED
      BY <1>1, <3>2 DEF ToSet, a
  <2> QED
    BY <2>1, <2>2, <2>3
<1>3. ASSUME IsInjective(s), e \notin ToSet(s) PROVE IsInjective(a)
  BY <1>1, <1>3 DEF IsInjective, ToSet, a
<1> QED
  BY <1>1, <1>2, <1>3 DEF a

LEMMA PrependFacts ==
    ASSUME NEW S, NEW s \in Seq(S), NEW e \in S
    PROVE  /\ <<e>> \o s \in Seq(S) /\ ToSet(<<e>> \o s) = ToSet(s) \cup {e}
           /\ IsInjective(s) /\ e \notin ToSet(s) => IsInjective(<<e>> \o s)
<1> DEFINE a == <<e>> \o s
<1>1. /\ a \in Seq(S) /\ Len(a) = Len(s) + 1 /\ a[1] = e
      /\ \A k \in 1 .. Len(s) : a[k + 1] = s[k]
  OBVIOUS
<1> HIDE DEF a
<1>0. \A k \in 1 .. Len(a) : k = 1 \/ (k - 1 \in 1 .. Len(s) /\ a[k] = s[k - 1])
  <2>1. ASSUME NEW k \in 1 .. Len(a), k # 1 PROVE k - 1 \in 1 .. Len(s) /\ a[k] = s[k - 1]
    <3>1. k - 1 \in 1 .. Len(s) /\ k = (k - 1) + 1
      BY <1>1, <2>1
    <3> QED
      BY <1>1, <3>1
  <2> QED
    BY <2>1
<1>2. ToSet(a) = ToSet(s) \cup {e}
  <2>1. ToSet(a) \subseteq ToSet(s) \cup {e}
    BY <1>1, <1>0 DEF ToSet
  <2>2. e \in ToSet(a)
    BY <1>1 DEF ToSet
  <2>3. ASSUME NEW x \in ToSet(s) PROVE x \in ToSet(a)
    <3>1. PICK k \in 1 .. Len(s) : s[k] = x
      BY DEF ToSet
    <3>2. k + 1 \in 1 .. Len(a) /\ a[k + 1] = x
      BY <1>1, <3>1
    <3> QED
      BY <1>1, <3>2 DEF ToSet
  <2> QED
    BY <2>1, <2>2, <2>3
<1>3. ASSUME IsInjective(s), e \notin ToSet(s) PROVE IsInjective(a)
  <2>1. \A i, j \in 1 .. Len(s) : s[i] = s[j] => i = j
    BY <1>3 DEF IsInjective
  <2>2. \A i \in 1 .. Len(s) : s[i] # e
    BY <1>3 DEF ToSet
  <2>3. ASSUME NEW i \in 1 .. Len(a), NEW j \in 1 .. Len(a), a[i] = a[j] PROVE i = j
    <3>1. CASE i = 1 /\ j = 1
      BY <3>1
    <3>2. CASE i = 1 /\ j # 1
      BY <1>0, <1>1, <2>2, <2>3, <3>2
    <3>3. CASE i # 1 /\ j = 1
      BY <1>0, <1>1, <2>2, <2>3, <3>3
    <3>4. CASE i # 1 /\ j # 1
      <4>1. i - 1 = j - 1
        BY <1>0, <2>1, <2>3, <3>4
      <4> QED
        BY <4>1
    <3> QED
      BY <3>1, <3>2, <3>3, <3>4
  <2> QED
    BY <2>3, <1>1 DEF IsInjective
<1> QED
  BY <1>1, <1>2, <1>3 DEF a

LEMMA ReverseFacts ==
    ASSUME NEW S, NEW s \in Seq(S)
    PROVE  /\ Reverse(s) \in Seq(S) /\ ToSet(Reverse(s)) = ToSet(s)
           /\ IsInjective(s) => IsInjective(Reverse(s))
<1> DEFINE r == Reverse(s)
<1>1. r = [i \in 1 .. Len(s) |-> s[(Len(s) - i) + 1]]
  BY DEF Reverse
<1>2. \A i \in 1 .. Len(s) : s[(Len(s) - i) + 1] \in S /\ (Len(s) - i) + 1 \in 1 .. Len(s)
  BY ElementOfSeq
<1>3. r \in Seq(S) /\ Len(r) = Len(s)
  BY <1>1, <1>2, IsASeq
<1> HIDE DEF r
<1>4. ToSet(r) \subseteq ToSet(s)
  BY <1>1, <1>2 DEF ToSet
<1>5. ASSUME NEW x \in ToSet(s) PROVE x \in ToSet(r)
  <2>1. PICK k \in 1 .. Len(s) : s[k] = x
    BY DEF ToSet
  <2>2. (Len(s) - k) + 1 \in 1 .. Len(s) /\ (Len(s) - ((Len(s) - k) + 1)) + 1 = k
    OBVIOUS
  <2>3. r[(Len(s) - k) + 1] = x
    BY <1>1, <2>1, <2>2
  <2> QED
    BY <1>1, <2>2, <2>3 DEF ToSet
<1>6. ASSUME IsInjective(s) PROVE IsInjective(r)
  <2>1. \A i, j \in 1 .. Len(s) : s[i] = s[j] => i = j
    BY <1>6 DEF IsInjective
  <2>2. \A i, j \in 1 .. Len(s) : r[i] = r[j] => i = j
    BY <1>1, <1>2, <2>1
  <2> QED
    BY <1>1, <2>2 DEF IsInjective
<1> QED
  BY <1>3, <1>4, <1>5, <1>6 DEF r

LEMMA TailFacts ==
    ASSUME NEW S, NEW s \in Seq(S), s # <<>>
    PROVE  /\ Tail(s) \in Seq(S) /\ Head(s) \in S /\ Head(s) \in ToSet(s) /\ Head(s) = s[1]
           /\ ToSet(Tail(s)) \subseteq ToSet(s)
           /\ ToSet(s) \subseteq ToSet(Tail(s)) \cup {Head(s)}
<1> DEFINE t == Tail(s)
<1>1. /\ t \in Seq(S) /\ Len(t) = Len(s) - 1 /\ Len(s) > 0 /\ Head(s) = s[1] /\ s[1] \in S
      /\ \A k \in 1 .. Len(s) - 1 : t[k] = s[k + 1]
  OBVIOUS
<1> HIDE DEF t
<1>2. ToSet(t) \subseteq ToSet(s)
  BY <1>1 DEF ToSet
<1>3. ASSUME NEW x \in ToSet(s), x # s[1] PROVE x \in ToSet(t)
  <2>1. PICK k \in 1 .. Len(s) : s[k] = x
    BY DEF ToSet
  <2>3. k - 1 \in 1 .. Len(t) /\ k - 1 \in 1 .. Len(s) - 1 /\ (k - 1) + 1 = k
    BY <1>1, <1>3, <2>1
  <2>2. k - 1 \in 1 .. Len(t) /\ t[k - 1] = x
    BY <1>1, <2>1, <2>3
  <2> QED
    BY <1>1, <2>2 DEF ToSet
<1>4. s[1] \in ToSet(s)
  BY <1>1 DEF ToSet
<1> QED
  BY <1>1, <1>2, <1>3, <1>4 DEF t

LEMMA ConcatFacts ==
    ASSUME NEW S, NEW s \in Seq(S), NEW t \in Seq(S)
    PROVE  s \o t \in Seq(S) /\ ToSet(s \o t) = ToSet(s) \cup ToSet(t)
<1>1. s \o t \in Seq(S) /\ Len(s \o t) = Len(s) + Len(t)
  OBVIOUS
<1>2. \A i \in 1 .. Len(s) : (s \o t)[i] = s[i]
  OBVIOUS
<1>3. \A i \in 1 .. Len(t) : (s \o t)[Len(s) + i] = t[i]
  OBVIOUS
<1>4. ToSet(s) \subseteq ToSet(s \o t)
  BY <1>1, <1>2 DEF ToSet
<1>5. ToSet(t) \subseteq ToSet(s \o t)
  <2>1. SUFFICES ASSUME NEW i \in 1 .. Len(t) PROVE t[i] \in ToSet(s \o t)
    BY DEF ToSet
  <2>2. Len(s) + i \in 1 .. Len(s \o t) /\ (s \o t)[Len(s) + i] = t[i]
    BY <1>1, <1>3
  <2> QED
    BY <1>1, <2>2 DEF ToSet
<1>6. ToSet(s \o t) \subseteq ToSet(s) \cup ToSet(t)
  <2>1. SUFFICES ASSUME NEW i \in 1 .. Len(s \o t) PROVE (s \o t)[i] \in ToSet(s) \cup ToSet(t)
    BY <1>1 DEF ToSet
  <2>2. CASE i \in 1 .. Len(s)
    BY <1>2, <2>2 DEF ToSet
  <2>3. CASE i \notin 1 .. Len(s)
    <3>1. i - Len(s) \in 1 .. Len(t) /\ i = Len(s) + (i - Len(s))
      BY <1>1, <2>3
    <3>2. (s \o t)[i] = t[i - Len(s)]
      BY <1>3, <3>1
    <3> QED
      BY <3>1, <3>2 DEF ToSet
  <2> QED
    BY <2>2, <2>3
<1> QED
  BY <1>1, <1>4, <1>5, <1>6

LEMMA EmptyFacts == ToSet(<<>>) = {} /\ IsInjective(<<>>)
<1>1. DOMAIN <<>> = {}
  OBVIOUS
<1> QED
  BY <1>1 DEF ToSet, IsInjective
LEMMA ToSetIn == ASSUME NEW S, NEW s \in Seq(S) PROVE ToSet(s) \subseteq S
  BY DEF ToSet
\* The stack of a call.
LEMMA PutOne ==
    ASSUME NEW S, NEW s \in Seq(S), s # <<>>, NEW f \in S
    PROVE  LET t == <<f>> \o Tail(s)
           IN /\ t \in Seq(S) /\ t # <<>> /\ Len(t) = Len(s) /\ DOMAIN t = DOMAIN s
              /\ t[1] = f /\ \A i \in DOMAIN s : i # 1 => t[i] = s[i]
<1> DEFINE u == Tail(s)  t == <<f>> \o u
<1>1. /\ u \in Seq(S) /\ Len(u) = Len(s) - 1 /\ Len(s) > 0
      /\ \A k \in 1 .. Len(s) - 1 : u[k] = s[k + 1]
  OBVIOUS
<1> HIDE DEF u
<1>2. /\ t \in Seq(S) /\ Len(t) = Len(u) + 1 /\ t[1] = f
      /\ \A k \in 1 .. Len(u) : t[k + 1] = u[k]
  BY <1>1
<1> HIDE DEF t
<1>3. ASSUME NEW i \in 1 .. Len(s), i # 1 PROVE t[i] = s[i]
  <2>1. i - 1 \in 1 .. Len(u) /\ i = (i - 1) + 1
    BY <1>1, <1>3
  <2> QED
    BY <2>1, <1>1, <1>2
<1>4. t \in Seq(S) /\ t # <<>> /\ Len(t) = Len(s) /\ DOMAIN t = DOMAIN s /\ t[1] = f
  BY <1>1, <1>2
<1> QED
  BY <1>3, <1>4 DEF t, u

LEMMA PutTwo ==
    ASSUME NEW S, NEW s \in Seq(S), s # <<>>, NEW f \in S, NEW g \in S
    PROVE  LET t == <<g, f>> \o Tail(s)
           IN /\ t \in Seq(S) /\ t # <<>> /\ Len(t) = Len(s) + 1
              /\ t[1] = g /\ t[2] = f /\ 2 \in DOMAIN t
              /\ \A i \in DOMAIN t : i = 1 \/ i = 2 \/ (i - 1 \in DOMAIN s /\ i - 1 # 1 /\ t[i] = s[i - 1])
<1> DEFINE u == Tail(s)  t == <<g, f>> \o u
<1>1. /\ u \in Seq(S) /\ Len(u) = Len(s) - 1 /\ Len(s) > 0
      /\ \A k \in 1 .. Len(s) - 1 : u[k] = s[k + 1]
  OBVIOUS
<1> HIDE DEF u
<1>2. /\ t \in Seq(S) /\ Len(t) = Len(u) + 2 /\ t[1] = g /\ t[2] = f
      /\ \A k \in 1 .. Len(u) : t[k + 2] = u[k]
  BY <1>1
<1> HIDE DEF t
<1>3. ASSUME NEW i \in 1 .. Len(t), i # 1, i # 2
      PROVE  i - 1 \in 1 .. Len(s) /\ i - 1 # 1 /\ t[i] = s[i - 1]
  <2>1. i - 2 \in 1 .. Len(u) /\ i = (i - 2) + 2 /\ i - 1 = (i - 2) + 1
    BY <1>1, <1>2, <1>3
  <2>2. t[i] = u[i - 2] /\ u[i - 2] = s[i - 1]
    BY <2>1, <1>1, <1>2
  <2> QED
    BY <1>1, <2>1, <2>2
<1>4. t \in Seq(S) /\ t # <<>> /\ Len(t) = Len(s) + 1 /\ t[1] = g /\ t[2] = f /\ 2 \in DOMAIN t
  BY <1>1, <1>2
<1>5. DOMAIN t = 1 .. Len(t) /\ DOMAIN s = 1 .. Len(s)
  BY <1>4
<1> QED
  BY <1>3, <1>4, <1>5 DEF t, u

LEMMA TakeOne ==
    ASSUME NEW S, NEW s \in Seq(S), s # <<>>
    PROVE  LET t == Tail(s)
           IN /\ t \in Seq(S) /\ Len(t) = Len(s) - 1
              /\ \A i \in DOMAIN t : i + 1 \in DOMAIN s /\ i + 1 # 1 /\ t[i] = s[i + 1]
  OBVIOUS

-----------------------------------------------------------------------------
(* The stack of a call                                                     *)

LEMMA FrameIs == ASSUME NEW f \in Frame PROVE f \in FrameOf(f.at) /\ f.at \in Ats
<1>1. ASSUME NEW a, NEW x \in FrameOf(a) PROVE x.at = a
  BY DEF FrameOf
<1> QED
  BY <1>1 DEF Frame

LEMMA InFrame == ASSUME NEW a, NEW f \in FrameOf(a) PROVE f \in Frame
<1>1. a \in Ats
  BY DEF FrameOf, Ats
<1> QED
  BY <1>1 DEF Frame

\* p goes on with g, and with the functions of H added to those that wait.
Leads(p, g, H) ==
    /\ DOMAIN stack' = Call
    /\ \A q \in Call : StackOf(stack[q])'
    /\ \A q \in Call \ {p} : stack'[q] = stack[q]
    /\ Top(p)' = g
    /\ Under(p)' \subseteq Under(p) \cup H

LEMMA TopIsHead ==
    ASSUME TypeInv, NEW p \in Call, stack[p] # <<>>
    PROVE  Top(p) \in Frame /\ Top(p) = Head(stack[p]) /\ Top(p) = stack[p][1]
<1>1. stack[p] \in Seq(Frame)
  BY DEF TypeInv, StackOf
<1> QED
  BY <1>1, TailFacts DEF Top

LEMMA UnderFacts ==
    ASSUME TypeInv, NEW p \in Call, NEW f \in Under(p)
    PROVE  f \in Frame /\ f.at \in Waits
<1>1. stack[p] \in Seq(Frame) /\ \A i \in DOMAIN stack[p] : i > 1 => stack[p][i].at \in Waits
  BY DEF TypeInv, StackOf
<1>2. PICK i \in DOMAIN stack[p] : i # 1 /\ f = stack[p][i]
  BY DEF Under
<1>3. i \in 1 .. Len(stack[p]) /\ i > 1
  BY <1>1, <1>2
<1> QED
  BY <1>1, <1>2, <1>3

LEMMA GotoLeads ==
    ASSUME TypeInv, NEW p \in Call, stack[p] # <<>>, NEW g \in Frame, Goto(p, g)
    PROVE  Leads(p, g, {})
<1> DEFINE t == <<g>> \o Tail(stack[p])
<1>1. stack[p] \in Seq(Frame) /\ \A i \in DOMAIN stack[p] : i > 1 => stack[p][i].at \in Waits
  BY DEF TypeInv, StackOf
<1>2. /\ t \in Seq(Frame) /\ t # <<>> /\ DOMAIN t = DOMAIN stack[p] /\ t[1] = g
      /\ \A i \in DOMAIN stack[p] : i # 1 => t[i] = stack[p][i]
  BY <1>1, PutOne
<1>3. DOMAIN stack' = Call /\ stack'[p] = t /\ \A q \in Call \ {p} : stack'[q] = stack[q]
  BY DEF Goto, TypeInv
<1> HIDE DEF t
<1>4. StackOf(t)
  <2>1. DOMAIN stack[p] = 1 .. Len(stack[p])
    BY <1>1
  <2> QED
    BY <1>1, <1>2, <2>1 DEF StackOf
<1>5. \A q \in Call : StackOf(stack[q])'
  BY <1>3, <1>4 DEF TypeInv, StackOf
<1>6. Top(p)' = g
  BY <1>2, <1>3 DEF Top
<1>7. Under(p)' \subseteq Under(p)
  BY <1>2, <1>3 DEF Under
<1> QED
  BY <1>3, <1>5, <1>6, <1>7 DEF Leads

LEMMA CallThenLeads ==
    ASSUME TypeInv, NEW p \in Call, stack[p] # <<>>, NEW g \in Frame, NEW h \in Frame,
           h.at \in Waits, CallThen(p, g, h)
    PROVE  Leads(p, g, {h})
<1> DEFINE t == <<g, h>> \o Tail(stack[p])
<1>1. stack[p] \in Seq(Frame) /\ \A i \in DOMAIN stack[p] : i > 1 => stack[p][i].at \in Waits
  BY DEF TypeInv, StackOf
<1>2. /\ t \in Seq(Frame) /\ t # <<>> /\ t[1] = g /\ t[2] = h
      /\ \A i \in DOMAIN t : i = 1 \/ i = 2 \/ (i - 1 \in DOMAIN stack[p] /\ i - 1 # 1 /\ t[i] = stack[p][i - 1])
  BY <1>1, PutTwo
<1>3. DOMAIN stack' = Call /\ stack'[p] = t /\ \A q \in Call \ {p} : stack'[q] = stack[q]
  BY DEF CallThen, TypeInv
<1> HIDE DEF t
<1>4. StackOf(t)
  <2>1. DOMAIN stack[p] = 1 .. Len(stack[p]) /\ DOMAIN t = 1 .. Len(t)
    BY <1>1, <1>2
  <2> QED
    BY <1>1, <1>2, <2>1 DEF StackOf
<1>5. \A q \in Call : StackOf(stack[q])'
  BY <1>3, <1>4 DEF TypeInv, StackOf
<1>6. Top(p)' = g
  BY <1>2, <1>3 DEF Top
<1>7. Under(p)' \subseteq Under(p) \cup {h}
  BY <1>2, <1>3 DEF Under
<1> QED
  BY <1>3, <1>5, <1>6, <1>7 DEF Leads

LEMMA ReturnLeads ==
    ASSUME TypeInv, NEW p \in Call, stack[p] # <<>>, stack' = [stack EXCEPT ![p] = Tail(@)]
    PROVE  \E g \in Under(p) \cup {NoFrame} : Leads(p, g, {})
<1> DEFINE t == Tail(stack[p])
<1>1. stack[p] \in Seq(Frame) /\ \A i \in DOMAIN stack[p] : i > 1 => stack[p][i].at \in Waits
  BY DEF TypeInv, StackOf
<1>2. /\ t \in Seq(Frame)
      /\ \A i \in DOMAIN t : i + 1 \in DOMAIN stack[p] /\ i + 1 # 1 /\ t[i] = stack[p][i + 1]
  BY <1>1, TakeOne
<1>3. DOMAIN stack' = Call /\ stack'[p] = t /\ \A q \in Call \ {p} : stack'[q] = stack[q]
  BY DEF TypeInv
<1> HIDE DEF t
<1>4. StackOf(t)
  <2>1. DOMAIN stack[p] = 1 .. Len(stack[p]) /\ DOMAIN t = 1 .. Len(t)
    BY <1>1, <1>2
  <2> QED
    BY <1>1, <1>2, <2>1 DEF StackOf
<1>5. \A q \in Call : StackOf(stack[q])'
  BY <1>3, <1>4 DEF TypeInv, StackOf
<1>6. Top(p)' \in Under(p) \cup {NoFrame}
  <2>1. CASE t = <<>>
    BY <1>3, <2>1 DEF Top
  <2>2. CASE t # <<>>
    <3>1. 1 \in DOMAIN t
      BY <1>2, <2>2
    <3> QED
      BY <1>2, <1>3, <2>2, <3>1 DEF Top, Under
  <2> QED
    BY <2>1, <2>2
<1>7. Under(p)' \subseteq Under(p)
  BY <1>2, <1>3 DEF Under
<1> QED
  BY <1>3, <1>5, <1>6, <1>7 DEF Leads

LEMMA PanicLeads ==
    ASSUME TypeInv, NEW p \in Call, stack' = [stack EXCEPT ![p] = <<>>]
    PROVE  Leads(p, NoFrame, {})
<1>1. DOMAIN stack' = Call /\ stack'[p] = <<>> /\ \A q \in Call \ {p} : stack'[q] = stack[q]
  BY DEF TypeInv
<1>2. StackOf(<<>>)
  BY DEF StackOf
<1>3. \A q \in Call : StackOf(stack[q])'
  BY <1>1, <1>2 DEF TypeInv, StackOf
<1>4. Top(p)' = NoFrame /\ Under(p)' = {}
  BY <1>1 DEF Top, Under
<1> QED
  BY <1>1, <1>3, <1>4 DEF Leads

-----------------------------------------------------------------------------
(* What a step of one call leaves of what the others rely on               *)

LEMMA FramesFacts ==
    ASSUME TypeInv, NEW q \in Call, NEW f \in FramesOf(q)
    PROVE  f \in Frame \cup {NoFrame}
<1>1. CASE f \in Under(q)
  BY <1>1, UnderFacts
<1>2. CASE f = Top(q) /\ stack[q] # <<>>
  BY <1>2, TopIsHead
<1>3. CASE f = Top(q) /\ stack[q] = <<>>
  BY <1>3 DEF Top
<1> QED
  BY <1>1, <1>2, <1>3 DEF FramesOf

\* What CallsInv needs of a step of p: the rows change under the frames that
\* stay, and g and those of H are new.
LEMMA CallsStep ==
    ASSUME CallsInv, NEW p \in Call, NEW g, NEW H, Leads(p, g, H),
           \A q \in Call \ {p} : \A f \in {Top(q)} : TopInv(f)',
           \A q \in Call : \A f \in FramesOf(q) : RowInv(f)',
           TopInv(g)',
           \A f \in H \cup {g} : RowInv(f)' /\ \A q \in Call \ {p} : PairInv(Top(q), f),
           \A q \in Call \ {p} : ApartInv(g, Top(q)) /\ ApartInv(Top(q), g),
           \A q \in Call : \A f \in FramesOf(q) : PairInv(g, f),
           \A f \in H \cup {g} : PairInv(g, f)
    PROVE  CallsInv'
<1>1. \A q \in Call \ {p} : Top(q)' = Top(q) /\ Under(q)' = Under(q)
  BY DEF Leads, Top, Under
<1>2. Top(p)' = g /\ Under(p)' \subseteq Under(p) \cup H
  BY DEF Leads
<1>3. \A q \in Call \ {p} : FramesOf(q)' = FramesOf(q)
  BY <1>1 DEF FramesOf
<1>4. FramesOf(p)' \subseteq FramesOf(p) \cup H \cup {g}
  BY <1>2 DEF FramesOf
<1>5. \A q \in Call : TopInv(Top(q))'
  <2>1. TopInv(Top(p))'
    BY <1>2
  <2>2. ASSUME NEW q \in Call \ {p} PROVE TopInv(Top(q))'
    <3>1. PICK f : f = Top(q)
      OBVIOUS
    <3>2. TopInv(f)' /\ Top(q)' = f
      BY <3>1, <1>1
    <3> QED
      BY <3>2
  <2> QED
    BY <2>1, <2>2
<1>6. ASSUME NEW q \in Call, NEW r \in Call \ {q} PROVE ApartInv(Top(q), Top(r))'
  <2>1. ApartInv(Top(q)', Top(r)')
    <3>1. CASE q = p
      BY <1>1, <1>2, <3>1
    <3>2. CASE r = p
      BY <1>1, <1>2, <3>2
    <3>3. CASE q # p /\ r # p
      BY <1>1, <3>3 DEF CallsInv
    <3> QED
      BY <3>1, <3>2, <3>3
  <2> QED
    BY <2>1 DEF ApartInv, MakesWs
<1>7. ASSUME NEW q \in Call, NEW f \in FramesOf(q)' PROVE RowInv(f)'
  <2>1. CASE f \in FramesOf(q)
    BY <2>1
  <2>2. CASE f \in H \cup {g}
    BY <2>2
  <2> QED
    BY <1>3, <1>4, <2>1, <2>2
<1>8. ASSUME NEW q \in Call, NEW f \in FramesOf(q)', NEW r \in Call PROVE PairInv(Top(r), f)'
  <2>1. PairInv(Top(r)', f)
    <3>1. CASE f \in FramesOf(q) /\ r = p
      BY <1>2, <3>1
    <3>2. CASE f \in FramesOf(q) /\ r # p
      BY <1>1, <3>2 DEF CallsInv
    <3>3. CASE f \in H \cup {g}
      BY <1>1, <1>2, <3>3
    <3> QED
      BY <1>3, <1>4, <3>1, <3>2, <3>3
  <2> QED
    BY <2>1 DEF PairInv
<1> QED
  BY <1>5, <1>6, <1>7, <1>8 DEF CallsInv

\* Functions that no other relies on, and that rely on nothing but their ids.
Quiet(g) ==
    /\ g.at \notin Lists \cup Deletes \cup Moves \cup Activates \cup {"writeBack", "MoveBlockToTab"}
    /\ ~MakesWs(g)

LEMMA QuietFacts ==
    ASSUME NEW g, Quiet(g)
    PROVE  /\ TopInv(g)' /\ (RowInv(g)' <=> MadeFrame(g)')
           /\ \A f : ApartInv(g, f) /\ ApartInv(f, g) /\ PairInv(g, f) /\ PairInv(f, g)
<1>1. TopInv(g)'
  BY DEF Quiet, TopInv, Lists, Deletes, MakesWs
<1>2. RowInv(g)' <=> MadeFrame(g)'
  BY DEF Quiet, RowInv, Deletes, Moves
<1>3. \A f : ApartInv(g, f) /\ ApartInv(f, g)
  BY DEF Quiet, ApartInv, Deletes, Lists
<1>4. \A f : PairInv(g, f) /\ PairInv(f, g)
  BY DEF Quiet, PairInv, Deletes, Lists, Moves, Activates
<1> QED
  BY <1>1, <1>2, <1>3, <1>4

\* A function that has waited goes on.
LEMMA WaitsFacts ==
    ASSUME NEW g, g.at \in Waits \cup {"none"}
    PROVE  /\ TopInv(g)'
           /\ \A f : ApartInv(g, f) /\ ApartInv(f, g) /\ PairInv(g, f)
<1>1. TopInv(g)'
  BY DEF Waits, TopInv, MakesWs
<1>2. \A f : ApartInv(g, f) /\ ApartInv(f, g)
  BY DEF Waits, ApartInv, Lists, MakesWs
<1>3. \A f : PairInv(g, f)
  BY DEF Waits, PairInv, Lists, Activates
<1> QED
  BY <1>1, <1>2, <1>3

LEMMA NoFrameFacts ==
    /\ NoFrame.at = "none" /\ RowInv(NoFrame)'
    /\ \A f : PairInv(f, NoFrame)
<1>1. NoFrame.at = "none"
  BY DEF NoFrame
<1>2. RowInv(NoFrame)'
  BY <1>1 DEF RowInv, MadeFrame, Deletes, Lists, Moves, WithWs, NewWindows
<1>3. \A f : PairInv(f, NoFrame)
  BY <1>1 DEF PairInv, Deletes, Moves
<1> QED
  BY <1>1, <1>2, <1>3

\* What CallsInv needs of a step of p that returns.
LEMMA CallsReturn ==
    ASSUME TypeInv, CallsInv, NEW p \in Call, NEW g \in Under(p) \cup {NoFrame}, Leads(p, g, {}),
           \A q \in Call \ {p} : \A f \in {Top(q)} : TopInv(f)',
           \A q \in Call : \A f \in FramesOf(q) : RowInv(f)'
    PROVE  CallsInv'
<1>1. g.at \in Waits \cup {"none"}
  BY UnderFacts, NoFrameFacts
<1>2. TopInv(g)' /\ \A f : ApartInv(g, f) /\ ApartInv(f, g) /\ PairInv(g, f)
  BY <1>1, WaitsFacts
<1>3. RowInv(g)' /\ \A q \in Call : PairInv(Top(q), g)
  <2>1. CASE g = NoFrame
    BY <2>1, NoFrameFacts
  <2>2. CASE g \in Under(p)
    BY <2>2 DEF CallsInv, FramesOf
  <2> QED
    BY <2>1, <2>2
<1> QED
  BY <1>2, <1>3, CallsStep

-----------------------------------------------------------------------------
(* Quiet steps: the rows of workspaces, tabs and blocks stay, and so does  *)
(* what the calls rely on                                                  *)

LEMMA RowKept ==
    ASSUME NEW f, RowInv(f), made \subseteq made', UNCHANGED <<workspaces, tabs>>
    PROVE  RowInv(f)'
BY DEF RowInv, MadeFrame

LEMMA TopKept ==
    ASSUME NEW f, TopInv(f), UNCHANGED <<workspaces, tabs>>
    PROVE  TopInv(f)'
BY DEF TopInv, MakesWs, Unlisted, Existing

LEMMA OrphansListed ==
    ASSUME OrphansInv, NEW p \in Call, NEW g, NEW H, Leads(p, g, H),
           UNCHANGED <<tabs, layouts, blocks>>, \A t : Unlisted(t)' => Unlisted(t),
           Top(p).at \notin {"createTabObj:list", "DeleteTab:delete", "DeleteTab:layout"}
    PROVE  OrphansInv'
<1>1. \A q \in Call \ {p} : Top(q)' = Top(q)
  BY DEF Leads, Top
<1>2. ASSUME NEW t, NEW q \in Call,
             Top(q).at \in {"createTabObj:list", "DeleteTab:delete", "DeleteTab:layout"}
      PROVE  Top(q)' = Top(q)
  BY <1>1, <1>2
<1>4. \A t \in Existing(tabs)' :
          ~Unlisted(t)' \/ \E q \in Call : /\ Top(q)'.at \in {"createTabObj:list", "DeleteTab:delete"}
                                           /\ Top(q)'.tab = t
  <2>1. SUFFICES ASSUME NEW t \in Existing(tabs), Unlisted(t)
                 PROVE  \E q \in Call : /\ Top(q)'.at \in {"createTabObj:list", "DeleteTab:delete"}
                                        /\ Top(q)'.tab = t
    BY DEF Existing
  <2>2. PICK q \in Call : Top(q).at \in {"createTabObj:list", "DeleteTab:delete"} /\ Top(q).tab = t
    BY <2>1 DEF OrphansInv
  <2> QED
    BY <2>2, <1>2
<1>5. \A t \in layouts' : tabs'[t] # NoOid \/ \E q \in Call : /\ Top(q)'.at = "DeleteTab:layout"
                                                              /\ Top(q)'.tab = t
  <2>1. SUFFICES ASSUME NEW t \in layouts, tabs[t] = NoOid
                 PROVE  \E q \in Call : Top(q)'.at = "DeleteTab:layout" /\ Top(q)'.tab = t
    OBVIOUS
  <2>2. PICK q \in Call : Top(q).at = "DeleteTab:layout" /\ Top(q).tab = t
    BY <2>1 DEF OrphansInv
  <2> QED
    BY <2>2, <1>2
<1>6. \A b \in Existing(blocks)' : /\ Exists(blocks[b].parent)'
                                   /\ b \in ToSet(ChildrenOf(blocks[b].parent))'
  BY DEF OrphansInv, Existing, Exists, ChildrenOf
<1>7. Existing(tabs)' \subseteq layouts'
  BY DEF OrphansInv, Existing
<1> QED
  BY <1>4, <1>5, <1>6, <1>7 DEF OrphansInv

LEMMA OrphansKept ==
    ASSUME OrphansInv, NEW p \in Call, NEW g, NEW H, Leads(p, g, H),
           UNCHANGED <<workspaces, tabs, layouts, blocks>>,
           Top(p).at \notin {"createTabObj:list", "DeleteTab:delete", "DeleteTab:layout"}
    PROVE  OrphansInv'
<1>1. \A t : Unlisted(t)' => Unlisted(t)
  BY DEF Unlisted, Existing
<1> QED
  BY <1>1, OrphansListed

LEMMA GraphKept ==
    ASSUME UNCHANGED <<workspaces, tabs, blocks>>
    PROVE  /\ NoDangling(graph) => NoDangling(graph)'
           /\ ListedOnce(graph) => ListedOnce(graph)'
<1>1. /\ graph.workspaces = workspaces /\ graph.tabs = tabs /\ graph.blocks = blocks
      /\ graph'.workspaces = workspaces /\ graph'.tabs = tabs /\ graph'.blocks = blocks
  BY DEF graph
<1>2. NoDangling(graph) => NoDangling(graph)'
  BY <1>1 DEF NoDangling, Existing, ListedBy
<1>3. ListedOnce(graph) => ListedOnce(graph)'
  BY <1>1 DEF ListedOnce, Existing, ListedBy
<1> QED
  BY <1>2, <1>3

WindowsMade == \A w \in Existing(windows) : w \in made /\ windows[w] \in made
OkWs(g) == /\ ~stale /\ g.at \in WithWs => g.ws \in made
           /\ ~stale /\ g.at \in NewWindows => g.window \in made
QuietFrame(g) == g \in Frame /\ Quiet(g) /\ OkWs(g)

\* What the calls say when p goes on with a quiet function.
LEMMA QuietCalls ==
    ASSUME TypeInv, CallsInv, ~stale, NEW p \in Call, NEW g, NEW H, Leads(p, g, H),
           g \in Under(p) \cup {NoFrame} \/ QuietFrame(g),
           \A h \in H : QuietFrame(h), made \subseteq made',
           \A q \in Call \ {p} : \A f \in {Top(q)} : TopInv(f)',
           \A q \in Call : \A f \in FramesOf(q) : RowInv(f)'
    PROVE  CallsInv'
<1>1. ASSUME NEW h, QuietFrame(h)
      PROVE  /\ TopInv(h)' /\ RowInv(h)'
             /\ \A f : ApartInv(h, f) /\ ApartInv(f, h) /\ PairInv(h, f) /\ PairInv(f, h)
  <2>1. MadeFrame(h)'
    BY <1>1 DEF QuietFrame, OkWs, Quiet, MadeFrame
  <2> QED
    BY <1>1, <2>1, QuietFacts DEF QuietFrame
<1>2. ASSUME NEW h, h \in Under(p) \cup {NoFrame}
      PROVE  /\ TopInv(h)' /\ RowInv(h)'
             /\ \A f : ApartInv(h, f) /\ ApartInv(f, h) /\ PairInv(h, f)
             /\ \A q \in Call : PairInv(Top(q), h)
  <2>1. h.at \in Waits \cup {"none"}
    BY <1>2, UnderFacts, NoFrameFacts
  <2>2. CASE h = NoFrame
    BY <2>1, <2>2, WaitsFacts, NoFrameFacts
  <2>3. CASE h \in Under(p)
    BY <2>1, <2>3, WaitsFacts DEF CallsInv, FramesOf
  <2> QED
    BY <1>2, <2>2, <2>3
<1> QED
  BY <1>1, <1>2, CallsStep

\* The rows of tabs and blocks stay, and so does everything that a call says.
LEMMA QuietStep ==
    ASSUME IInv, NEW p \in Call, NEW g, NEW H, Leads(p, g, H),
           g \in Under(p) \cup {NoFrame} \/ QuietFrame(g),
           \A h \in H : QuietFrame(h),
           Top(p).at \notin {"createTabObj:list", "DeleteTab:delete", "DeleteTab:layout"},
           UNCHANGED <<workspaces, tabs, layouts, blocks, made>>,
           ~stale => WindowsMade', ~stale' => ~stale
    PROVE  ~stale' => (RowsInv /\ CallsInv)'
<1>1. SUFFICES ASSUME ~stale' PROVE RowsInv' /\ CallsInv'
  OBVIOUS
<1>2. ~stale /\ RowsInv /\ CallsInv /\ TypeInv
  BY <1>1 DEF IInv
<1>3. \A q \in Call : \A f \in {Top(q)} : TopInv(f)'
  BY <1>2, TopKept DEF CallsInv
<1>4. \A q \in Call : \A f \in FramesOf(q) : RowInv(f)'
  BY <1>2, RowKept DEF CallsInv
<1>5. CallsInv'
  BY <1>2, <1>3, <1>4, QuietCalls
<1>6. OrphansInv'
  BY <1>2, OrphansKept DEF RowsInv
<1>7. MadeInv'
  BY <1>2 DEF RowsInv, MadeInv, WindowsMade, Existing
<1> QED
  BY <1>2, <1>5, <1>6, <1>7, GraphKept DEF RowsInv

\* The ways in which p goes on quietly.
QuietTurn(p) ==
    \/ \E g : QuietFrame(g) /\ Goto(p, g)
    \/ \E g, h : QuietFrame(g) /\ QuietFrame(h) /\ h.at \in Waits /\ CallThen(p, g, h)
    \/ stack' = [stack EXCEPT ![p] = Tail(@)]
    \/ stack' = [stack EXCEPT ![p] = <<>>]

LEMMA QuietLeads ==
    ASSUME TypeInv, NEW p \in Call, stack[p] # <<>>, QuietTurn(p)
    PROVE  \E g, H : /\ Leads(p, g, H) /\ \A h \in H : QuietFrame(h)
                     /\ g \in Under(p) \cup {NoFrame} \/ QuietFrame(g)
<1>1. CASE \E g : QuietFrame(g) /\ Goto(p, g)
  <2>1. PICK g : QuietFrame(g) /\ Goto(p, g)
    BY <1>1
  <2>2. Leads(p, g, {})
    BY <2>1, GotoLeads DEF QuietFrame
  <2> QED
    BY <2>1, <2>2
<1>2. CASE \E g, h : QuietFrame(g) /\ QuietFrame(h) /\ h.at \in Waits /\ CallThen(p, g, h)
  <2>1. PICK g, h : QuietFrame(g) /\ QuietFrame(h) /\ h.at \in Waits /\ CallThen(p, g, h)
    BY <1>2
  <2>2. Leads(p, g, {h})
    BY <2>1, CallThenLeads DEF QuietFrame
  <2>3. \A x \in {h} : QuietFrame(x)
    BY <2>1
  <2> QED
    BY <2>1, <2>2, <2>3
<1>3. CASE stack' = [stack EXCEPT ![p] = Tail(@)]
  <2>1. PICK g \in Under(p) \cup {NoFrame} : Leads(p, g, {})
    BY <1>3, ReturnLeads
  <2> QED
    BY <2>1
<1>4. CASE stack' = [stack EXCEPT ![p] = <<>>]
  <2>1. Leads(p, NoFrame, {})
    BY <1>4, PanicLeads
  <2> QED
    BY <2>1
<1> QED
  BY <1>1, <1>2, <1>3, <1>4 DEF QuietTurn

LEMMA QuietTurnStep ==
    ASSUME IInv, NEW p \in Call, stack[p] # <<>>, QuietTurn(p),
           Top(p).at \notin {"createTabObj:list", "DeleteTab:delete", "DeleteTab:layout"},
           UNCHANGED <<workspaces, tabs, layouts, blocks, made>>,
           ~stale => WindowsMade', ~stale' => ~stale
    PROVE  /\ ~stale' => (RowsInv /\ CallsInv)'
           /\ DOMAIN stack' = Call /\ \A q \in Call : StackOf(stack[q])'
<1>1. TypeInv
  BY DEF IInv
<1>2. PICK g, H : /\ Leads(p, g, H) /\ \A h \in H : QuietFrame(h)
                  /\ g \in Under(p) \cup {NoFrame} \/ QuietFrame(g)
  BY <1>1, QuietLeads
<1> QED
  BY <1>2, QuietStep DEF Leads

LEMMA RowTypes ==
    ASSUME TypeInv
    PROVE  /\ \A w \in Workspace : workspaces[w] = NoOid \/ workspaces[w] \in WorkspaceRow
           /\ \A t \in Tab : tabs[t] = NoOid \/ tabs[t] \in Seq(Block)
           /\ \A b \in Block : blocks[b] = NoOid \/ blocks[b] \in BlockRow
           /\ windows \in [Window -> Workspace \cup {NoOid}] /\ client \in Seq(Window)
           /\ layouts \subseteq Tab
           /\ DOMAIN workspaces = Workspace /\ DOMAIN tabs = Tab /\ DOMAIN blocks = Block
           /\ Existing(workspaces) \subseteq Workspace
BY DEF TypeInv, TypeOK, Typed, graph, Existing

LEMMA AtFacts ==
    ASSUME IInv, NEW p \in Call, NEW a, At(p, a)
    PROVE  /\ TypeInv /\ stack[p] # <<>> /\ Top(p) = Head(stack[p])
           /\ Top(p) \in FrameOf(a) /\ Top(p) \in Frame /\ Top(p).at = a /\ OkWs(Top(p))
           /\ ~stale => RowsInv /\ CallsInv /\ TopInv(Top(p)) /\ RowInv(Top(p))
<1>1. TypeInv /\ stack[p] # <<>> /\ Top(p) = Head(stack[p]) /\ Top(p) \in Frame /\ Top(p).at = a
  BY TopIsHead DEF IInv, At
<1>2. Top(p) \in FrameOf(a)
  BY <1>1, FrameIs
<1>3. ASSUME ~stale PROVE RowsInv /\ CallsInv /\ TopInv(Top(p)) /\ RowInv(Top(p))
  <2>1. RowsInv /\ CallsInv
    BY <1>3 DEF IInv
  <2>2. TopInv(Top(p)) /\ RowInv(Top(p))
    BY <2>1 DEF CallsInv, FramesOf
  <2> QED
    BY <2>1, <2>2
<1>4. OkWs(Top(p))
  BY <1>3 DEF OkWs, RowInv, MadeFrame
<1> QED
  BY <1>1, <1>2, <1>3, <1>4

LEMMA QuietAt ==
    ASSUME NEW a, NEW g \in FrameOf(a), g.at = a,
           a \notin Lists \cup Deletes \cup Moves \cup Activates
                      \cup {"writeBack", "MoveBlockToTab", "CreateWorkspace"},
           a = "CreateWindow" => ~g.new, OkWs(g)
    PROVE  QuietFrame(g)
<1>1. g \in Frame
  BY InFrame
<1> QED
  BY <1>1 DEF QuietFrame, Quiet, MakesWs, Moves

Ends(p) == UNCHANGED result \/ \E r \in {"ok", "error", "panic"} : result' = [result EXCEPT ![p] = r]

LEMMA EndsTypes ==
    ASSUME TypeInv, NEW p \in Call, Ends(p)
    PROVE  result' \in [Call -> {"ok", "error", "panic"}]
BY DEF TypeInv, TypeOK, Ends

LEMMA ReturnTurns ==
    ASSUME NEW p, NEW r \in {"ok", "error", "panic"}, Return(p, r)
    PROVE  QuietTurn(p) /\ Ends(p)
BY DEF Return, QuietTurn, Ends

LEMMA PanicTurns ==
    ASSUME NEW p, Panic(p)
    PROVE  QuietTurn(p) /\ Ends(p)
BY DEF Panic, QuietTurn, Ends

LEMMA QuietRows ==
    ASSUME IInv, NEW p \in Call, stack[p] # <<>>, QuietTurn(p), Ends(p),
           Top(p).at \notin {"createTabObj:list", "DeleteTab:delete", "DeleteTab:layout"},
           UNCHANGED <<rows, told, calls, overlap, stale>>
    PROVE  IInv'
<1>1. UNCHANGED <<workspaces, tabs, layouts, blocks, made, windows, client, told, calls, overlap, stale>>
  BY DEF rows
<1>2. ~stale => WindowsMade'
  BY <1>1 DEF IInv, RowsInv, MadeInv, WindowsMade, Existing
<1>3. /\ ~stale' => (RowsInv /\ CallsInv)'
      /\ DOMAIN stack' = Call /\ \A q \in Call : StackOf(stack[q])'
  BY <1>1, <1>2, QuietTurnStep
<1>4. graph' = graph
  BY <1>1 DEF graph
<1>5. TypeInv'
  BY <1>1, <1>3, <1>4, EndsTypes DEF IInv, TypeInv, TypeOK
<1> QED
  BY <1>3, <1>5 DEF IInv

-----------------------------------------------------------------------------
(* The actions that only read                                              *)

LEMMA DeleteBlockKeeps == ASSUME IInv, NEW p \in Call, DeleteBlock(p) PROVE IInv'
<1> DEFINE f == Top(p)
<1>0. At(p, "DeleteBlock")
  BY DEF DeleteBlock
<1>1. /\ TypeInv /\ stack[p] # <<>> /\ f = Head(stack[p]) /\ f \in FrameOf("DeleteBlock")
      /\ f.at = "DeleteBlock" /\ OkWs(f)
  BY <1>0, AtFacts
<1>2. f.block \in Block /\ f.recursive \in BOOLEAN
  BY <1>1 DEF FrameOf
<1> HIDE DEF f
<1>3. CASE blocks[f.block] = NoOid
  <2>1. QuietTurn(p) /\ Ends(p)
    BY <1>1, <1>3, ReturnTurns DEF DeleteBlock, f
  <2> QED
    BY <1>1, <2>1, QuietRows DEF DeleteBlock, f
<1>4. CASE blocks[f.block] # NoOid
  <2>0. blocks[f.block] \in BlockRow
    BY <1>1, <1>2, <1>4, RowTypes
  <2> DEFINE g == [at |-> "deleteBlockObj", block |-> f.block, recursive |-> f.recursive,
                   parent |-> blocks[f.block].parent, todo |-> blocks[f.block].subs]
  <2>1. g \in FrameOf("deleteBlockObj") /\ g.at = "deleteBlockObj"
    BY <1>2, <2>0 DEF FrameOf, BlockRow
  <2>3. OkWs(g)
    BY <1>1 DEF OkWs, WithWs, NewWindows
  <2> HIDE DEF g
  <2>4. QuietFrame(g)
    BY <2>1, <2>3, QuietAt DEF Lists, Deletes, Moves, Activates
  <2>5. Goto(p, g) /\ result' = [result EXCEPT ![p] = "ok"]
    BY <1>1, <1>4 DEF DeleteBlock, f, g
  <2>6. QuietTurn(p) /\ Ends(p)
    BY <2>4, <2>5 DEF QuietTurn, Ends
  <2> QED
    BY <1>1, <2>6, QuietRows DEF DeleteBlock, f
<1> QED
  BY <1>3, <1>4

LEMMA DeleteSubBlockKeeps == ASSUME IInv, NEW p \in Call, DeleteSubBlock(p) PROVE IInv'
<1> DEFINE f == Top(p)
<1>0. At(p, "deleteBlockObj")
  BY DEF DeleteSubBlock
<1>1. /\ TypeInv /\ stack[p] # <<>> /\ f = Head(stack[p]) /\ f \in FrameOf("deleteBlockObj")
      /\ f.at = "deleteBlockObj" /\ OkWs(f)
  BY <1>0, AtFacts
<1>2. f.todo \in Seq(Block) /\ f.recursive \in BOOLEAN
  BY <1>1 DEF FrameOf
<1> HIDE DEF f
<1>3. QuietTurn(p) /\ Ends(p)
  <2>0. Head(f.todo) \in Block /\ Tail(f.todo) \in Seq(Block)
    BY <1>1, <1>2, TailFacts DEF DeleteSubBlock, f
  <2> DEFINE g == [at |-> "DeleteBlock", block |-> Head(f.todo), recursive |-> f.recursive]
         h == [f EXCEPT !.todo = Tail(@)]
  <2>1. g \in FrameOf("DeleteBlock") /\ g.at = "DeleteBlock"
    BY <1>2, <1>1, <2>0 DEF FrameOf
  <2>2. h \in FrameOf("deleteBlockObj") /\ h.at = "deleteBlockObj"
    BY <1>2, <1>1, <2>0 DEF FrameOf
  <2>3. OkWs(g) /\ OkWs(h)
    BY <1>1 DEF OkWs, WithWs, NewWindows
  <2> HIDE DEF g, h
  <2>4. QuietFrame(g) /\ QuietFrame(h) /\ h.at \in Waits
    BY <2>1, <2>2, <2>3, QuietAt DEF Lists, Deletes, Moves, Activates, Waits
  <2>5. CallThen(p, g, h) /\ UNCHANGED result
    BY <1>1 DEF DeleteSubBlock, f, g, h
  <2> QED
    BY <2>4, <2>5 DEF QuietTurn, Ends
<1> QED
  BY <1>1, <1>3, QuietRows DEF DeleteSubBlock, f

LEMMA DeleteEmptyTabKeeps == ASSUME IInv, NEW p \in Call, DeleteEmptyTab(p) PROVE IInv'
<1> DEFINE f == Top(p)
<1>0. At(p, "DeleteBlock:tab")
  BY DEF DeleteEmptyTab
<1>1. /\ TypeInv /\ stack[p] # <<>> /\ f = Head(stack[p]) /\ f \in FrameOf("DeleteBlock:tab")
      /\ f.at = "DeleteBlock:tab" /\ OkWs(f)
  BY <1>0, AtFacts
<1>2. f.tab \in Tab
  BY <1>1 DEF FrameOf
<1> HIDE DEF f
<1>3. QuietTurn(p) /\ Ends(p)
  <2>0. PICK w \in Workspace \cup {NoOid} :
            Goto(p, [at |-> "DeleteTab", ws |-> w, tab |-> f.tab, recursive |-> TRUE])
    BY <1>1, RowTypes DEF DeleteEmptyTab, f
  <2> DEFINE g == [at |-> "DeleteTab", ws |-> w, tab |-> f.tab, recursive |-> TRUE]
  <2>1. g \in FrameOf("DeleteTab") /\ g.at = "DeleteTab"
    BY <1>2, <2>0 DEF FrameOf
  <2>3. OkWs(g)
    BY <1>1 DEF OkWs, WithWs, NewWindows
  <2> HIDE DEF g
  <2>4. QuietFrame(g)
    BY <2>1, <2>3, QuietAt DEF Lists, Deletes, Moves, Activates
  <2>5. Goto(p, g) /\ UNCHANGED result
    BY <1>1, <2>0 DEF DeleteEmptyTab, f, g
  <2> QED
    BY <2>4, <2>5 DEF QuietTurn, Ends
<1> QED
  BY <1>1, <1>3, QuietRows DEF DeleteEmptyTab, f

LEMMA CloseEmptyWindowKeeps == ASSUME IInv, NEW p \in Call, CloseEmptyWindow(p) PROVE IInv'
<1> DEFINE f == Top(p)
<1>0. At(p, "DeleteTab:window")
  BY DEF CloseEmptyWindow
<1>1. /\ TypeInv /\ stack[p] # <<>> /\ f = Head(stack[p]) /\ f \in FrameOf("DeleteTab:window")
      /\ f.at = "DeleteTab:window" /\ OkWs(f)
  BY <1>0, AtFacts
<1>2. f.ws \in Workspace
  BY <1>1 DEF FrameOf
<1> HIDE DEF f
<1>3. QuietTurn(p) /\ Ends(p)
  <2>0. PICK w \in Window \cup {NoOid} : Goto(p, [at |-> "CloseWindow", window |-> w])
    BY <1>1, RowTypes DEF CloseEmptyWindow, WindowsOf, Existing, f
  <2> DEFINE g == [at |-> "CloseWindow", window |-> w]
  <2>1. g \in FrameOf("CloseWindow") /\ g.at = "CloseWindow"
    BY <1>2, <2>0 DEF FrameOf
  <2>3. OkWs(g)
    BY <1>1 DEF OkWs, WithWs, NewWindows
  <2> HIDE DEF g
  <2>4. QuietFrame(g)
    BY <2>1, <2>3, QuietAt DEF Lists, Deletes, Moves, Activates
  <2>5. Goto(p, g) /\ UNCHANGED result
    BY <1>1, <2>0 DEF CloseEmptyWindow, f, g
  <2> QED
    BY <2>4, <2>5 DEF QuietTurn, Ends
<1> QED
  BY <1>1, <1>3, QuietRows DEF CloseEmptyWindow, f

LEMMA CloseWindowKeeps == ASSUME IInv, NEW p \in Call, CloseWindow(p) PROVE IInv'
<1> DEFINE f == Top(p)
<1>0. At(p, "CloseWindow")
  BY DEF CloseWindow
<1>1. /\ TypeInv /\ stack[p] # <<>> /\ f = Head(stack[p]) /\ f \in FrameOf("CloseWindow")
      /\ f.at = "CloseWindow" /\ OkWs(f)
  BY <1>0, AtFacts
<1>2. f.window \in Window \cup {NoOid}
  BY <1>1 DEF FrameOf
<1> HIDE DEF f
<1>3. CASE ~(f.window # NoOid /\ windows[f.window] # NoOid)
  <2> DEFINE g == [at |-> "CloseWindow:client", window |-> f.window]
  <2>1. g \in FrameOf("CloseWindow:client") /\ g.at = "CloseWindow:client"
    BY <1>2 DEF FrameOf
  <2>3. OkWs(g)
    BY <1>1 DEF OkWs, WithWs, NewWindows
  <2> HIDE DEF g
  <2>4. QuietFrame(g)
    BY <2>1, <2>3, QuietAt DEF Lists, Deletes, Moves, Activates
  <2>5. Goto(p, g) /\ UNCHANGED result
    BY <1>1, <1>3 DEF CloseWindow, f, g
  <2>6. QuietTurn(p) /\ Ends(p)
    BY <2>4, <2>5 DEF QuietTurn, Ends
  <2> QED
    BY <1>1, <2>6, QuietRows DEF CloseWindow, f
<1>4. CASE f.window # NoOid /\ windows[f.window] # NoOid
  <2>0. /\ windows[f.window] \in Workspace /\ f.window \in Window
        /\ ~stale => windows[f.window] \in made
    BY <1>1, <1>2, <1>4, RowTypes DEF IInv, RowsInv, MadeInv, Existing
  <2> DEFINE g == [at |-> "DeleteWorkspace", ws |-> windows[f.window], force |-> FALSE]
         h == [at |-> "CloseWindow:delete", window |-> f.window]
  <2>1. g \in FrameOf("DeleteWorkspace") /\ g.at = "DeleteWorkspace"
    BY <1>2, <2>0 DEF FrameOf
  <2>2. h \in FrameOf("CloseWindow:delete") /\ h.at = "CloseWindow:delete"
    BY <1>2, <2>0 DEF FrameOf
  <2>3. OkWs(g) /\ OkWs(h)
    BY <1>1, <2>0 DEF OkWs, WithWs, NewWindows
  <2> HIDE DEF g, h
  <2>4. QuietFrame(g) /\ QuietFrame(h) /\ h.at \in Waits
    BY <2>1, <2>2, <2>3, QuietAt DEF Lists, Deletes, Moves, Activates, Waits
  <2>5. CallThen(p, g, h) /\ UNCHANGED result
    BY <1>1, <1>4 DEF CloseWindow, f, g, h
  <2>6. QuietTurn(p) /\ Ends(p)
    BY <2>4, <2>5 DEF QuietTurn, Ends
  <2> QED
    BY <1>1, <2>6, QuietRows DEF CloseWindow, f
<1> QED
  BY <1>3, <1>4

LEMMA ReadClientKeeps == ASSUME IInv, NEW p \in Call, ReadClient(p) PROVE IInv'
<1> DEFINE f == Top(p)
<1>0. At(p, "CloseWindow:client")
  BY DEF ReadClient
<1>1. /\ TypeInv /\ stack[p] # <<>> /\ f = Head(stack[p]) /\ f \in FrameOf("CloseWindow:client")
      /\ f.at = "CloseWindow:client" /\ OkWs(f)
  BY <1>0, AtFacts
<1>2. f.window \in Window \cup {NoOid}
  BY <1>1 DEF FrameOf
<1> HIDE DEF f
<1>3. QuietTurn(p) /\ Ends(p)
  <2> DEFINE g == [at |-> "CloseWindow:update", window |-> f.window, read |-> client]
  <2>1. g \in FrameOf("CloseWindow:update") /\ g.at = "CloseWindow:update"
    BY <1>2, <1>1, RowTypes DEF FrameOf
  <2>3. OkWs(g)
    BY <1>1 DEF OkWs, WithWs, NewWindows
  <2> HIDE DEF g
  <2>4. QuietFrame(g)
    BY <2>1, <2>3, QuietAt DEF Lists, Deletes, Moves, Activates
  <2>5. Goto(p, g) /\ UNCHANGED result
    BY <1>1 DEF ReadClient, f, g
  <2> QED
    BY <2>4, <2>5 DEF QuietTurn, Ends
<1> QED
  BY <1>1, <1>3, QuietRows DEF ReadClient, f

LEMMA DeleteWorkspaceKeeps == ASSUME IInv, NEW p \in Call, DeleteWorkspace(p) PROVE IInv'
<1> DEFINE f == Top(p)
<1>0. At(p, "DeleteWorkspace")
  BY DEF DeleteWorkspace
<1>1. /\ TypeInv /\ stack[p] # <<>> /\ f = Head(stack[p]) /\ f \in FrameOf("DeleteWorkspace")
      /\ f.at = "DeleteWorkspace" /\ OkWs(f)
  BY <1>0, AtFacts
<1>2. f.ws \in Workspace /\ f.force \in BOOLEAN
  BY <1>1 DEF FrameOf
<1> HIDE DEF f
<1>3. CASE workspaces[f.ws] = NoOid
  <2>1. QuietTurn(p) /\ Ends(p)
    BY <1>1, <1>3, ReturnTurns DEF DeleteWorkspace, f
  <2> QED
    BY <1>1, <2>1, QuietRows DEF DeleteWorkspace, f
<1>4. CASE workspaces[f.ws] # NoOid
  <2> DEFINE g == [at |-> "ListWorkspaces", ws |-> f.ws, force |-> f.force,
                   read |-> workspaces[f.ws]]
  <2>1. g \in FrameOf("ListWorkspaces") /\ g.at = "ListWorkspaces"
    BY <1>2, <1>1, <1>4, RowTypes DEF FrameOf
  <2>3. OkWs(g)
    BY <1>1 DEF OkWs, WithWs, NewWindows
  <2> HIDE DEF g
  <2>4. QuietFrame(g)
    BY <2>1, <2>3, QuietAt DEF Lists, Deletes, Moves, Activates
  <2>5. Goto(p, g) /\ UNCHANGED result
    BY <1>1, <1>4 DEF DeleteWorkspace, f, g
  <2>6. QuietTurn(p) /\ Ends(p)
    BY <2>4, <2>5 DEF QuietTurn, Ends
  <2> QED
    BY <1>1, <2>6, QuietRows DEF DeleteWorkspace, f
<1> QED
  BY <1>3, <1>4

LEMMA ListWorkspacesKeeps == ASSUME IInv, NEW p \in Call, ListWorkspaces(p) PROVE IInv'
<1> DEFINE f == Top(p)
<1>0. At(p, "ListWorkspaces")
  BY DEF ListWorkspaces
<1>1. /\ TypeInv /\ stack[p] # <<>> /\ f = Head(stack[p]) /\ f \in FrameOf("ListWorkspaces")
      /\ f.at = "ListWorkspaces" /\ OkWs(f)
  BY <1>0, AtFacts
<1>2. f.ws \in Workspace /\ f.force \in BOOLEAN /\ f.read \in WorkspaceRow
  BY <1>1 DEF FrameOf
<1> HIDE DEF f
<1>3. QuietTurn(p) /\ Ends(p)
  <2>0. {w \in Existing(workspaces) : workspaces[w].named} \ {f.ws} \in SUBSET Workspace
    BY <1>1, RowTypes
  <2> DEFINE g == [at |-> "ListWindows", ws |-> f.ws, force |-> f.force, read |-> f.read,
                   free |-> {w \in Existing(workspaces) : workspaces[w].named} \ {f.ws}]
  <2>1. g \in FrameOf("ListWindows") /\ g.at = "ListWindows"
    BY <1>2, <2>0 DEF FrameOf
  <2>3. OkWs(g)
    BY <1>1 DEF OkWs, WithWs, NewWindows
  <2> HIDE DEF g
  <2>4. QuietFrame(g)
    BY <2>1, <2>3, QuietAt DEF Lists, Deletes, Moves, Activates
  <2>5. Goto(p, g) /\ UNCHANGED result
    BY <1>1 DEF ListWorkspaces, f, g
  <2> QED
    BY <2>4, <2>5 DEF QuietTurn, Ends
<1> QED
  BY <1>1, <1>3, QuietRows DEF ListWorkspaces, f

LEMMA KeepOrEmptyKeeps == ASSUME IInv, NEW p \in Call, KeepOrEmpty(p) PROVE IInv'
<1> DEFINE f == Top(p)
<1>0. At(p, "ListWindows")
  BY DEF KeepOrEmpty
<1>1. /\ TypeInv /\ stack[p] # <<>> /\ f = Head(stack[p]) /\ f \in FrameOf("ListWindows")
      /\ f.at = "ListWindows" /\ OkWs(f)
  BY <1>0, AtFacts
<1>2. f.ws \in Workspace /\ f.free \in SUBSET Workspace /\ f.read \in WorkspaceRow
  BY <1>1 DEF FrameOf
<1> HIDE DEF f
<1>3. CASE f.read.named /\ ~f.force /\ Listed(f.read) # {}
  <2>1. QuietTurn(p) /\ Ends(p)
    BY <1>1, <1>3, ReturnTurns DEF KeepOrEmpty, f
  <2> QED
    BY <1>1, <2>1, QuietRows DEF KeepOrEmpty, f
<1>4. CASE ~(f.read.named /\ ~f.force /\ Listed(f.read) # {})
  <2>0. f.read.tabs \o f.read.pinned \in Seq(Tab)
    BY <1>2, ConcatFacts DEF WorkspaceRow
  <2> DEFINE g == [at |-> "DeleteWorkspace:tabs", ws |-> f.ws,
                   free |-> f.free \ {windows[w] : w \in Existing(windows)},
                   todo |-> f.read.tabs \o f.read.pinned]
  <2>1. g \in FrameOf("DeleteWorkspace:tabs") /\ g.at = "DeleteWorkspace:tabs"
    BY <1>2, <2>0 DEF FrameOf
  <2>3. OkWs(g)
    BY <1>1 DEF OkWs, WithWs, NewWindows
  <2> HIDE DEF g
  <2>4. QuietFrame(g)
    BY <2>1, <2>3, QuietAt DEF Lists, Deletes, Moves, Activates
  <2>5. Goto(p, g) /\ result' = [result EXCEPT ![p] = "ok"]
    BY <1>1, <1>4 DEF KeepOrEmpty, f, g
  <2>6. QuietTurn(p) /\ Ends(p)
    BY <2>4, <2>5 DEF QuietTurn, Ends
  <2> QED
    BY <1>1, <2>6, QuietRows DEF KeepOrEmpty, f
<1> QED
  BY <1>3, <1>4

LEMMA DeleteWorkspaceTabKeeps == ASSUME IInv, NEW p \in Call, DeleteWorkspaceTab(p) PROVE IInv'
<1> DEFINE f == Top(p)
<1>0. At(p, "DeleteWorkspace:tabs")
  BY DEF DeleteWorkspaceTab
<1>1. /\ TypeInv /\ stack[p] # <<>> /\ f = Head(stack[p]) /\ f \in FrameOf("DeleteWorkspace:tabs")
      /\ f.at = "DeleteWorkspace:tabs" /\ OkWs(f)
  BY <1>0, AtFacts
<1>2. f.ws \in Workspace /\ f.free \in SUBSET Workspace /\ f.todo \in Seq(Tab)
  BY <1>1 DEF FrameOf
<1> HIDE DEF f
<1>3. QuietTurn(p) /\ Ends(p)
  <2>0. Head(f.todo) \in Tab /\ Tail(f.todo) \in Seq(Tab)
    BY <1>1, <1>2, TailFacts DEF DeleteWorkspaceTab, f
  <2> DEFINE g == [at |-> "DeleteTab", ws |-> f.ws, tab |-> Head(f.todo), recursive |-> FALSE]
         h == [f EXCEPT !.todo = Tail(@)]
  <2>1. g \in FrameOf("DeleteTab") /\ g.at = "DeleteTab"
    BY <1>2, <1>1, <2>0 DEF FrameOf
  <2>2. h \in FrameOf("DeleteWorkspace:tabs") /\ h.at = "DeleteWorkspace:tabs"
    BY <1>2, <1>1, <2>0 DEF FrameOf
  <2>3. OkWs(g) /\ OkWs(h)
    BY <1>1 DEF OkWs, WithWs, NewWindows
  <2> HIDE DEF g, h
  <2>4. QuietFrame(g) /\ QuietFrame(h) /\ h.at \in Waits
    BY <2>1, <2>2, <2>3, QuietAt DEF Lists, Deletes, Moves, Activates, Waits
  <2>5. CallThen(p, g, h) /\ UNCHANGED result
    BY <1>1 DEF DeleteWorkspaceTab, f, g, h
  <2> QED
    BY <2>4, <2>5 DEF QuietTurn, Ends
<1> QED
  BY <1>1, <1>3, QuietRows DEF DeleteWorkspaceTab, f

LEMMA FindWindowKeeps == ASSUME IInv, NEW p \in Call, FindWindow(p) PROVE IInv'
<1> DEFINE f == Top(p)
<1>0. At(p, "DeleteWorkspace:tabs")
  BY DEF FindWindow
<1>1. /\ TypeInv /\ stack[p] # <<>> /\ f = Head(stack[p]) /\ f \in FrameOf("DeleteWorkspace:tabs")
      /\ f.at = "DeleteWorkspace:tabs" /\ OkWs(f)
  BY <1>0, AtFacts
<1>2. f.ws \in Workspace /\ f.free \in SUBSET Workspace
  BY <1>1 DEF FrameOf
<1> HIDE DEF f
<1>3. CASE Failed(p)
  <2>1. QuietTurn(p) /\ Ends(p)
    BY <1>1, <1>3, ReturnTurns DEF FindWindow, f
  <2> QED
    BY <1>1, <2>1, QuietRows DEF FindWindow, f
<1>4. CASE ~Failed(p)
  <2>0. PICK w \in Window \cup {NoOid} :
            Goto(p, [at |-> "DeleteWorkspace:delete", ws |-> f.ws, window |-> w, free |-> f.free])
    BY <1>1, <1>4, RowTypes DEF FindWindow, WindowsOf, Existing, f
  <2> DEFINE g == [at |-> "DeleteWorkspace:delete", ws |-> f.ws, window |-> w, free |-> f.free]
  <2>1. g \in FrameOf("DeleteWorkspace:delete") /\ g.at = "DeleteWorkspace:delete"
    BY <1>2, <2>0 DEF FrameOf
  <2>3. OkWs(g)
    BY <1>1 DEF OkWs, WithWs, NewWindows
  <2> HIDE DEF g
  <2>4. QuietFrame(g)
    BY <2>1, <2>3, QuietAt DEF Lists, Deletes, Moves, Activates
  <2>5. Goto(p, g) /\ UNCHANGED result
    BY <1>1, <1>4, <2>0 DEF FindWindow, f, g
  <2>6. QuietTurn(p) /\ Ends(p)
    BY <2>4, <2>5 DEF QuietTurn, Ends
  <2> QED
    BY <1>1, <2>6, QuietRows DEF FindWindow, f
<1> QED
  BY <1>3, <1>4

LEMMA CreateTabKeeps == ASSUME IInv, NEW p \in Call, CreateTab(p) PROVE IInv'
<1> DEFINE f == Top(p)
<1>0. At(p, "CreateTab")
  BY DEF CreateTab
<1>1. /\ TypeInv /\ stack[p] # <<>> /\ f = Head(stack[p]) /\ f \in FrameOf("CreateTab")
      /\ f.at = "CreateTab" /\ OkWs(f)
  BY <1>0, AtFacts
<1>2. f.ws \in Workspace /\ f.pinned \in BOOLEAN /\ f.activate \in BOOLEAN
  BY <1>1 DEF FrameOf
<1> HIDE DEF f
<1>3. CASE workspaces[f.ws] = NoOid
  <2>1. QuietTurn(p) /\ Ends(p)
    BY <1>1, <1>3, ReturnTurns DEF CreateTab, f
  <2> QED
    BY <1>1, <2>1, QuietRows DEF CreateTab, f
<1>4. CASE workspaces[f.ws] # NoOid
  <2> DEFINE g == [f EXCEPT !.at = "createTabObj"]
  <2>1. g \in FrameOf("createTabObj") /\ g.at = "createTabObj"
    BY <1>2, <1>1 DEF FrameOf
  <2>3. OkWs(g)
    BY <1>1 DEF OkWs, WithWs, NewWindows
  <2> HIDE DEF g
  <2>4. QuietFrame(g)
    BY <2>1, <2>3, QuietAt DEF Lists, Deletes, Moves, Activates
  <2>5. Goto(p, g) /\ UNCHANGED result
    BY <1>1, <1>4 DEF CreateTab, f, g
  <2>6. QuietTurn(p) /\ Ends(p)
    BY <2>4, <2>5 DEF QuietTurn, Ends
  <2> QED
    BY <1>1, <2>6, QuietRows DEF CreateTab, f
<1> QED
  BY <1>3, <1>4

LEMMA GetLayoutIdForTabKeeps == ASSUME IInv, NEW p \in Call, GetLayoutIdForTab(p) PROVE IInv'
<1> DEFINE f == Top(p)
<1>0. At(p, "GetLayoutIdForTab")
  BY DEF GetLayoutIdForTab
<1>1. /\ TypeInv /\ stack[p] # <<>> /\ f = Head(stack[p]) /\ f \in FrameOf("GetLayoutIdForTab")
      /\ f.at = "GetLayoutIdForTab" /\ OkWs(f)
  BY <1>0, AtFacts
<1>2. f.tab \in Tab
  BY <1>1 DEF FrameOf
<1> HIDE DEF f
<1>3. CASE tabs[f.tab] = NoOid
  <2>1. QuietTurn(p) /\ Ends(p)
    BY <1>1, <1>3, PanicTurns DEF GetLayoutIdForTab, f
  <2> QED
    BY <1>1, <2>1, QuietRows DEF GetLayoutIdForTab, f
<1>4. CASE tabs[f.tab] # NoOid
  <2> DEFINE g == [at |-> "QueueLayoutAction", tab |-> f.tab]
  <2>1. g \in FrameOf("QueueLayoutAction") /\ g.at = "QueueLayoutAction"
    BY <1>2 DEF FrameOf
  <2>3. OkWs(g)
    BY <1>1 DEF OkWs, WithWs, NewWindows
  <2> HIDE DEF g
  <2>4. QuietFrame(g)
    BY <2>1, <2>3, QuietAt DEF Lists, Deletes, Moves, Activates
  <2>5. Goto(p, g) /\ UNCHANGED result
    BY <1>1, <1>4 DEF GetLayoutIdForTab, f, g
  <2>6. QuietTurn(p) /\ Ends(p)
    BY <2>4, <2>5 DEF QuietTurn, Ends
  <2> QED
    BY <1>1, <2>6, QuietRows DEF GetLayoutIdForTab, f
<1> QED
  BY <1>3, <1>4

LEMMA QueueLayoutActionKeeps == ASSUME IInv, NEW p \in Call, QueueLayoutAction(p) PROVE IInv'
<1> DEFINE f == Top(p)
<1>0. At(p, "QueueLayoutAction")
  BY DEF QueueLayoutAction
<1>1. /\ TypeInv /\ stack[p] # <<>> /\ f = Head(stack[p]) /\ f \in FrameOf("QueueLayoutAction")
      /\ f.at = "QueueLayoutAction" /\ OkWs(f)
  BY <1>0, AtFacts
<1>2. f.tab \in Tab
  BY <1>1 DEF FrameOf
<1> HIDE DEF f
<1>3. CASE f.tab \notin layouts
  <2>1. QuietTurn(p) /\ Ends(p)
    BY <1>1, <1>3, PanicTurns DEF QueueLayoutAction, f
  <2> QED
    BY <1>1, <2>1, QuietRows DEF QueueLayoutAction, f
<1>4. CASE f.tab \in layouts
  <2>1. QuietTurn(p) /\ Ends(p)
    BY <1>1, <1>4, ReturnTurns DEF QueueLayoutAction, f
  <2> QED
    BY <1>1, <2>1, QuietRows DEF QueueLayoutAction, f
<1> QED
  BY <1>3, <1>4

LEMMA NameWorkspaceKeeps == ASSUME IInv, NEW p \in Call, NameWorkspace(p) PROVE IInv'
<1> DEFINE f == Top(p)
<1>0. At(p, "CreateWorkspace:update")
  BY DEF NameWorkspace
<1>1. /\ TypeInv /\ stack[p] # <<>> /\ f = Head(stack[p]) /\ f \in FrameOf("CreateWorkspace:update")
      /\ f.at = "CreateWorkspace:update" /\ OkWs(f)
  BY <1>0, AtFacts
<1>2. f.ws \in Workspace /\ f.named \in BOOLEAN
  BY <1>1 DEF FrameOf
<1> HIDE DEF f
<1>3. CASE Failed(p) \/ workspaces[f.ws] = NoOid \/ ~f.named
  <2>1. QuietTurn(p) /\ Ends(p)
    BY <1>1, <1>3, ReturnTurns DEF NameWorkspace, f
  <2> QED
    BY <1>1, <2>1, QuietRows DEF NameWorkspace, f
<1>4. CASE ~(Failed(p) \/ workspaces[f.ws] = NoOid \/ ~f.named)
  <2> DEFINE g == [at |-> "UpdateWorkspace", ws |-> f.ws]
  <2>1. g \in FrameOf("UpdateWorkspace") /\ g.at = "UpdateWorkspace"
    BY <1>2 DEF FrameOf
  <2>3. OkWs(g)
    BY <1>1 DEF OkWs, WithWs, NewWindows
  <2> HIDE DEF g
  <2>4. QuietFrame(g)
    BY <2>1, <2>3, QuietAt DEF Lists, Deletes, Moves, Activates
  <2>5. Goto(p, g) /\ UNCHANGED result
    BY <1>1, <1>4 DEF NameWorkspace, f, g
  <2>6. QuietTurn(p) /\ Ends(p)
    BY <2>4, <2>5 DEF QuietTurn, Ends
  <2> QED
    BY <1>1, <2>6, QuietRows DEF NameWorkspace, f
<1> QED
  BY <1>3, <1>4

LEMMA QueueAfterReplaceKeeps == ASSUME IInv, NEW p \in Call, QueueAfterReplace(p) PROVE IInv'
<1> DEFINE f == Top(p)
<1>0. At(p, "CreateBlock:replaced")
  BY DEF QueueAfterReplace
<1>1. /\ TypeInv /\ stack[p] # <<>> /\ f = Head(stack[p]) /\ f \in FrameOf("CreateBlock:replaced")
      /\ f.at = "CreateBlock:replaced" /\ OkWs(f)
  BY <1>0, AtFacts
<1>2. f.tab \in Tab
  BY <1>1 DEF FrameOf
<1> HIDE DEF f
<1>3. CASE Failed(p)
  <2>1. QuietTurn(p) /\ Ends(p)
    BY <1>1, <1>3, ReturnTurns DEF QueueAfterReplace, f
  <2> QED
    BY <1>1, <2>1, QuietRows DEF QueueAfterReplace, f
<1>4. CASE ~Failed(p)
  <2> DEFINE g == [f EXCEPT !.at = "GetLayoutIdForTab"]
  <2>1. g \in FrameOf("GetLayoutIdForTab") /\ g.at = "GetLayoutIdForTab"
    BY <1>2, <1>1 DEF FrameOf
  <2>3. OkWs(g)
    BY <1>1 DEF OkWs, WithWs, NewWindows
  <2> HIDE DEF g
  <2>4. QuietFrame(g)
    BY <2>1, <2>3, QuietAt DEF Lists, Deletes, Moves, Activates
  <2>5. Goto(p, g) /\ UNCHANGED result
    BY <1>1, <1>4 DEF QueueAfterReplace, f, g
  <2>6. QuietTurn(p) /\ Ends(p)
    BY <2>4, <2>5 DEF QuietTurn, Ends
  <2> QED
    BY <1>1, <2>6, QuietRows DEF QueueAfterReplace, f
<1> QED
  BY <1>3, <1>4

LEMMA GetClientDataKeeps == ASSUME IInv, NEW p \in Call, GetClientData(p) PROVE IInv'
<1> DEFINE f == Top(p)
<1>0. PICK at \in {"CreateWindow:client", "FocusWindow"} : At(p, at)
  BY DEF GetClientData
<1>1. /\ TypeInv /\ stack[p] # <<>> /\ f = Head(stack[p]) /\ f \in FrameOf(at)
      /\ f.at = at /\ at \in {"CreateWindow:client", "FocusWindow"} /\ OkWs(f)
  BY <1>0, AtFacts
<1>2. f.window \in Window
  BY <1>1 DEF FrameOf
<1> HIDE DEF f
<1>3. CASE f.at = "FocusWindow" /\ f.window \notin ToSet(client)
  <2>1. QuietTurn(p) /\ Ends(p)
    BY <1>1, <1>3, ReturnTurns DEF GetClientData, f
  <2> QED
    BY <1>1, <2>1, QuietRows DEF GetClientData, f
<1>4. CASE ~(f.at = "FocusWindow" /\ f.window \notin ToSet(client))
  <2>0. /\ client \in Seq(Window) /\ Append(client, f.window) \in Seq(Window)
        /\ <<f.window>> \o RemoveFirst(client, f.window) \in Seq(Window)
    BY <1>1, <1>2, RowTypes, AppendFacts, RemoveFirstFacts, PrependFacts
  <2> DEFINE g == [at |-> "updateClient", read |-> client,
                   new |-> IF f.at = "FocusWindow" THEN <<f.window>> \o RemoveFirst(client, f.window)
                                                  ELSE Append(client, f.window)]
  <2>1. g \in FrameOf("updateClient") /\ g.at = "updateClient"
    BY <1>2, <1>1, <2>0 DEF FrameOf
  <2>3. OkWs(g)
    BY <1>1 DEF OkWs, WithWs, NewWindows
  <2> HIDE DEF g
  <2>4. QuietFrame(g)
    BY <2>1, <2>3, QuietAt DEF Lists, Deletes, Moves, Activates
  <2>5. Goto(p, g) /\ UNCHANGED result
    BY <1>1, <1>4 DEF GetClientData, f, g
  <2>6. QuietTurn(p) /\ Ends(p)
    BY <2>4, <2>5 DEF QuietTurn, Ends
  <2> QED
    BY <1>1, <2>6, QuietRows DEF GetClientData, f
<1> QED
  BY <1>3, <1>4

LEMMA SwitchWorkspaceKeeps == ASSUME IInv, NEW p \in Call, SwitchWorkspace(p) PROVE IInv'
<1> DEFINE f == Top(p)
<1>0. At(p, "SwitchWorkspace")
  BY DEF SwitchWorkspace
<1>1. /\ TypeInv /\ stack[p] # <<>> /\ f = Head(stack[p]) /\ f \in FrameOf("SwitchWorkspace")
      /\ f.at = "SwitchWorkspace" /\ OkWs(f)
  BY <1>0, AtFacts
<1>2. f.ws \in Workspace /\ f.window \in Window
  BY <1>1 DEF FrameOf
<1> HIDE DEF f
<1>3. CASE workspaces[f.ws] = NoOid
  <2>1. QuietTurn(p) /\ Ends(p)
    BY <1>1, <1>3, ReturnTurns DEF SwitchWorkspace, f
  <2> QED
    BY <1>1, <2>1, QuietRows DEF SwitchWorkspace, f
<1>4. CASE workspaces[f.ws] # NoOid
  <2> DEFINE g == [f EXCEPT !.at = "GetWindow"]
  <2>1. g \in FrameOf("GetWindow") /\ g.at = "GetWindow"
    BY <1>2, <1>1 DEF FrameOf
  <2>3. OkWs(g)
    BY <1>1 DEF OkWs, WithWs, NewWindows
  <2> HIDE DEF g
  <2>4. QuietFrame(g)
    BY <2>1, <2>3, QuietAt DEF Lists, Deletes, Moves, Activates
  <2>5. Goto(p, g) /\ UNCHANGED result
    BY <1>1, <1>4 DEF SwitchWorkspace, f, g
  <2>6. QuietTurn(p) /\ Ends(p)
    BY <2>4, <2>5 DEF QuietTurn, Ends
  <2> QED
    BY <1>1, <2>6, QuietRows DEF SwitchWorkspace, f
<1> QED
  BY <1>3, <1>4

LEMMA GetWindowKeeps == ASSUME IInv, NEW p \in Call, GetWindow(p) PROVE IInv'
<1> DEFINE f == Top(p)
<1>0. At(p, "GetWindow")
  BY DEF GetWindow
<1>1. /\ TypeInv /\ stack[p] # <<>> /\ f = Head(stack[p]) /\ f \in FrameOf("GetWindow")
      /\ f.at = "GetWindow" /\ OkWs(f)
  BY <1>0, AtFacts
<1>2. f.ws \in Workspace /\ f.window \in Window
  BY <1>1 DEF FrameOf
<1> HIDE DEF f
<1>3. CASE windows[f.window] \in {NoOid, f.ws}
  <2>1. QuietTurn(p) /\ Ends(p)
    BY <1>1, <1>3, ReturnTurns DEF GetWindow, f
  <2> QED
    BY <1>1, <2>1, QuietRows DEF GetWindow, f
<1>4. CASE windows[f.window] \notin {NoOid, f.ws}
  <2> DEFINE g == [at |-> "otherWindows", window |-> f.window, ws |-> f.ws,
                   read |-> windows[f.window]]
  <2>1. g \in FrameOf("otherWindows") /\ g.at = "otherWindows"
    BY <1>2, <1>1, <1>4, RowTypes DEF FrameOf
  <2>3. OkWs(g)
    BY <1>1 DEF OkWs, WithWs, NewWindows
  <2> HIDE DEF g
  <2>4. QuietFrame(g)
    BY <2>1, <2>3, QuietAt DEF Lists, Deletes, Moves, Activates
  <2>5. Goto(p, g) /\ UNCHANGED result
    BY <1>1, <1>4 DEF GetWindow, f, g
  <2>6. QuietTurn(p) /\ Ends(p)
    BY <2>4, <2>5 DEF QuietTurn, Ends
  <2> QED
    BY <1>1, <2>6, QuietRows DEF GetWindow, f
<1> QED
  BY <1>3, <1>4

LEMMA CheckOtherWindowsKeeps == ASSUME IInv, NEW p \in Call, CheckOtherWindows(p) PROVE IInv'
<1> DEFINE f == Top(p)
<1>0. At(p, "otherWindows")
  BY DEF CheckOtherWindows
<1>1. /\ TypeInv /\ stack[p] # <<>> /\ f = Head(stack[p]) /\ f \in FrameOf("otherWindows")
      /\ f.at = "otherWindows" /\ OkWs(f)
  BY <1>0, AtFacts
<1>2. f.ws \in Workspace /\ f.window \in Window /\ f.read \in Workspace
  BY <1>1 DEF FrameOf
<1> HIDE DEF f
<1>3. CASE f.ws \in {windows[w] : w \in Existing(windows)}
  <2>1. QuietTurn(p) /\ Ends(p)
    BY <1>1, <1>3, ReturnTurns DEF CheckOtherWindows, f
  <2> QED
    BY <1>1, <2>1, QuietRows DEF CheckOtherWindows, f
<1>4. CASE f.ws \notin {windows[w] : w \in Existing(windows)}
  <2> DEFINE g == [f EXCEPT !.at = "updateWindow"]
  <2>1. g \in FrameOf("updateWindow") /\ g.at = "updateWindow"
    BY <1>2, <1>1 DEF FrameOf
  <2>3. OkWs(g)
    BY <1>1 DEF OkWs, WithWs, NewWindows
  <2> HIDE DEF g
  <2>4. QuietFrame(g)
    BY <2>1, <2>3, QuietAt DEF Lists, Deletes, Moves, Activates
  <2>5. Goto(p, g) /\ UNCHANGED result
    BY <1>1, <1>4 DEF CheckOtherWindows, f, g
  <2>6. QuietTurn(p) /\ Ends(p)
    BY <2>4, <2>5 DEF QuietTurn, Ends
  <2> QED
    BY <1>1, <2>6, QuietRows DEF CheckOtherWindows, f
<1> QED
  BY <1>3, <1>4

LEMMA SetWindowPosAndSizeKeeps == ASSUME IInv, NEW p \in Call, SetWindowPosAndSize(p) PROVE IInv'
<1> DEFINE f == Top(p)
<1>0. At(p, "SetWindowPosAndSize")
  BY DEF SetWindowPosAndSize
<1>1. /\ TypeInv /\ stack[p] # <<>> /\ f = Head(stack[p]) /\ f \in FrameOf("SetWindowPosAndSize")
      /\ f.at = "SetWindowPosAndSize" /\ OkWs(f)
  BY <1>0, AtFacts
<1>2. f.window \in Window
  BY <1>1 DEF FrameOf
<1> HIDE DEF f
<1>3. CASE windows[f.window] = NoOid
  <2>1. QuietTurn(p) /\ Ends(p)
    BY <1>1, <1>3, ReturnTurns DEF SetWindowPosAndSize, f
  <2> QED
    BY <1>1, <2>1, QuietRows DEF SetWindowPosAndSize, f
<1>4. CASE windows[f.window] # NoOid
  <2>0. /\ windows[f.window] \in Workspace
        /\ ~stale => windows[f.window] \in made
    BY <1>1, <1>2, <1>4, RowTypes DEF IInv, RowsInv, MadeInv, Existing
  <2> DEFINE g == [at |-> "updateWindow", window |-> f.window, ws |-> windows[f.window],
                   read |-> windows[f.window]]
  <2>1. g \in FrameOf("updateWindow") /\ g.at = "updateWindow"
    BY <1>2, <2>0 DEF FrameOf
  <2>3. OkWs(g)
    BY <1>1, <2>0 DEF OkWs, WithWs, NewWindows
  <2> HIDE DEF g
  <2>4. QuietFrame(g)
    BY <2>1, <2>3, QuietAt DEF Lists, Deletes, Moves, Activates
  <2>5. Goto(p, g) /\ UNCHANGED result
    BY <1>1, <1>4 DEF SetWindowPosAndSize, f, g
  <2>6. QuietTurn(p) /\ Ends(p)
    BY <2>4, <2>5 DEF QuietTurn, Ends
  <2> QED
    BY <1>1, <2>6, QuietRows DEF SetWindowPosAndSize, f
<1> QED
  BY <1>3, <1>4

LEMMA ReadBlockKeeps == ASSUME IInv, NEW p \in Call, ReadBlock(p) PROVE IInv'
<1> DEFINE f == Top(p)
<1>0. PICK at \in {"SetView", "setTermSize"} : At(p, at)
  BY DEF ReadBlock
<1>1. /\ TypeInv /\ stack[p] # <<>> /\ f = Head(stack[p]) /\ f \in FrameOf(at)
      /\ f.at = at /\ at \in {"SetView", "setTermSize"} /\ OkWs(f)
  BY <1>0, AtFacts
<1>2. f.block \in Block
  BY <1>1 DEF FrameOf
<1> HIDE DEF f
<1>3. CASE blocks[f.block] = NoOid /\ f.at # "SetView"
  <2>1. QuietTurn(p) /\ Ends(p)
    BY <1>1, <1>3, ReturnTurns DEF ReadBlock, f
  <2> QED
    BY <1>1, <2>1, QuietRows DEF ReadBlock, f
<1>4. CASE blocks[f.block] = NoOid /\ f.at = "SetView"
  <2>1. QuietTurn(p) /\ Ends(p)
    BY <1>1, <1>4, PanicTurns DEF ReadBlock, f
  <2> QED
    BY <1>1, <2>1, QuietRows DEF ReadBlock, f
<1>5. CASE blocks[f.block] # NoOid
  <2> DEFINE g == [at |-> "updateBlock", block |-> f.block, read |-> blocks[f.block]]
  <2>1. g \in FrameOf("updateBlock") /\ g.at = "updateBlock"
    BY <1>2, <1>1, <1>5, RowTypes DEF FrameOf
  <2>3. OkWs(g)
    BY <1>1 DEF OkWs, WithWs, NewWindows
  <2> HIDE DEF g
  <2>4. QuietFrame(g)
    BY <2>1, <2>3, QuietAt DEF Lists, Deletes, Moves, Activates
  <2>5. Goto(p, g) /\ UNCHANGED result
    BY <1>1, <1>5 DEF ReadBlock, f, g
  <2>6. QuietTurn(p) /\ Ends(p)
    BY <2>4, <2>5 DEF QuietTurn, Ends
  <2> QED
    BY <1>1, <2>6, QuietRows DEF ReadBlock, f
<1> QED
  BY <1>3, <1>4, <1>5

LEMMA DeleteBlockCommandKeeps == ASSUME IInv, NEW p \in Call, DeleteBlockCommand(p) PROVE IInv'
<1> DEFINE f == Top(p)
<1>0. At(p, "DeleteBlockCommand")
  BY DEF DeleteBlockCommand
<1>1. /\ TypeInv /\ stack[p] # <<>> /\ f = Head(stack[p]) /\ f \in FrameOf("DeleteBlockCommand")
      /\ f.at = "DeleteBlockCommand" /\ OkWs(f)
  BY <1>0, AtFacts
<1>2. f.block \in Block
  BY <1>1 DEF FrameOf
<1> HIDE DEF f
<1>3. CASE TabOf(f.block) = NoOid
  <2>1. QuietTurn(p) /\ Ends(p)
    BY <1>1, <1>3, ReturnTurns DEF DeleteBlockCommand, f
  <2> QED
    BY <1>1, <2>1, QuietRows DEF DeleteBlockCommand, f
<1>4. CASE TabOf(f.block) # NoOid
  <2>0. TabOf(f.block) \in Tab
    BY <1>4 DEF TabOf
  <2> DEFINE g == [at |-> "DeleteBlock", block |-> f.block, recursive |-> TRUE]
         h == [at |-> "CreateBlock:replaced", tab |-> TabOf(f.block)]
  <2>1. g \in FrameOf("DeleteBlock") /\ g.at = "DeleteBlock"
    BY <1>2, <2>0 DEF FrameOf
  <2>2. h \in FrameOf("CreateBlock:replaced") /\ h.at = "CreateBlock:replaced"
    BY <1>2, <2>0 DEF FrameOf
  <2>3. OkWs(g) /\ OkWs(h)
    BY <1>1 DEF OkWs, WithWs, NewWindows
  <2> HIDE DEF g, h
  <2>4. QuietFrame(g) /\ QuietFrame(h) /\ h.at \in Waits
    BY <2>1, <2>2, <2>3, QuietAt DEF Lists, Deletes, Moves, Activates, Waits
  <2>5. CallThen(p, g, h) /\ UNCHANGED result
    BY <1>1, <1>4 DEF DeleteBlockCommand, f, g, h
  <2>6. QuietTurn(p) /\ Ends(p)
    BY <2>4, <2>5 DEF QuietTurn, Ends
  <2> QED
    BY <1>1, <2>6, QuietRows DEF DeleteBlockCommand, f
<1> QED
  BY <1>3, <1>4

-----------------------------------------------------------------------------
(* Windows and the client                                                  *)

LEMMA QuietWindows ==
    ASSUME IInv, NEW p \in Call, stack[p] # <<>>, QuietTurn(p), Ends(p),
           Top(p).at \notin {"createTabObj:list", "DeleteTab:delete", "DeleteTab:layout"},
           UNCHANGED <<workspaces, tabs, layouts, blocks, made, calls, overlap>>,
           windows' \in [Window -> Workspace \cup {NoOid}], client' \in Seq(Window),
           told' \subseteq Window, stale' \in BOOLEAN, ~stale' => ~stale,
           ~stale => WindowsMade'
    PROVE  IInv'
<1>1. /\ ~stale' => (RowsInv /\ CallsInv)'
      /\ DOMAIN stack' = Call /\ \A q \in Call : StackOf(stack[q])'
  BY QuietTurnStep
<1>2. Typed(graph)'
  BY RowTypes DEF IInv, Typed, graph
<1>3. TypeInv'
  BY <1>1, <1>2, EndsTypes DEF IInv, TypeInv, TypeOK
<1> QED
  BY <1>1, <1>3 DEF IInv

LEMMA DeleteWindowRowKeeps == ASSUME IInv, NEW p \in Call, DeleteWindowRow(p) PROVE IInv'
<1> DEFINE f == Top(p)
<1>0. At(p, "CloseWindow:delete")
  BY DEF DeleteWindowRow
<1>1. /\ TypeInv /\ stack[p] # <<>> /\ f = Head(stack[p]) /\ f \in FrameOf("CloseWindow:delete")
      /\ f.at = "CloseWindow:delete" /\ OkWs(f)
  BY <1>0, AtFacts
<1>2. f.window \in Window
  BY <1>1 DEF FrameOf
<1> DEFINE g == [at |-> "CloseWindow:client", window |-> f.window]
<1> HIDE DEF f
<1>3. QuietFrame(g)
  <2>1. g \in FrameOf("CloseWindow:client") /\ g.at = "CloseWindow:client"
    BY <1>2 DEF FrameOf
  <2>2. OkWs(g)
    BY DEF OkWs, WithWs, NewWindows
  <2> QED
    BY <2>1, <2>2, QuietAt DEF Lists, Deletes, Moves, Activates
<1>4. QuietTurn(p) /\ Ends(p)
  BY <1>1, <1>3 DEF DeleteWindowRow, QuietTurn, Ends, f
<1>5. windows' = [windows EXCEPT ![f.window] = NoOid]
  BY <1>1 DEF DeleteWindowRow, f
<1>6. /\ windows' \in [Window -> Workspace \cup {NoOid}] /\ client \in Seq(Window)
      /\ told \subseteq Window /\ stale \in BOOLEAN
  BY <1>1, <1>5, RowTypes DEF TypeInv, TypeOK
<1>7. ~stale => WindowsMade'
  <2>1. \A w \in Existing(windows)' : w \in Existing(windows) /\ windows'[w] = windows[w]
    BY <1>1, <1>2, <1>5, RowTypes DEF Existing
  <2> QED
    BY <2>1 DEF DeleteWindowRow, IInv, RowsInv, MadeInv, WindowsMade
<1> QED
  BY <1>1, <1>4, <1>6, <1>7, QuietWindows DEF DeleteWindowRow, f

LEMMA ForgetWindowKeeps == ASSUME IInv, NEW p \in Call, ForgetWindow(p) PROVE IInv'
<1> DEFINE f == Top(p)
<1>0. At(p, "CloseWindow:update")
  BY DEF ForgetWindow
<1>1. /\ TypeInv /\ stack[p] # <<>> /\ f = Head(stack[p]) /\ f \in FrameOf("CloseWindow:update")
      /\ f.at = "CloseWindow:update"
  BY <1>0, AtFacts
<1>2. f.read \in Seq(Window)
  BY <1>1 DEF FrameOf
<1> HIDE DEF f
<1>4. QuietTurn(p) /\ Ends(p)
  BY ReturnTurns DEF ForgetWindow
<1>5. client' = RemoveFirst(f.read, f.window) /\ stale' = (stale \/ client # f.read)
  BY <1>1 DEF ForgetWindow, UpdateClientRow, f
<1>6. /\ windows \in [Window -> Workspace \cup {NoOid}] /\ client' \in Seq(Window)
      /\ told \subseteq Window /\ stale' \in BOOLEAN /\ (~stale' => ~stale)
  BY <1>1, <1>2, <1>5, RowTypes, RemoveFirstFacts DEF TypeInv, TypeOK
<1>7. ~stale => WindowsMade'
  BY DEF ForgetWindow, IInv, RowsInv, MadeInv, WindowsMade, Existing
<1> QED
  BY <1>1, <1>4, <1>6, <1>7, QuietWindows DEF ForgetWindow, f

LEMMA UpdateClientKeeps == ASSUME IInv, NEW p \in Call, UpdateClient(p) PROVE IInv'
<1> DEFINE f == Top(p)
<1>0. At(p, "updateClient")
  BY DEF UpdateClient
<1>1. /\ TypeInv /\ stack[p] # <<>> /\ f = Head(stack[p]) /\ f \in FrameOf("updateClient")
      /\ f.at = "updateClient"
  BY <1>0, AtFacts
<1>2. f.new \in Seq(Window)
  BY <1>1 DEF FrameOf
<1> HIDE DEF f
<1>4. QuietTurn(p) /\ Ends(p)
  BY ReturnTurns DEF UpdateClient
<1>5. client' = f.new /\ stale' = (stale \/ client # f.read)
  BY <1>1 DEF UpdateClient, UpdateClientRow, f
<1>6. /\ windows \in [Window -> Workspace \cup {NoOid}] /\ client' \in Seq(Window)
      /\ told \subseteq Window /\ stale' \in BOOLEAN /\ (~stale' => ~stale)
  BY <1>1, <1>2, <1>5, RowTypes DEF TypeInv, TypeOK
<1>7. ~stale => WindowsMade'
  BY DEF UpdateClient, IInv, RowsInv, MadeInv, WindowsMade, Existing
<1> QED
  BY <1>1, <1>4, <1>6, <1>7, QuietWindows DEF UpdateClient, f

LEMMA InsertWindowKeeps == ASSUME IInv, NEW p \in Call, InsertWindow(p) PROVE IInv'
<1> DEFINE f == Top(p)
<1>0. At(p, "CreateWindow:insert")
  BY DEF InsertWindow
<1>1. /\ TypeInv /\ stack[p] # <<>> /\ f = Head(stack[p]) /\ f \in FrameOf("CreateWindow:insert")
      /\ f.at = "CreateWindow:insert" /\ OkWs(f) /\ (~stale => RowInv(f))
  BY <1>0, AtFacts
<1>2. f.window \in Window /\ f.ws \in Workspace
  BY <1>1 DEF FrameOf
<1> HIDE DEF f
<1>3. CASE Failed(p)
  <2>1. QuietTurn(p) /\ Ends(p) /\ UNCHANGED windows
    BY <1>3, ReturnTurns DEF InsertWindow
  <2> QED
    BY <1>1, <2>1, QuietRows DEF InsertWindow, rows, f
<1>4. CASE ~Failed(p)
  <2> DEFINE g == [at |-> "CreateWindow:client", window |-> f.window]
  <2>1. g \in FrameOf("CreateWindow:client") /\ g.at = "CreateWindow:client"
    BY <1>2 DEF FrameOf
  <2>2. OkWs(g)
    BY DEF OkWs, WithWs, NewWindows
  <2>3. QuietFrame(g)
    BY <2>1, <2>2, QuietAt DEF Lists, Deletes, Moves, Activates
  <2>4. QuietTurn(p) /\ Ends(p) /\ windows' = [windows EXCEPT ![f.window] = f.ws]
    BY <1>1, <1>4, <2>3 DEF InsertWindow, QuietTurn, Ends, f
  <2>6. /\ windows' \in [Window -> Workspace \cup {NoOid}] /\ client \in Seq(Window)
        /\ told \subseteq Window /\ stale \in BOOLEAN
    BY <1>1, <1>2, <2>4, RowTypes DEF TypeInv, TypeOK
  <2>7. ASSUME ~stale PROVE WindowsMade'
    <3>1. f.ws \in made /\ f.window \in made
      BY <1>1, <2>7 DEF OkWs, WithWs, NewWindows
    <3>2. ASSUME NEW w \in Existing(windows)' PROVE w \in made' /\ windows'[w] \in made'
      <4>1. CASE w = f.window
        BY <1>1, <1>2, <2>4, <2>7, <3>1, <4>1, RowTypes DEF InsertWindow
      <4>2. CASE w # f.window
        BY <1>1, <2>4, <2>7, <3>2, <4>2, RowTypes DEF InsertWindow, IInv, RowsInv, MadeInv, Existing
      <4> QED
        BY <4>1, <4>2
    <3> QED
      BY <3>2 DEF WindowsMade
  <2> QED
    BY <1>1, <2>4, <2>6, <2>7, QuietWindows DEF InsertWindow, f
<1> QED
  BY <1>3, <1>4

-----------------------------------------------------------------------------
(* Deleting a tab: its workspace and its blocks are read                   *)

\* What the calls need of a function g that runs next and of those of H that wait.
NewTop(p, g, H) ==
    /\ TopInv(g)'
    /\ \A f \in H \cup {g} : RowInv(f)' /\ \A q \in Call \ {p} : PairInv(Top(q), f)
    /\ \A q \in Call \ {p} : ApartInv(g, Top(q)) /\ ApartInv(Top(q), g)
    /\ \A q \in Call : \A f \in FramesOf(q) : PairInv(g, f)
    /\ \A f \in H \cup {g} : PairInv(g, f)

LEMMA StackStep ==
    ASSUME IInv, NEW p \in Call, NEW g, NEW H, Leads(p, g, H),
           ~stale => NewTop(p, g, H), Ends(p),
           Top(p).at \notin {"createTabObj:list", "DeleteTab:delete", "DeleteTab:layout"},
           UNCHANGED <<workspaces, tabs, layouts, blocks, windows, client, told, calls,
                       overlap, stale>>,
           made \subseteq made', made' \subseteq Workspace \cup Tab \cup Block \cup Window
    PROVE  IInv'
<1>1. TypeInv /\ (~stale => RowsInv /\ CallsInv)
  BY DEF IInv
<1>2. TypeInv'
  <2>1. graph' = graph
    BY DEF graph
  <2> QED
    BY <1>1, <2>1, EndsTypes DEF TypeInv, TypeOK, Leads
<1>3. ASSUME ~stale' PROVE RowsInv' /\ CallsInv'
  <2>1. RowsInv /\ CallsInv /\ NewTop(p, g, H)
    BY <1>1, <1>3
  <2>2. \A q \in Call : \A f \in {Top(q)} : TopInv(f)'
    BY <2>1, TopKept DEF CallsInv
  <2>3. \A q \in Call : \A f \in FramesOf(q) : RowInv(f)'
    BY <2>1, RowKept DEF CallsInv
  <2>4. CallsInv'
    BY <2>1, <2>2, <2>3, CallsStep DEF NewTop
  <2>5. OrphansInv'
    BY <2>1, OrphansKept DEF RowsInv
  <2>6. MadeInv'
    BY <2>1 DEF RowsInv, MadeInv, Existing
  <2> QED
    BY <2>1, <2>4, <2>5, <2>6, GraphKept DEF RowsInv
<1> QED
  BY <1>2, <1>3 DEF IInv

\* The conditions of NewTop that hold by where g is.
LEMMA PassiveTop ==
    ASSUME NEW p \in Call, NEW g, NEW H, TopInv(g)', \A f \in H \cup {g} : RowInv(f)',
           g.at \notin Lists \cup Activates \cup {"writeBack", "DeleteTab:delete"}, ~MakesWs(g),
           \A f \in H \cup {g} : \A q \in Call \ {p} : PairInv(Top(q), f)
    PROVE  NewTop(p, g, H)
<1>1. \A f : ApartInv(g, f) /\ ApartInv(f, g)
  BY DEF ApartInv
<1>2. \A f : PairInv(g, f)
  BY DEF PairInv
<1> QED
  BY <1>1, <1>2 DEF NewTop

\* A tab that a workspace lists is there, and its id has been given out.
LEMMA ListedFacts ==
    ASSUME TypeInv, RowsInv, NEW w \in Workspace, workspaces[w] # NoOid,
           NEW t \in Listed(workspaces[w])
    PROVE  t \in Tab /\ tabs[t] # NoOid /\ t \in made /\ w \in made /\ ~Unlisted(t)
<1>1. w \in Existing(workspaces)
  BY RowTypes DEF Existing
<1>2. t \in Existing(tabs)
  BY <1>1 DEF RowsInv, NoDangling, graph
<1> QED
  BY <1>1, <1>2, RowTypes DEF RowsInv, MadeInv, Existing, Unlisted

LEMMA DeleteTabKeeps == ASSUME IInv, NEW p \in Call, DeleteTab(p) PROVE IInv'
<1>f. PICK f : f = Top(p)
  OBVIOUS
<1>0. At(p, "DeleteTab")
  BY DEF DeleteTab
<1>1. /\ TypeInv /\ stack[p] # <<>> /\ f = Head(stack[p]) /\ f \in FrameOf("DeleteTab")
      /\ f.at = "DeleteTab" /\ (~stale => RowsInv /\ CallsInv)
  BY <1>0, <1>f, AtFacts
<1>2. f.ws \in Workspace \cup {NoOid} /\ f.tab \in Tab /\ f.recursive \in BOOLEAN
  BY <1>1 DEF FrameOf
<1>3. PICK w : w = IF f.ws = NoOid THEN NoOid ELSE workspaces[f.ws]
  OBVIOUS
<1>4. CASE w = NoOid \/ f.tab \notin Listed(w)
  <2>1. QuietTurn(p) /\ Ends(p)
    BY <1>1, <1>3, <1>4, ReturnTurns DEF DeleteTab
  <2> QED
    BY <1>1, <2>1, <1>f, QuietRows DEF DeleteTab
<1>5. CASE ~(w = NoOid \/ f.tab \notin Listed(w))
  <2> DEFINE g == [at |-> "DeleteTab:tab", ws |-> f.ws, tab |-> f.tab,
                   recursive |-> f.recursive, read |-> w]
  <2>1. f.ws \in Workspace /\ w = workspaces[f.ws] /\ w \in WorkspaceRow
    BY <1>1, <1>2, <1>3, <1>5, RowTypes
  <2>2. g \in Frame
    <3>1. g \in FrameOf("DeleteTab:tab")
      BY <1>2, <2>1 DEF FrameOf
    <3> QED
      BY <3>1, InFrame
  <2>3. Goto(p, g) /\ UNCHANGED result
    BY <1>1, <1>3, <1>5 DEF DeleteTab
  <2>4. Leads(p, g, {})
    BY <1>1, <2>2, <2>3, GotoLeads
  <2>5. ASSUME ~stale PROVE NewTop(p, g, {})
    <3>0. UNCHANGED <<workspaces, tabs, made>>
      BY DEF DeleteTab, rows
    <3>1. tabs[f.tab] # NoOid /\ f.tab \in made /\ f.ws \in made /\ ~Unlisted(f.tab)
      BY <1>1, <1>5, <2>1, <2>5, ListedFacts
    <3>2. TopInv(g)'
      BY DEF TopInv, MakesWs
    <3>3. RowInv(g)'
      BY <1>5, <3>0, <3>1 DEF RowInv, MadeFrame, Lists, Moves, NewWindows
    <3>4. ASSUME NEW q \in Call \ {p} PROVE PairInv(Top(q), g)
      <4>1. TopInv(Top(q))
        BY <1>1, <2>5 DEF CallsInv
      <4>2. Top(q).at \in Lists => Top(q).tab # f.tab
        BY <3>1, <4>1 DEF TopInv, Lists
      <4> QED
        BY <4>2 DEF PairInv, Moves
    <3> QED
      BY <3>2, <3>3, <3>4, PassiveTop DEF Lists, Activates, MakesWs
  <2> QED
    BY <1>1, <2>3, <2>4, <2>5, <1>f, StackStep DEF DeleteTab, rows, Ends, TypeInv
<1> QED
  BY <1>4, <1>5

LEMMA ReadTabKeeps == ASSUME IInv, NEW p \in Call, ReadTab(p) PROVE IInv'
<1>f. PICK f : f = Top(p)
  OBVIOUS
<1>0. At(p, "DeleteTab:tab")
  BY DEF ReadTab
<1>1. /\ TypeInv /\ stack[p] # <<>> /\ f = Head(stack[p]) /\ f \in FrameOf("DeleteTab:tab")
      /\ f.at = "DeleteTab:tab" /\ (~stale => RowsInv /\ CallsInv /\ RowInv(f))
  BY <1>0, <1>f, AtFacts
<1>2. f.ws \in Workspace /\ f.tab \in Tab /\ f.recursive \in BOOLEAN /\ f.read \in WorkspaceRow
  BY <1>1 DEF FrameOf
<1>20. ~stale => \A q \in Call : PairInv(Top(q), f)
  BY <1>1, <1>f DEF CallsInv, FramesOf
<1>t. PICK t : t = tabs[f.tab]
  OBVIOUS
<1> DEFINE g == [at |-> "DeleteTab:blocks", ws |-> f.ws, tab |-> f.tab,
                 recursive |-> f.recursive, read |-> f.read,
                 found |-> t # NoOid, todo |-> IF t = NoOid THEN <<>> ELSE t]
<1>3. g \in Frame
  <2>1. (IF t = NoOid THEN <<>> ELSE t) \in Seq(Block)
    BY <1>1, <1>2, <1>t, RowTypes
  <2>2. g \in FrameOf("DeleteTab:blocks")
    BY <1>2, <2>1 DEF FrameOf
  <2> QED
    BY <2>2, InFrame
<1>4. Goto(p, g) /\ result' = [result EXCEPT ![p] = "ok"]
  BY <1>1, <1>t DEF ReadTab
<1>5. Leads(p, g, {})
  BY <1>1, <1>3, <1>4, GotoLeads
<1>6. ASSUME ~stale PROVE NewTop(p, g, {})
  <2>1. UNCHANGED <<workspaces, tabs, made>>
    BY DEF ReadTab, rows
  <2>2. TopInv(g)'
    BY DEF TopInv, MakesWs
  <2>3. RowInv(g)'
    BY <1>1, <1>6, <1>t, <2>1 DEF RowInv, MadeFrame, Deletes, WithWs, Moves, NewWindows
  <2>4. ASSUME NEW q \in Call \ {p} PROVE PairInv(Top(q), g)
    BY <1>1, <1>20, <1>6 DEF PairInv, Deletes, Moves
  <2> QED
    BY <2>2, <2>3, <2>4, PassiveTop DEF Lists, Activates, MakesWs
<1> QED
  BY <1>1, <1>4, <1>5, <1>6, <1>f, StackStep DEF ReadTab, rows, Ends, TypeInv

LEMMA DeleteTabBlockKeeps == ASSUME IInv, NEW p \in Call, DeleteTabBlock(p) PROVE IInv'
<1>f. PICK f : f = Top(p)
  OBVIOUS
<1>0. At(p, "DeleteTab:blocks")
  BY DEF DeleteTabBlock
<1>1. /\ TypeInv /\ stack[p] # <<>> /\ f = Head(stack[p]) /\ f \in FrameOf("DeleteTab:blocks")
      /\ f.at = "DeleteTab:blocks" /\ (~stale => RowsInv /\ CallsInv /\ RowInv(f))
  BY <1>0, <1>f, AtFacts
<1>2. f.todo \in Seq(Block) /\ f.tab \in Tab
  BY <1>1 DEF FrameOf
<1>20. ~stale => \A q \in Call : PairInv(Top(q), f)
  BY <1>1, <1>f DEF CallsInv, FramesOf
<1> DEFINE g == [at |-> "DeleteBlock", block |-> Head(f.todo), recursive |-> FALSE]
           h == [f EXCEPT !.todo = Tail(@)]
<1>3. g \in FrameOf("DeleteBlock") /\ h \in FrameOf("DeleteTab:blocks")
  <2>1. Head(f.todo) \in Block /\ Tail(f.todo) \in Seq(Block)
    BY <1>1, <1>2, TailFacts DEF DeleteTabBlock
  <2>2. g \in FrameOf("DeleteBlock")
    BY <2>1 DEF FrameOf
  <2>3. h \in FrameOf("DeleteTab:blocks")
    BY <1>1, <2>1 DEF FrameOf
  <2> QED
    BY <2>2, <2>3
<1>30. /\ h.at = "DeleteTab:blocks" /\ h.tab = f.tab /\ h.ws = f.ws /\ h.found = f.found
       /\ h.read = f.read
  BY <1>1 DEF FrameOf
<1>4. CallThen(p, g, h) /\ UNCHANGED result
  BY <1>1 DEF DeleteTabBlock
<1>50. g.at = "DeleteBlock"
  OBVIOUS
<1> HIDE DEF g, h
<1>5. Leads(p, g, {h})
  <2>1. g \in Frame /\ h \in Frame /\ h.at \in Waits
    BY <1>3, <1>30, InFrame DEF Waits
  <2> QED
    BY <1>1, <1>4, <2>1, CallThenLeads
<1>6. ASSUME ~stale PROVE NewTop(p, g, {h})
  <2>1. UNCHANGED <<workspaces, tabs, made>>
    BY DEF DeleteTabBlock, rows
  <2>2. QuietFrame(g)
    <3>1. OkWs(g)
      BY <1>50 DEF OkWs, WithWs, NewWindows
    <3> QED
      BY <1>3, <1>50, <3>1, QuietAt DEF Lists, Deletes, Moves, Activates
  <2>3. TopInv(g)' /\ \A x : PairInv(g, x) /\ PairInv(x, g)
    BY <2>2, QuietFacts DEF QuietFrame
  <2>4. RowInv(g)'
    BY <1>50 DEF RowInv, MadeFrame, Deletes, Lists, Moves, WithWs, NewWindows
  <2>5. RowInv(h)'
    BY <1>1, <1>30, <1>6, <2>1 DEF RowInv, MadeFrame, Deletes, WithWs, Moves, NewWindows
  <2>6. ASSUME NEW q \in Call \ {p} PROVE PairInv(Top(q), h)
    BY <1>1, <1>20, <1>30, <1>6 DEF PairInv, Deletes, Moves
  <2> QED
    BY <1>50, <2>3, <2>4, <2>5, <2>6, PassiveTop DEF Lists, Activates, MakesWs
<1> QED
  BY <1>1, <1>4, <1>5, <1>6, <1>f, StackStep DEF DeleteTabBlock, rows, Ends, TypeInv

-----------------------------------------------------------------------------
(* Workspaces that are read to be written back                             *)

LEMMA GotoStep ==
    ASSUME IInv, NEW p \in Call, stack[p] # <<>>, NEW g \in Frame, Goto(p, g), Ends(p),
           ~stale => NewTop(p, g, {}),
           Top(p).at \notin {"createTabObj:list", "DeleteTab:delete", "DeleteTab:layout"},
           UNCHANGED <<rows, told, calls, overlap, stale>>
    PROVE  IInv'
<1>1. Leads(p, g, {})
  BY GotoLeads DEF IInv
<1> QED
  BY <1>1, StackStep DEF rows, IInv, TypeInv

\* A workspace that is to be written back, with the tabs that it has.
LEMMA WriteBackTop ==
    ASSUME NEW p \in Call, NEW g, g.at = "writeBack", g.ws \in made', NEW read, g.read = read,
           OnceRow(read) => OnceRow(g.new) /\ Listed(g.new) = Listed(read),
           \A q \in Call : \A f \in FramesOf(q) :
              f.at \in Moves /\ f.ws = g.ws => g.new.active # f.tab
    PROVE  NewTop(p, g, {})
<1>1. TopInv(g)'
  BY DEF TopInv, MakesWs
<1>2. RowInv(g)'
  BY DEF RowInv, MadeFrame, Deletes, Lists, Moves, NewWindows
<1>3. \A f : ApartInv(g, f) /\ ApartInv(f, g) /\ PairInv(f, g)
  BY DEF ApartInv, PairInv, Lists, MakesWs, Deletes, Moves
<1>4. \A q \in Call : \A f \in FramesOf(q) \cup {g} : PairInv(g, f)
  BY DEF PairInv, Lists, Activates, Moves
<1> QED
  BY <1>1, <1>2, <1>3, <1>4 DEF NewTop

LEMMA ReadForActiveKeeps == ASSUME IInv, NEW p \in Call, ReadForActive(p) PROVE IInv'
<1>f. PICK f : f = Top(p)
  OBVIOUS
<1>0. At(p, "SetActiveTab")
  BY DEF ReadForActive
<1>1. /\ TypeInv /\ stack[p] # <<>> /\ f = Head(stack[p]) /\ f \in FrameOf("SetActiveTab")
      /\ f.at = "SetActiveTab" /\ (~stale => RowsInv /\ CallsInv /\ RowInv(f))
  BY <1>0, <1>f, AtFacts
<1>2. f.ws \in Workspace /\ f.tab \in Tab
  BY <1>1 DEF FrameOf
<1>w. PICK w : w = workspaces[f.ws]
  OBVIOUS
<1>3. CASE w = NoOid
  <2>1. QuietTurn(p) /\ Ends(p)
    BY <1>1, <1>w, <1>3, ReturnTurns DEF ReadForActive
  <2> QED
    BY <1>1, <1>f, <2>1, QuietRows DEF ReadForActive
<1>4. CASE w # NoOid
  <2> DEFINE g == [at |-> "SetActiveTab:tab", ws |-> f.ws, tab |-> f.tab, read |-> w]
  <2>1. g \in Frame
    <3>1. w \in WorkspaceRow
      BY <1>1, <1>2, <1>w, <1>4, RowTypes
    <3>2. g \in FrameOf("SetActiveTab:tab")
      BY <1>2, <3>1 DEF FrameOf
    <3> QED
      BY <3>2, InFrame
  <2>2. Goto(p, g) /\ UNCHANGED result
    BY <1>1, <1>w, <1>4 DEF ReadForActive
  <2>3. ASSUME ~stale PROVE NewTop(p, g, {})
    <3>0. UNCHANGED made
      BY DEF ReadForActive, rows
    <3>1. TopInv(g)'
      BY DEF TopInv, MakesWs
    <3>2. RowInv(g)'
      BY <1>1, <2>3, <3>0 DEF RowInv, MadeFrame, Deletes, Lists, Moves, WithWs, NewWindows
    <3>3. \A x : ApartInv(g, x) /\ ApartInv(x, g) /\ PairInv(x, g)
      BY DEF ApartInv, PairInv, Lists, MakesWs, Deletes, Moves
    <3>4. ASSUME NEW q \in Call, NEW x \in FramesOf(q) PROVE PairInv(g, x)
      <4>1. PairInv(f, x)
        BY <1>1, <1>f, <2>3 DEF CallsInv
      <4> QED
        BY <4>1, <1>1 DEF PairInv, Lists, Activates
    <3>5. PairInv(g, g)
      BY DEF PairInv, Deletes, Moves
    <3> QED
      BY <3>1, <3>2, <3>3, <3>4, <3>5 DEF NewTop
  <2>4. Ends(p)
    BY <2>2 DEF Ends
  <2> QED
    BY <1>1, <1>f, <2>1, <2>2, <2>3, <2>4, GotoStep DEF ReadForActive
<1> QED
  BY <1>3, <1>4

LEMMA CheckTabKeeps == ASSUME IInv, NEW p \in Call, CheckTab(p) PROVE IInv'
<1>f. PICK f : f = Top(p)
  OBVIOUS
<1>0. At(p, "SetActiveTab:tab")
  BY DEF CheckTab
<1>1. /\ TypeInv /\ stack[p] # <<>> /\ f = Head(stack[p]) /\ f \in FrameOf("SetActiveTab:tab")
      /\ f.at = "SetActiveTab:tab" /\ (~stale => RowsInv /\ CallsInv /\ RowInv(f))
  BY <1>0, <1>f, AtFacts
<1>2. f.ws \in Workspace /\ f.tab \in Tab /\ f.read \in WorkspaceRow
  BY <1>1 DEF FrameOf
<1>3. CASE tabs[f.tab] = NoOid
  <2>1. QuietTurn(p) /\ Ends(p)
    BY <1>1, <1>3, ReturnTurns DEF CheckTab
  <2> QED
    BY <1>1, <1>f, <2>1, QuietRows DEF CheckTab
<1>4. CASE tabs[f.tab] # NoOid
  <2> DEFINE new == [f.read EXCEPT !.active = f.tab]
             g == [at |-> "writeBack", ws |-> f.ws, read |-> f.read, new |-> new]
  <2>0. new \in WorkspaceRow /\ new.tabs = f.read.tabs /\ new.pinned = f.read.pinned
        /\ new.active = f.tab
    BY <1>2 DEF WorkspaceRow
  <2> HIDE DEF new
  <2>1. g \in Frame
    <3>1. g \in FrameOf("writeBack")
      BY <1>2, <2>0 DEF FrameOf
    <3> QED
      BY <3>1, InFrame
  <2>2. Goto(p, g) /\ UNCHANGED result
    BY <1>1, <1>4 DEF CheckTab, new
  <2>3. ASSUME ~stale PROVE NewTop(p, g, {})
    <3>1. g.ws \in made'
      BY <1>1, <2>3 DEF CheckTab, rows, RowInv, MadeFrame, WithWs
    <3>2. OnceRow(f.read) => OnceRow(new) /\ Listed(new) = Listed(f.read)
      BY <2>0 DEF OnceRow, Listed
    <3>3. ASSUME NEW q \in Call, NEW x \in FramesOf(q), x.at \in Moves, x.ws = f.ws
          PROVE  new.active # x.tab
      <4>1. PairInv(f, x)
        BY <1>1, <1>f, <2>3 DEF CallsInv
      <4> QED
        BY <4>1, <1>1, <2>0, <3>3 DEF PairInv, Activates
    <3> QED
      BY <3>1, <3>2, <3>3, WriteBackTop
  <2>4. Ends(p)
    BY <2>2 DEF Ends
  <2> QED
    BY <1>1, <1>f, <2>1, <2>2, <2>3, <2>4, GotoStep DEF CheckTab
<1> QED
  BY <1>3, <1>4

\* A function that has just read a workspace writes it back.
LEMMA ReadThenWrite ==
    ASSUME IInv, NEW p \in Call, stack[p] # <<>>,
           Top(p).at \in {"ChangeTabPinning", "UpdateTabIds", "UpdateWorkspace"},
           NEW ws \in Workspace, ws = Top(p).ws, NEW w \in WorkspaceRow, w = workspaces[ws],
           NEW read \in WorkspaceRow, NEW new \in WorkspaceRow, new.active = w.active,
           OnceRow(read) => OnceRow(new) /\ Listed(new) = Listed(read),
           Goto(p, [at |-> "writeBack", ws |-> ws, read |-> read, new |-> new]),
           UNCHANGED <<rows, result, told, calls, overlap, stale>>
    PROVE  IInv'
<1> DEFINE g == [at |-> "writeBack", ws |-> ws, read |-> read, new |-> new]
<1>1. g \in Frame
  <2>1. g \in FrameOf("writeBack")
    BY DEF FrameOf
  <2> QED
    BY <2>1, InFrame
<1>2. ASSUME ~stale PROVE NewTop(p, g, {})
  <2>1. TypeInv /\ CallsInv
    BY <1>2 DEF IInv
  <2>2. w # NoOid
    BY CallsAssumption
  <2>3. RowInv(Top(p))
    BY <2>1 DEF CallsInv, FramesOf
  <2>4. g.ws \in made'
    BY <2>3 DEF rows, RowInv, MadeFrame, WithWs
  <2>5. ASSUME NEW q \in Call, NEW x \in FramesOf(q), x.at \in Moves, x.ws = ws
        PROVE  new.active # x.tab
    <3>1. RowInv(x)
      BY <2>1 DEF CallsInv
    <3> QED
      BY <2>2, <2>5, <3>1 DEF RowInv
  <2> QED
    BY <2>4, <2>5, WriteBackTop
<1>3. Ends(p)
  BY DEF Ends
<1> QED
  BY <1>1, <1>2, <1>3, GotoStep

LEMMA UpdateWorkspaceKeeps == ASSUME IInv, NEW p \in Call, UpdateWorkspace(p) PROVE IInv'
<1>f. PICK f : f = Top(p)
  OBVIOUS
<1>0. At(p, "UpdateWorkspace")
  BY DEF UpdateWorkspace
<1>1. /\ TypeInv /\ stack[p] # <<>> /\ f = Head(stack[p]) /\ f \in FrameOf("UpdateWorkspace")
      /\ f.at = "UpdateWorkspace"
  BY <1>0, <1>f, AtFacts
<1>2. f.ws \in Workspace
  BY <1>1 DEF FrameOf
<1>w. PICK w : w = workspaces[f.ws]
  OBVIOUS
<1>3. CASE w = NoOid
  <2>1. QuietTurn(p) /\ Ends(p)
    BY <1>1, <1>w, <1>3, ReturnTurns DEF UpdateWorkspace
  <2> QED
    BY <1>1, <1>f, <2>1, QuietRows DEF UpdateWorkspace
<1>4. CASE w # NoOid
  <2>1. w \in WorkspaceRow
    BY <1>1, <1>2, <1>w, <1>4, RowTypes
  <2> DEFINE new == [w EXCEPT !.named = TRUE]
  <2>2. new \in WorkspaceRow /\ new.tabs = w.tabs /\ new.pinned = w.pinned /\ new.active = w.active
    BY <2>1 DEF WorkspaceRow
  <2>3. OnceRow(w) => OnceRow(new) /\ Listed(new) = Listed(w)
    BY <2>2 DEF OnceRow, Listed
  <2>4. Goto(p, [at |-> "writeBack", ws |-> f.ws, read |-> w, new |-> new])
    BY <1>1, <1>w, <1>4 DEF UpdateWorkspace
  <2>5. UNCHANGED <<rows, result, told, calls, overlap, stale>>
    BY <1>1, <1>w, <1>4 DEF UpdateWorkspace
  <2> HIDE DEF new
  <2> QED
    BY <1>1, <1>2, <1>f, <1>w, <2>1, <2>2, <2>3, <2>4, <2>5, ReadThenWrite
<1> QED
  BY <1>3, <1>4

LEMMA UpdateTabIdsKeeps == ASSUME IInv, NEW p \in Call, UpdateTabIds(p) PROVE IInv'
<1>f. PICK f : f = Top(p)
  OBVIOUS
<1>0. At(p, "UpdateTabIds")
  BY DEF UpdateTabIds
<1>1. /\ TypeInv /\ stack[p] # <<>> /\ f = Head(stack[p]) /\ f \in FrameOf("UpdateTabIds")
      /\ f.at = "UpdateTabIds"
  BY <1>0, <1>f, AtFacts
<1>2. f.ws \in Workspace /\ f.seen \in WorkspaceRow
  BY <1>1 DEF FrameOf
<1>w. PICK w : w = workspaces[f.ws]
  OBVIOUS
<1>3. CASE w = NoOid
  <2>1. QuietTurn(p) /\ Ends(p)
    BY <1>1, <1>w, <1>3, ReturnTurns DEF UpdateTabIds
  <2> QED
    BY <1>1, <1>f, <2>1, QuietRows DEF UpdateTabIds
<1>4. CASE w # NoOid
  <2>1. w \in WorkspaceRow
    BY <1>1, <1>2, <1>w, <1>4, RowTypes
  <2> DEFINE read == [w EXCEPT !.tabs = f.seen.tabs, !.pinned = f.seen.pinned]
             new == [w EXCEPT !.tabs = Reverse(f.seen.tabs), !.pinned = f.seen.pinned]
  <2>0. f.seen.tabs \in Seq(Tab) /\ f.seen.pinned \in Seq(Tab)
    BY <1>2 DEF WorkspaceRow
  <2>00. /\ Reverse(f.seen.tabs) \in Seq(Tab) /\ ToSet(Reverse(f.seen.tabs)) = ToSet(f.seen.tabs)
         /\ IsInjective(f.seen.tabs) => IsInjective(Reverse(f.seen.tabs))
    BY <2>0, ReverseFacts
  <2>2. /\ new \in WorkspaceRow /\ new.tabs = Reverse(f.seen.tabs) /\ new.pinned = f.seen.pinned
        /\ new.active = w.active
    BY <2>0, <2>00, <2>1 DEF WorkspaceRow
  <2>20. read \in WorkspaceRow /\ read.tabs = f.seen.tabs /\ read.pinned = f.seen.pinned
    BY <2>0, <2>1 DEF WorkspaceRow
  <2>4. Goto(p, [at |-> "writeBack", ws |-> f.ws, read |-> read, new |-> new])
    BY <1>1, <1>w, <1>4 DEF UpdateTabIds
  <2>5. UNCHANGED <<rows, result, told, calls, overlap, stale>>
    BY <1>1, <1>w, <1>4 DEF UpdateTabIds
  <2> HIDE DEF new, read
  <2>3. OnceRow(read) => OnceRow(new) /\ Listed(new) = Listed(read)
    BY <2>00, <2>2, <2>20 DEF OnceRow, Listed
  <2> QED
    BY <1>1, <1>2, <1>f, <1>w, <2>1, <2>2, <2>20, <2>3, <2>4, <2>5, ReadThenWrite
<1> QED
  BY <1>3, <1>4

\* A tab moves from one list of its workspace to the other.
LEMMA PinFacts ==
    ASSUME NEW w \in WorkspaceRow, NEW t \in Tab
    PROVE  /\ t \in ToSet(w.tabs) =>
                /\ Pin(w, t) \in WorkspaceRow /\ Pin(w, t).active = w.active
                /\ OnceRow(w) => OnceRow(Pin(w, t)) /\ Listed(Pin(w, t)) = Listed(w)
           /\ t \in ToSet(w.pinned) =>
                /\ Unpin(w, t) \in WorkspaceRow /\ Unpin(w, t).active = w.active
                /\ OnceRow(w) => OnceRow(Unpin(w, t)) /\ Listed(Unpin(w, t)) = Listed(w)
<1>1. w.tabs \in Seq(Tab) /\ w.pinned \in Seq(Tab)
  BY DEF WorkspaceRow
<1>2. ASSUME t \in ToSet(w.tabs)
      PROVE  /\ Pin(w, t) \in WorkspaceRow /\ Pin(w, t).active = w.active
             /\ OnceRow(w) => OnceRow(Pin(w, t)) /\ Listed(Pin(w, t)) = Listed(w)
  <2>1. /\ RemoveFirst(w.tabs, t) \in Seq(Tab) /\ Append(w.pinned, t) \in Seq(Tab)
        /\ IsInjective(w.tabs) => /\ IsInjective(RemoveFirst(w.tabs, t))
                                  /\ ToSet(RemoveFirst(w.tabs, t)) = ToSet(w.tabs) \ {t}
        /\ ToSet(Append(w.pinned, t)) = ToSet(w.pinned) \cup {t}
        /\ IsInjective(w.pinned) /\ t \notin ToSet(w.pinned) => IsInjective(Append(w.pinned, t))
    BY <1>1, RemoveFirstFacts, AppendFacts
  <2>2. /\ Pin(w, t) \in WorkspaceRow /\ Pin(w, t).active = w.active
        /\ Pin(w, t).tabs = RemoveFirst(w.tabs, t) /\ Pin(w, t).pinned = Append(w.pinned, t)
    BY <2>1 DEF Pin, WorkspaceRow
  <2> QED
    BY <1>2, <2>1, <2>2 DEF OnceRow, Listed
<1>3. ASSUME t \in ToSet(w.pinned)
      PROVE  /\ Unpin(w, t) \in WorkspaceRow /\ Unpin(w, t).active = w.active
             /\ OnceRow(w) => OnceRow(Unpin(w, t)) /\ Listed(Unpin(w, t)) = Listed(w)
  <2>1. /\ RemoveFirst(w.pinned, t) \in Seq(Tab) /\ <<t>> \o w.tabs \in Seq(Tab)
        /\ IsInjective(w.pinned) => /\ IsInjective(RemoveFirst(w.pinned, t))
                                    /\ ToSet(RemoveFirst(w.pinned, t)) = ToSet(w.pinned) \ {t}
        /\ ToSet(<<t>> \o w.tabs) = ToSet(w.tabs) \cup {t}
        /\ IsInjective(w.tabs) /\ t \notin ToSet(w.tabs) => IsInjective(<<t>> \o w.tabs)
    BY <1>1, RemoveFirstFacts, PrependFacts
  <2>2. /\ Unpin(w, t) \in WorkspaceRow /\ Unpin(w, t).active = w.active
        /\ Unpin(w, t).pinned = RemoveFirst(w.pinned, t) /\ Unpin(w, t).tabs = <<t>> \o w.tabs
    BY <2>1 DEF Unpin, WorkspaceRow
  <2> QED
    BY <1>3, <2>1, <2>2 DEF OnceRow, Listed
<1> QED
  BY <1>2, <1>3

LEMMA ChangeTabPinningKeeps == ASSUME IInv, NEW p \in Call, ChangeTabPinning(p) PROVE IInv'
<1>f. PICK f : f = Top(p)
  OBVIOUS
<1>0. At(p, "ChangeTabPinning")
  BY DEF ChangeTabPinning
<1>1. /\ TypeInv /\ stack[p] # <<>> /\ f = Head(stack[p]) /\ f \in FrameOf("ChangeTabPinning")
      /\ f.at = "ChangeTabPinning"
  BY <1>0, <1>f, AtFacts
<1>2. f.ws \in Workspace /\ f.tab \in Tab /\ f.pin \in BOOLEAN
  BY <1>1 DEF FrameOf
<1>w. PICK w : w = workspaces[f.ws]
  OBVIOUS
<1>3. CASE w = NoOid \/ (f.pin /\ f.tab \notin Listed(w))
  <2>1. QuietTurn(p) /\ Ends(p)
    BY <1>1, <1>w, <1>3, ReturnTurns DEF ChangeTabPinning
  <2> QED
    BY <1>1, <1>f, <2>1, QuietRows DEF ChangeTabPinning
<1>4. CASE ~(w = NoOid \/ (f.pin /\ f.tab \notin Listed(w)))
  <2>1. w \in WorkspaceRow
    BY <1>1, <1>2, <1>w, <1>4, RowTypes
  <2> DEFINE pinned == f.tab \in ToSet(w.pinned)
             new == CASE f.pin /\ ~pinned -> Pin(w, f.tab)
                      [] ~f.pin /\ pinned -> Unpin(w, f.tab)
                      [] OTHER -> w
  <2>4. Goto(p, [at |-> "writeBack", ws |-> f.ws, read |-> w, new |-> new])
    BY <1>1, <1>w, <1>4 DEF ChangeTabPinning
  <2>5. UNCHANGED <<rows, result, told, calls, overlap, stale>>
    BY <1>1, <1>w, <1>4 DEF ChangeTabPinning
  <2>2. /\ new \in WorkspaceRow /\ new.active = w.active
        /\ OnceRow(w) => OnceRow(new) /\ Listed(new) = Listed(w)
    <3>1. CASE f.pin /\ ~pinned
      <4>1. f.tab \in ToSet(w.tabs) /\ new = Pin(w, f.tab)
        BY <1>4, <3>1 DEF Listed
      <4> QED
        BY <1>2, <2>1, <4>1, PinFacts
    <3>2. CASE ~f.pin /\ pinned
      <4>1. f.tab \in ToSet(w.pinned) /\ new = Unpin(w, f.tab)
        BY <3>2
      <4> QED
        BY <1>2, <2>1, <4>1, PinFacts
    <3>3. CASE ~(f.pin /\ ~pinned) /\ ~(~f.pin /\ pinned)
      <4>1. new = w
        BY <1>2, <3>3
      <4> QED
        BY <2>1, <4>1
    <3> QED
      BY <3>1, <3>2, <3>3
  <2> HIDE DEF new
  <2> QED
    BY <1>1, <1>2, <1>f, <1>w, <2>1, <2>2, <2>4, <2>5, ReadThenWrite
<1> QED
  BY <1>3, <1>4

-----------------------------------------------------------------------------
(* New workspaces and tabs: their ids are taken                            *)

LEMMA FreshFacts ==
    ASSUME NEW ids, Unused(ids) # {}
    PROVE  Fresh(ids) \in ids /\ Fresh(ids) \notin made
BY DEF Fresh, Unused

\* The workspace that g is to make is the one that f was to make.
LEMMA SameWs ==
    ASSUME CallsInv, NEW p \in Call, NEW f, f = Top(p), MakesWs(f),
           NEW g, MakesWs(g), g.ws = f.ws
    PROVE  /\ workspaces[g.ws] = NoOid
           /\ \A q \in Call \ {p} : ApartInv(g, Top(q)) /\ ApartInv(Top(q), g)
<1>1. g.at \notin Lists \cup {"DeleteTab:delete"}
  BY DEF MakesWs, Lists
<1>2. workspaces[f.ws] = NoOid
  BY DEF CallsInv, TopInv
<1>3. \A q \in Call \ {p} : ApartInv(f, Top(q)) /\ ApartInv(Top(q), f)
  BY DEF CallsInv
<1> QED
  BY <1>1, <1>2, <1>3 DEF ApartInv

LEMMA MoveBlockToNewWindowKeeps == ASSUME IInv, NEW p \in Call, MoveBlockToNewWindow(p) PROVE IInv'
<1>f. PICK f : f = Top(p)
  OBVIOUS
<1>0. At(p, "MoveBlockToNewWindow")
  BY DEF MoveBlockToNewWindow
<1>1. /\ TypeInv /\ stack[p] # <<>> /\ f = Head(stack[p]) /\ f \in FrameOf("MoveBlockToNewWindow")
      /\ f.at = "MoveBlockToNewWindow" /\ (~stale => RowsInv /\ CallsInv /\ RowInv(f))
  BY <1>0, <1>f, AtFacts
<1>2. f.ws \in Workspace /\ f.window \in Window /\ f.tab \in Tab /\ f.block \in Block
  BY <1>1 DEF FrameOf
<1>3. CASE tabs[f.tab] = NoOid \/ f.block \notin ToSet(tabs[f.tab])
  <2>1. QuietTurn(p) /\ Ends(p)
    BY <1>1, <1>3, ReturnTurns DEF MoveBlockToNewWindow
  <2> QED
    BY <1>1, <1>f, <2>1, QuietRows DEF MoveBlockToNewWindow
<1>4. CASE ~(tabs[f.tab] = NoOid \/ f.block \notin ToSet(tabs[f.tab]))
  <2> DEFINE g == [at |-> "CreateWindow", window |-> f.window, ws |-> f.ws, new |-> TRUE]
             h == [f EXCEPT !.at = "newWorkspace"]
  <2>1. g \in FrameOf("CreateWindow") /\ h \in FrameOf("newWorkspace")
    BY <1>1, <1>2 DEF FrameOf
  <2>2. h.at = "newWorkspace" /\ h.tab = f.tab /\ h.ws = f.ws
    BY <1>1 DEF FrameOf
  <2>3. CallThen(p, g, h) /\ UNCHANGED result
    BY <1>1, <1>4 DEF MoveBlockToNewWindow
  <2>4. g.at = "CreateWindow" /\ g.ws = f.ws /\ g.new /\ MakesWs(g) /\ g.window = f.window
    BY DEF MakesWs
  <2> HIDE DEF g, h
  <2>5. Leads(p, g, {h})
    BY <1>1, <2>1, <2>2, <2>3, CallThenLeads, InFrame DEF Waits
  <2>6. ASSUME ~stale PROVE NewTop(p, g, {h})
    <3>0. UNCHANGED <<workspaces, tabs, made>>
      BY DEF MoveBlockToNewWindow, rows
    <3>1. /\ workspaces[g.ws] = NoOid
          /\ \A q \in Call \ {p} : ApartInv(g, Top(q)) /\ ApartInv(Top(q), g)
      BY <1>1, <1>f, <2>4, <2>6, SameWs DEF MakesWs
    <3>2. TopInv(g)'
      BY <2>4, <3>0, <3>1 DEF TopInv
    <3>3. RowInv(g)' /\ RowInv(h)'
      BY <1>1, <2>2, <2>4, <2>6, <3>0
         DEF RowInv, MadeFrame, Deletes, Lists, Moves, WithWs, NewWindows
    <3>4. \A q \in Call \ {p} : PairInv(Top(q), g) /\ PairInv(Top(q), h)
      <4>1. \A q \in Call \ {p} : PairInv(Top(q), f)
        BY <1>1, <1>f, <2>6 DEF CallsInv, FramesOf
      <4> QED
        BY <1>1, <2>2, <2>4, <4>1 DEF PairInv, Deletes, Moves
    <3>5. \A x : PairInv(g, x)
      BY <2>4 DEF PairInv, Lists, Activates
    <3> QED
      BY <3>1, <3>2, <3>3, <3>4, <3>5 DEF NewTop
  <2> QED
    BY <1>1, <1>f, <2>3, <2>5, <2>6, StackStep DEF MoveBlockToNewWindow, rows, Ends, TypeInv
<1> QED
  BY <1>3, <1>4

LEMMA CreateWindowKeeps == ASSUME IInv, NEW p \in Call, CreateWindow(p) PROVE IInv'
<1>f. PICK f : f = Top(p)
  OBVIOUS
<1>0. At(p, "CreateWindow")
  BY DEF CreateWindow
<1>1. /\ TypeInv /\ stack[p] # <<>> /\ f = Head(stack[p]) /\ f \in FrameOf("CreateWindow")
      /\ f.at = "CreateWindow" /\ (~stale => RowsInv /\ CallsInv /\ RowInv(f)) /\ OkWs(f)
  BY <1>0, <1>f, AtFacts
<1>2. f.ws \in Workspace /\ f.window \in Window
  BY <1>1 DEF FrameOf
<1> DEFINE h == [at |-> "CreateWindow:insert", window |-> f.window, ws |-> f.ws]
<1>3. h \in FrameOf("CreateWindow:insert") /\ h.at = "CreateWindow:insert" /\ OkWs(h)
  BY <1>1, <1>2 DEF FrameOf, OkWs, WithWs, NewWindows
<1>4. QuietFrame(h)
  BY <1>3, QuietAt DEF Lists, Deletes, Moves, Activates
<1>5. CASE f.new
  <2> DEFINE g == [at |-> "CreateWorkspace", ws |-> f.ws, named |-> FALSE]
  <2>1. g \in FrameOf("CreateWorkspace")
    BY <1>2 DEF FrameOf
  <2>2. CallThen(p, g, h) /\ UNCHANGED result
    BY <1>1, <1>5 DEF CreateWindow
  <2>3. g.at = "CreateWorkspace" /\ g.ws = f.ws /\ MakesWs(g)
    BY DEF MakesWs
  <2> HIDE DEF g, h
  <2>4. Leads(p, g, {h})
    BY <1>1, <1>3, <2>1, <2>2, CallThenLeads, InFrame DEF Waits
  <2>5. ASSUME ~stale PROVE NewTop(p, g, {h})
    <3>0. UNCHANGED <<workspaces, tabs, made>>
      BY DEF CreateWindow, rows
    <3>1. /\ workspaces[g.ws] = NoOid
          /\ \A q \in Call \ {p} : ApartInv(g, Top(q)) /\ ApartInv(Top(q), g)
      BY <1>1, <1>f, <1>5, <2>3, <2>5, SameWs DEF MakesWs
    <3>2. TopInv(g)'
      BY <2>3, <3>0, <3>1 DEF TopInv
    <3>3. RowInv(g)'
      BY <1>1, <2>3, <2>5, <3>0
         DEF RowInv, MadeFrame, Deletes, Lists, Moves, WithWs, NewWindows
    <3>4. RowInv(h)' /\ \A x : PairInv(x, h)
      BY <1>3, <1>4, <2>5, <3>0, QuietFacts
         DEF QuietFrame, OkWs, MadeFrame, Deletes, Lists, Moves
    <3>5. \A x : PairInv(g, x) /\ PairInv(x, g)
      BY <2>3 DEF PairInv, Lists, Activates, Deletes, Moves
    <3> QED
      BY <3>1, <3>2, <3>3, <3>4, <3>5 DEF NewTop
  <2> QED
    BY <1>1, <1>f, <2>2, <2>4, <2>5, StackStep DEF CreateWindow, rows, Ends, TypeInv
<1>6. CASE ~f.new /\ workspaces[f.ws] = NoOid
  <2>1. QuietTurn(p) /\ Ends(p)
    BY <1>1, <1>6, ReturnTurns DEF CreateWindow
  <2> QED
    BY <1>1, <1>f, <2>1, QuietRows DEF CreateWindow
<1>7. CASE ~f.new /\ workspaces[f.ws] # NoOid
  <2>1. Goto(p, h) /\ result' = [result EXCEPT ![p] = "ok"]
    BY <1>1, <1>7 DEF CreateWindow
  <2> HIDE DEF h
  <2>2. QuietTurn(p) /\ Ends(p)
    BY <1>4, <2>1 DEF QuietTurn, Ends
  <2> QED
    BY <1>1, <1>f, <2>2, QuietRows DEF CreateWindow
<1> QED
  BY <1>5, <1>6, <1>7

LEMMA ReadNewWorkspaceKeeps == ASSUME IInv, NEW p \in Call, ReadNewWorkspace(p) PROVE IInv'
<1>f. PICK f : f = Top(p)
  OBVIOUS
<1>0. At(p, "newWorkspace")
  BY DEF ReadNewWorkspace
<1>1. /\ TypeInv /\ stack[p] # <<>> /\ f = Head(stack[p]) /\ f \in FrameOf("newWorkspace")
      /\ f.at = "newWorkspace" /\ (~stale => RowsInv /\ CallsInv /\ RowInv(f))
  BY <1>0, <1>f, AtFacts
<1>2. f.ws \in Workspace /\ f.tab \in Tab /\ f.block \in Block
  BY <1>1 DEF FrameOf
<1>w. PICK w : w = workspaces[f.ws]
  OBVIOUS
<1>3. CASE Failed(p) \/ windows[f.window] = NoOid \/ w = NoOid
  <2>1. QuietTurn(p) /\ Ends(p)
    BY <1>1, <1>3, <1>w, ReturnTurns DEF ReadNewWorkspace
  <2> QED
    BY <1>1, <1>f, <2>1, QuietRows DEF ReadNewWorkspace
<1>4. CASE ~(Failed(p) \/ windows[f.window] = NoOid \/ w = NoOid)
  <2> DEFINE g == [at |-> "MoveBlockToTab", tab |-> f.tab, block |-> f.block, to |-> w.active]
  <2>1. g \in FrameOf("MoveBlockToTab")
    <3>1. w \in WorkspaceRow
      BY <1>1, <1>2, <1>w, <1>4, RowTypes
    <3> QED
      BY <1>2, <3>1 DEF FrameOf, WorkspaceRow
  <2>2. Goto(p, g) /\ UNCHANGED result
    BY <1>1, <1>4, <1>w DEF ReadNewWorkspace
  <2>3. ASSUME ~stale PROVE NewTop(p, g, {})
    <3>1. TopInv(g)'
      BY <1>1, <1>4, <1>w, <2>3 DEF TopInv, MakesWs, RowInv, Moves
    <3>2. RowInv(g)'
      BY DEF RowInv, MadeFrame, Deletes, Lists, Moves, WithWs, NewWindows
    <3>3. \A x : PairInv(x, g)
      BY DEF PairInv, Deletes, Moves
    <3> QED
      BY <3>1, <3>2, <3>3, PassiveTop DEF Lists, Activates, MakesWs
  <2>4. Ends(p)
    BY <2>2 DEF Ends
  <2> QED
    BY <1>1, <1>f, <2>1, <2>2, <2>3, <2>4, InFrame, GotoStep DEF ReadNewWorkspace
<1> QED
  BY <1>3, <1>4

LEMMA CreateTabObjKeeps == ASSUME IInv, NEW p \in Call, CreateTabObj(p) PROVE IInv'
<1>f. PICK f : f = Top(p)
  OBVIOUS
<1>0. At(p, "createTabObj")
  BY DEF CreateTabObj
<1>1. /\ TypeInv /\ stack[p] # <<>> /\ f = Head(stack[p]) /\ f \in FrameOf("createTabObj")
      /\ f.at = "createTabObj" /\ (~stale => RowsInv /\ CallsInv /\ RowInv(f))
  BY <1>0, <1>f, AtFacts
<1>2. f.ws \in Workspace /\ f.pinned \in BOOLEAN /\ f.activate \in BOOLEAN
  BY <1>1 DEF FrameOf
<1>w. PICK w : w = workspaces[f.ws]
  OBVIOUS
<1>t. PICK t : t = Fresh(Tab)
  OBVIOUS
<1>3. CASE w = NoOid
  <2>1. QuietTurn(p) /\ Ends(p)
    BY <1>1, <1>3, <1>w, ReturnTurns DEF CreateTabObj
  <2> QED
    BY <1>1, <1>3, <1>w, <1>f, <2>1, QuietRows DEF CreateTabObj, rows
<1>4. CASE w # NoOid
  <2> DEFINE g == [at |-> "createTabObj:insert", ws |-> f.ws, tab |-> t,
                   pinned |-> f.pinned, activate |-> f.activate, read |-> w]
  <2>0. t \in Tab /\ t \notin made
    BY <1>t, FreshFacts DEF CreateTabObj
  <2>1. g \in FrameOf("createTabObj:insert")
    <3>1. w \in WorkspaceRow
      BY <1>1, <1>2, <1>w, <1>4, RowTypes
    <3> QED
      BY <1>2, <2>0, <3>1 DEF FrameOf
  <2>2. Goto(p, g) /\ UNCHANGED result /\ made' = made \cup {t}
    BY <1>1, <1>4, <1>w, <1>t DEF CreateTabObj
  <2>3. Leads(p, g, {})
    BY <1>1, <2>1, <2>2, InFrame, GotoLeads
  <2>4. ASSUME ~stale PROVE NewTop(p, g, {})
    <3>1. TopInv(g)'
      <4>1. tabs[t] = NoOid
        BY <1>1, <2>0, <2>4, RowTypes DEF RowsInv, MadeInv, Existing
      <4> QED
        BY <4>1 DEF CreateTabObj, TopInv, MakesWs
    <3>2. RowInv(g)'
      BY <1>1, <2>2, <2>4 DEF RowInv, MadeFrame, Deletes, Lists, Moves, WithWs, NewWindows
    <3>3. \A x : PairInv(x, g)
      BY DEF PairInv, Deletes, Moves
    <3>4. ASSUME NEW q \in Call, NEW x \in FramesOf(q)
          PROVE  PairInv(g, x) /\ ApartInv(g, x) /\ ApartInv(x, g)
      <4>1. x.at \in Deletes \cup Lists \cup Moves => x.tab # t
        BY <1>1, <2>0, <2>4 DEF CallsInv, RowInv, MadeFrame
      <4> QED
        BY <4>1 DEF PairInv, ApartInv, MakesWs, Lists, Activates
    <3>5. PairInv(g, g)
      BY <3>3
    <3>6. \A q \in Call : Top(q) \in FramesOf(q)
      BY DEF FramesOf
    <3> QED
      BY <3>1, <3>2, <3>3, <3>4, <3>5, <3>6 DEF NewTop
  <2> QED
    BY <1>1, <1>f, <2>0, <2>2, <2>3, <2>4, StackStep DEF CreateTabObj, Ends, TypeInv
<1> QED
  BY <1>3, <1>4

-----------------------------------------------------------------------------
(* Workspaces are written                                                  *)

LEMMA TypeStep ==
    ASSUME TypeInv, NEW p \in Call, NEW g, NEW H, Leads(p, g, H), Ends(p), Typed(graph)',
           told' \subseteq Window, UNCHANGED <<calls, overlap>>, stale' \in BOOLEAN,
           made' \subseteq Workspace \cup Tab \cup Block \cup Window
    PROVE  TypeInv'
BY EndsTypes DEF TypeInv, TypeOK, Leads

LEMMA TypedWorkspaces ==
    ASSUME TypeInv, NEW ws \in Workspace, NEW r \in WorkspaceRow \cup {NoOid},
           workspaces' = [workspaces EXCEPT ![ws] = r],
           UNCHANGED <<tabs, layouts, blocks, windows, client>>
    PROVE  /\ Typed(graph)' /\ workspaces'[ws] = r
           /\ \A w \in Workspace \ {ws} : workspaces'[w] = workspaces[w]
<1>1. /\ workspaces'[ws] = r /\ DOMAIN workspaces' = Workspace
      /\ \A w \in Workspace \ {ws} : workspaces'[w] = workspaces[w]
  BY RowTypes
<1>2. \A w \in Workspace : workspaces'[w] = NoOid \/ workspaces'[w] \in WorkspaceRow
  BY <1>1, RowTypes
<1>3. Typed(graph)'
  BY <1>1, <1>2, RowTypes DEF Typed, graph
<1> QED
  BY <1>1, <1>3

\* The rows of the workspace ws give way to r: what the others keep.
LEMMA WorkspacesStep ==
    ASSUME TypeInv, RowsInv, NEW ws \in Workspace, NEW r \in WorkspaceRow \cup {NoOid},
           workspaces' = [workspaces EXCEPT ![ws] = r],
           UNCHANGED <<tabs, layouts, blocks, windows, client, made>>, ws \in made,
           r # NoOid => /\ OnceRow(r) /\ Listed(r) \subseteq Existing(tabs)
                        /\ \A v \in Existing(workspaces) \ {ws} :
                              Listed(workspaces[v]) \cap Listed(r) = {}
    PROVE  MadeInv' /\ NoDangling(graph)' /\ ListedOnce(graph)'
<1>1. /\ workspaces'[ws] = r
      /\ \A w \in Workspace \ {ws} : workspaces'[w] = workspaces[w]
  BY TypedWorkspaces
<1>2. Existing(workspaces)' \subseteq Workspace
  BY TypedWorkspaces DEF Typed, graph, Existing
<1>3. \A w \in Existing(workspaces)' :
         \/ w = ws /\ r # NoOid /\ workspaces'[w] = r
         \/ w \in Existing(workspaces) \ {ws} /\ workspaces'[w] = workspaces[w]
  BY <1>1, <1>2, RowTypes DEF Existing
<1>4. MadeInv'
  BY <1>3 DEF RowsInv, MadeInv, Existing
<1>5. NoDangling(graph)'
  BY <1>3 DEF RowsInv, NoDangling, graph, Existing, ListedBy
<1>6. ListedOnce(graph)'
  <2>1. \A w \in Existing(workspaces)' : OnceRow(workspaces'[w])
    BY <1>3 DEF RowsInv, ListedOnce, graph, OnceRow
  <2>2. \A w \in Existing(workspaces)' : \A v \in Existing(workspaces)' \ {w} :
           Listed(workspaces'[v]) \cap Listed(workspaces'[w]) = {}
    <3>1. \A w \in Existing(workspaces) : \A v \in Existing(workspaces) \ {w} :
             Listed(workspaces[v]) \cap Listed(workspaces[w]) = {}
      BY DEF RowsInv, ListedOnce, graph
    <3> QED
      BY <1>3, <3>1
  <2>3. \A o \in Existing(tabs)' \cup Existing(blocks)' : IsInjective(ListedBy(graph, o))'
    BY DEF RowsInv, ListedOnce, graph, Existing, ListedBy
  <2> QED
    BY <2>1, <2>2, <2>3 DEF ListedOnce, graph, OnceRow
<1> QED
  BY <1>4, <1>5, <1>6

\* What the calls keep when the row of the workspace ws changes but does not
\* come or go.
LEMMA WorkspaceCalls ==
    ASSUME TypeInv, CallsInv, NEW ws \in Workspace, workspaces[ws] # NoOid,
           workspaces'[ws] # NoOid, DOMAIN workspaces' = Workspace,
           \A v \in Workspace \ {ws} : workspaces'[v] = workspaces[v],
           UNCHANGED <<tabs, made>>, NEW p \in Call,
           \A q \in Call \ {p} : Top(q).at \in {"createTabObj:list", "DeleteTab:delete"}
              => Top(q).tab \notin Listed(workspaces'[ws]) \ Listed(workspaces[ws]),
           \A q \in Call : \A f \in FramesOf(q) : f.at \in Moves /\ f.ws = ws
              => f.tab \notin Listed(workspaces'[ws]) /\ workspaces'[ws].active # f.tab
    PROVE  /\ \A q \in Call \ {p} : \A f \in {Top(q)} : TopInv(f)'
           /\ \A q \in Call : \A f \in FramesOf(q) : RowInv(f)'
<1>3. Existing(workspaces)' = Existing(workspaces)
  BY RowTypes DEF Existing
<1>4. \A x : x \notin Listed(workspaces'[ws]) \ Listed(workspaces[ws]) /\ Unlisted(x) => Unlisted(x)'
  BY <1>3, RowTypes DEF Unlisted
<1>5. ASSUME NEW q \in Call \ {p}, NEW f \in {Top(q)} PROVE TopInv(f)'
  <2>0. f \in Frame \cup {NoFrame}
    BY FramesFacts DEF FramesOf
  <2>1. TopInv(f)
    BY <1>5 DEF CallsInv
  <2>2. f.at \in {"createTabObj:list", "DeleteTab:delete"} => Unlisted(f.tab)'
    BY <1>4, <2>1 DEF TopInv
  <2>3. MakesWs(f) => f.ws \in Workspace
    BY <2>0, FrameIs, NoFrameFacts DEF MakesWs, FrameOf
  <2>4. MakesWs(f) => workspaces'[f.ws] = NoOid
    BY <2>1, <2>3 DEF TopInv
  <2> QED
    BY <2>1, <2>2, <2>4 DEF TopInv, MakesWs
<1>6. ASSUME NEW q \in Call, NEW f \in FramesOf(q) PROVE RowInv(f)'
  <2>0. f \in Frame \cup {NoFrame}
    BY FramesFacts
  <2>1. RowInv(f)
    BY <1>6 DEF CallsInv
  <2>2. f.at \in Moves => f.ws \in Workspace
    BY <2>0, FrameIs, NoFrameFacts DEF Moves, FrameOf
  <2>3. f.at \in Moves /\ workspaces'[f.ws] # NoOid =>
           f.tab \notin Listed(workspaces'[f.ws]) /\ workspaces'[f.ws].active # f.tab
    BY <1>6, <2>1, <2>2 DEF RowInv
  <2> QED
    BY <2>1, <2>3 DEF RowInv, MadeFrame
<1> QED
  BY <1>5, <1>6

LEMMA WriteBackKeeps == ASSUME IInv, NEW p \in Call, WriteBack(p) PROVE IInv'
<1>f. PICK f : f = Top(p)
  OBVIOUS
<1>0. At(p, "writeBack")
  BY DEF WriteBack
<1>1. /\ TypeInv /\ stack[p] # <<>> /\ f = Head(stack[p]) /\ f \in FrameOf("writeBack")
      /\ f.at = "writeBack" /\ (~stale => RowsInv /\ CallsInv /\ RowInv(f) /\ TopInv(f))
  BY <1>0, <1>f, AtFacts
<1>2. f.ws \in Workspace /\ f.read \in WorkspaceRow /\ f.new \in WorkspaceRow
  BY <1>1 DEF FrameOf
<1>w. PICK w : w = workspaces[f.ws]
  OBVIOUS
<1>3. /\ workspaces' = [workspaces EXCEPT ![f.ws] = IF w = NoOid THEN NoOid ELSE f.new]
      /\ stale' = (stale \/ w # f.read)
  BY <1>1, <1>w DEF WriteBack, UpdateWorkspaceRow
<1>4. PICK g \in Under(p) \cup {NoFrame} : Leads(p, g, {})
  BY <1>1, ReturnLeads DEF WriteBack, Return
<1>5. TypeInv'
  <2>1. Typed(graph)'
    BY <1>1, <1>2, <1>3, TypedWorkspaces DEF WriteBack
  <2>2. Ends(p) /\ stale' \in BOOLEAN /\ told' \subseteq Window
        /\ made' \subseteq Workspace \cup Tab \cup Block \cup Window
    BY <1>1, <1>3, ReturnTurns DEF WriteBack, TypeInv, TypeOK
  <2> QED
    BY <1>1, <1>4, <2>1, <2>2, TypeStep DEF WriteBack
<1>6. ASSUME ~stale' PROVE RowsInv' /\ CallsInv'
  <2>1. ~stale /\ w = f.read /\ w # NoOid /\ RowsInv /\ CallsInv
    BY <1>1, <1>2, <1>3, <1>6, CallsAssumption
  <2>2. workspaces' = [workspaces EXCEPT ![f.ws] = f.new]
    BY <1>3, <2>1
  <2>10. /\ workspaces'[f.ws] = f.new /\ f.new # NoOid /\ workspaces[f.ws] # NoOid
         /\ DOMAIN workspaces' = Workspace
         /\ \A v \in Workspace \ {f.ws} : workspaces'[v] = workspaces[v]
    BY <1>1, <1>2, <1>w, <2>1, <2>2, RowTypes, CallsAssumption
  <2>3. OnceRow(f.new) /\ Listed(f.new) = Listed(w)
    <3>1. f.ws \in Existing(workspaces)
      BY <1>1, <1>2, <1>w, <2>1, RowTypes DEF Existing
    <3>2. OnceRow(w)
      BY <1>w, <2>1, <3>1 DEF RowsInv, ListedOnce, graph, OnceRow
    <3> QED
      BY <1>1, <2>1, <3>2 DEF TopInv
  <2>4. f.ws \in made /\ f.ws \in Existing(workspaces)
    BY <1>1, <1>2, <1>w, <2>1, RowTypes DEF Existing, RowsInv, MadeInv
  <2>5. /\ Listed(f.new) \subseteq Existing(tabs)
        /\ \A v \in Existing(workspaces) \ {f.ws} : Listed(workspaces[v]) \cap Listed(f.new) = {}
    BY <1>w, <2>1, <2>3, <2>4 DEF RowsInv, NoDangling, ListedOnce, graph
  <2>6. MadeInv' /\ NoDangling(graph)' /\ ListedOnce(graph)'
    BY <1>1, <1>2, <2>1, <2>2, <2>3, <2>4, <2>5, WorkspacesStep DEF WriteBack
  <2>7. /\ \A q \in Call \ {p} : \A x \in {Top(q)} : TopInv(x)'
        /\ \A q \in Call : \A x \in FramesOf(q) : RowInv(x)'
    <3>1. ASSUME NEW q \in Call, NEW x \in FramesOf(q), x.at \in Moves, x.ws = f.ws
          PROVE  x.tab \notin Listed(f.new) /\ f.new.active # x.tab
      <4>1. RowInv(x) /\ PairInv(f, x)
        BY <1>f, <2>1 DEF CallsInv
      <4> QED
        BY <1>1, <1>w, <2>1, <2>3, <3>1, <4>1 DEF RowInv, PairInv
    <3>2. \A q \in Call : \A x \in FramesOf(q) : x.at \in Moves /\ x.ws = f.ws
             => x.tab \notin Listed(workspaces'[f.ws]) /\ workspaces'[f.ws].active # x.tab
      BY <2>10, <3>1
    <3>3. Listed(workspaces'[f.ws]) \ Listed(workspaces[f.ws]) = {}
      BY <1>w, <2>3, <2>10
    <3>5. UNCHANGED <<tabs, made>>
      BY DEF WriteBack
    <3> QED
      BY <1>1, <1>2, <2>1, <2>10, <3>2, <3>3, <3>5, WorkspaceCalls
  <2>8. CallsInv'
    BY <1>1, <1>4, <2>1, <2>7, CallsReturn
  <2>9. OrphansInv'
    <3>1. Existing(workspaces)' = Existing(workspaces)
      BY <1>1, <2>10, RowTypes DEF Existing
    <3>2. \A t : Unlisted(t)' <=> Unlisted(t)
      BY <1>1, <1>w, <2>3, <2>10, <3>1, RowTypes DEF Unlisted
    <3> QED
      BY <1>1, <1>4, <1>f, <2>1, <3>2, OrphansListed DEF WriteBack, RowsInv
  <2> QED
    BY <2>6, <2>8, <2>9 DEF RowsInv
<1> QED
  BY <1>5, <1>6 DEF IInv

\* Which tabs and layouts are orphans when p goes on with g.
LEMMA OrphansStep ==
    ASSUME OrphansInv, NEW p \in Call, NEW g, NEW H, Leads(p, g, H),
           \A t \in Existing(tabs)' : Unlisted(t)' =>
              \/ g.at \in {"createTabObj:list", "DeleteTab:delete"} /\ g.tab = t
              \/ /\ t \in Existing(tabs) /\ Unlisted(t)
                 /\ ~(Top(p).at \in {"createTabObj:list", "DeleteTab:delete"} /\ Top(p).tab = t),
           \A t \in layouts' : tabs'[t] = NoOid =>
              \/ g.at = "DeleteTab:layout" /\ g.tab = t
              \/ t \in layouts /\ tabs[t] = NoOid /\ ~(Top(p).at = "DeleteTab:layout" /\ Top(p).tab = t),
           Existing(tabs)' \subseteq layouts',
           \A b \in Existing(blocks)' : Exists(blocks[b].parent)'
                                        /\ b \in ToSet(ChildrenOf(blocks[b].parent))'
    PROVE  OrphansInv'
<1>1. (\A q \in Call \ {p} : Top(q)' = Top(q)) /\ Top(p)' = g
  BY DEF Leads, Top
<1>2. ASSUME NEW t \in Existing(tabs)', Unlisted(t)'
      PROVE  \E q \in Call : /\ Top(q)'.at \in {"createTabObj:list", "DeleteTab:delete"}
                              /\ Top(q)'.tab = t
  <2>1. CASE g.at \in {"createTabObj:list", "DeleteTab:delete"} /\ g.tab = t
    BY <1>1, <2>1
  <2>2. CASE /\ t \in Existing(tabs) /\ Unlisted(t)
             /\ ~(Top(p).at \in {"createTabObj:list", "DeleteTab:delete"} /\ Top(p).tab = t)
    <3>1. PICK q \in Call : /\ Top(q).at \in {"createTabObj:list", "DeleteTab:delete"}
                            /\ Top(q).tab = t
      BY <2>2 DEF OrphansInv
    <3> QED
      BY <1>1, <2>2, <3>1
  <2> QED
    BY <1>2, <2>1, <2>2
<1>3. ASSUME NEW t \in layouts', tabs'[t] = NoOid
      PROVE  \E q \in Call : Top(q)'.at = "DeleteTab:layout" /\ Top(q)'.tab = t
  <2>1. CASE g.at = "DeleteTab:layout" /\ g.tab = t
    BY <1>1, <2>1
  <2>2. CASE t \in layouts /\ tabs[t] = NoOid
             /\ ~(Top(p).at = "DeleteTab:layout" /\ Top(p).tab = t)
    <3>1. PICK q \in Call : Top(q).at = "DeleteTab:layout" /\ Top(q).tab = t
      BY <2>2 DEF OrphansInv
    <3> QED
      BY <1>1, <2>2, <3>1
  <2> QED
    BY <1>3, <2>1, <2>2
<1> QED
  BY <1>2, <1>3 DEF OrphansInv

\* A workspace without the tab t, and the tab that is then active.
LEMMA WithoutFacts ==
    ASSUME NEW w \in WorkspaceRow, NEW t \in Tab
    PROVE  LET r == [Without(w, t) EXCEPT !.active = NewActive(w, t)]
           IN /\ r \in WorkspaceRow /\ r.active = NewActive(w, t)
              /\ r.active \in Listed(w) \cup {NoOid, w.active}
              /\ r.active \in Listed(r) \cup {NoOid} \/ (w.active # t /\ r.active = w.active)
              /\ OnceRow(w) => OnceRow(r) /\ Listed(r) = Listed(w) \ {t}
<1> DEFINE left == Without(w, t)
           idx == SelectInSeq(w.tabs, LAMBDA x : x = t)
<1>1. /\ w.tabs \in Seq(Tab) /\ w.pinned \in Seq(Tab) /\ w.active \in Tab \cup {NoOid}
      /\ w.named \in BOOLEAN
  BY DEF WorkspaceRow
<1>2. /\ left \in WorkspaceRow /\ left.active = w.active
      /\ left.tabs = IF t \in ToSet(w.tabs) THEN RemoveFirst(w.tabs, t) ELSE w.tabs
      /\ left.pinned = IF t \in ToSet(w.tabs) THEN w.pinned ELSE RemoveFirst(w.pinned, t)
  <2>1. RemoveFirst(w.tabs, t) \in Seq(Tab) /\ RemoveFirst(w.pinned, t) \in Seq(Tab)
    BY <1>1, RemoveFirstFacts
  <2> QED
    BY <1>1, <2>1 DEF Without, WorkspaceRow
<1>3. ToSet(left.tabs) \subseteq ToSet(w.tabs) /\ ToSet(left.pinned) \subseteq ToSet(w.pinned)
  BY <1>1, <1>2, RemoveFirstFacts
<1>4. left.tabs \in Seq(Tab) /\ left.pinned \in Seq(Tab)
  BY <1>2 DEF WorkspaceRow
<1>5. ASSUME left.tabs # <<>>
      PROVE  (IF idx > 1 THEN left.tabs[idx - 1] ELSE left.tabs[1]) \in ToSet(left.tabs)
  <2>1. CASE t \in ToSet(w.tabs)
    <3>1. idx \in 1 .. Len(w.tabs)
      <4> DEFINE I == {i \in 1 .. Len(w.tabs) : w.tabs[i] = t}
      <4>1. I \subseteq Nat /\ I # {}
        BY <1>1, <2>1 DEF ToSet
      <4>2. idx = Min(I)
        BY <4>1 DEF SelectInSeq
      <4> QED
        BY <4>1, <4>2, LeastOf
    <3>2. Len(left.tabs) = Len(w.tabs) - 1
      BY <1>1, <1>2, <2>1, RemoveFirstFacts
    <3>3. Len(w.tabs) \in Nat /\ Len(left.tabs) \in Nat /\ Len(left.tabs) > 0
          /\ DOMAIN left.tabs = 1 .. Len(left.tabs)
      BY <1>1, <1>4, <1>5
    <3> HIDE DEF left, idx
    <3>4. (IF idx > 1 THEN idx - 1 ELSE 1) \in DOMAIN left.tabs
      BY <3>1, <3>2, <3>3
    <3> QED
      BY <3>4 DEF ToSet
  <2>2. CASE t \notin ToSet(w.tabs)
    <3>1. idx = 0
      <4>1. {i \in 1 .. Len(w.tabs) : w.tabs[i] = t} = {}
        BY <1>1, <2>2 DEF ToSet
      <4> QED
        BY <4>1 DEF SelectInSeq
    <3>2. 1 \in DOMAIN left.tabs
      BY <1>4, <1>5
    <3> HIDE DEF left, idx
    <3> QED
      BY <3>1, <3>2 DEF ToSet
  <2> QED
    BY <2>1, <2>2
<1>6. ASSUME left.pinned # <<>> PROVE left.pinned[1] \in ToSet(left.pinned)
  BY <1>4, <1>6, TailFacts
<1>7. /\ NewActive(w, t) \in Listed(w) \cup {NoOid, w.active}
      /\ \/ NewActive(w, t) \in Listed(left) \cup {NoOid}
         \/ w.active # t /\ NewActive(w, t) = w.active
  <2>0. NewActive(w, t) =
           CASE w.active # t -> w.active
             [] w.active = t /\ left.tabs # <<>> ->
                  IF idx > 1 THEN left.tabs[idx - 1] ELSE left.tabs[1]
             [] w.active = t /\ left.tabs = <<>> /\ left.pinned # <<>> -> left.pinned[1]
             [] OTHER -> NoOid
    BY DEF NewActive
  <2> HIDE DEF left, idx
  <2> QED
    BY <1>3, <1>5, <1>6, <2>0 DEF Listed
<1>8. Listed(w) \subseteq Tab
  BY <1>1, ToSetIn DEF Listed
<1> DEFINE r == [left EXCEPT !.active = NewActive(w, t)]
<1>9. /\ r \in WorkspaceRow /\ r.active = NewActive(w, t)
      /\ r.tabs = left.tabs /\ r.pinned = left.pinned
  <2>1. NewActive(w, t) \in Tab \cup {NoOid}
    BY <1>1, <1>7, <1>8
  <2> HIDE DEF left
  <2> QED
    BY <1>2, <2>1 DEF WorkspaceRow
<1>10. ASSUME OnceRow(w) PROVE OnceRow(r) /\ Listed(r) = Listed(w) \ {t}
  <2>1. /\ t \in ToSet(w.tabs) => /\ IsInjective(left.tabs) /\ left.pinned = w.pinned
                                  /\ ToSet(left.tabs) = ToSet(w.tabs) \ {t}
        /\ t \notin ToSet(w.tabs) => /\ IsInjective(left.pinned) /\ left.tabs = w.tabs
                                     /\ ToSet(left.pinned) = ToSet(w.pinned) \ {t}
    BY <1>1, <1>2, <1>10, RemoveFirstFacts DEF OnceRow
  <2> HIDE DEF left
  <2> QED
    BY <1>9, <1>10, <2>1 DEF OnceRow, Listed
<1>11. Listed(r) = Listed(left)
  BY <1>9 DEF Listed
<1> QED
  BY <1>7, <1>9, <1>10, <1>11

LEMMA UnlistTabKeeps == ASSUME IInv, NEW p \in Call, UnlistTab(p) PROVE IInv'
<1>f. PICK f : f = Top(p)
  OBVIOUS
<1>0. At(p, "DeleteTab:blocks")
  BY DEF UnlistTab
<1>1. /\ TypeInv /\ stack[p] # <<>> /\ f = Head(stack[p]) /\ f \in FrameOf("DeleteTab:blocks")
      /\ f.at = "DeleteTab:blocks" /\ (~stale => RowsInv /\ CallsInv /\ RowInv(f))
  BY <1>0, <1>f, AtFacts
<1>2. /\ f.ws \in Workspace /\ f.read \in WorkspaceRow /\ f.tab \in Tab /\ f.found \in BOOLEAN
      /\ f.recursive \in BOOLEAN
  BY <1>1 DEF FrameOf
<1>w. PICK w : w = workspaces[f.ws]
  OBVIOUS
<1>3. CASE Failed(p)
  <2>1. QuietTurn(p) /\ Ends(p)
    BY <1>1, <1>3, ReturnTurns DEF UnlistTab
  <2> QED
    BY <1>1, <1>3, <1>f, <2>1, QuietRows DEF UnlistTab, rows
<1>4. CASE ~Failed(p)
  <2>r. PICK r : r = [Without(f.read, f.tab) EXCEPT !.active = NewActive(f.read, f.tab)]
    OBVIOUS
  <2>1. /\ r \in WorkspaceRow /\ r.active \in Listed(f.read) \cup {NoOid, f.read.active}
        /\ OnceRow(f.read) => OnceRow(r) /\ Listed(r) = Listed(f.read) \ {f.tab}
    BY <1>2, <2>r, WithoutFacts
  <2>2. /\ workspaces' = [workspaces EXCEPT ![f.ws] = IF w = NoOid THEN NoOid ELSE r]
        /\ stale' = (stale \/ w # f.read)
    BY <1>1, <1>4, <1>w, <2>r DEF UnlistTab, UpdateWorkspaceRow
  <2> DEFINE g == [at |-> "DeleteTab:delete", ws |-> f.ws, tab |-> f.tab, found |-> f.found,
                   close |-> f.recursive /\ NewActive(f.read, f.tab) = NoOid]
  <2>3. g \in Frame
    <3>1. g \in FrameOf("DeleteTab:delete")
      BY <1>2 DEF FrameOf
    <3> QED
      BY <3>1, InFrame
  <2>4. Goto(p, g) /\ UNCHANGED result
    BY <1>1, <1>4 DEF UnlistTab
  <2>5. Leads(p, g, {})
    BY <1>1, <2>3, <2>4, GotoLeads
  <2>6. g.at = "DeleteTab:delete" /\ g.ws = f.ws /\ g.tab = f.tab /\ g.found = f.found
    OBVIOUS
  <2> HIDE DEF g
  <2>7. TypeInv'
    <3>1. Typed(graph)'
      BY <1>1, <1>2, <2>1, <2>2, TypedWorkspaces DEF UnlistTab
    <3>2. Ends(p) /\ stale' \in BOOLEAN /\ told' \subseteq Window
          /\ made' \subseteq Workspace \cup Tab \cup Block \cup Window
      BY <1>1, <2>2, <2>4 DEF UnlistTab, TypeInv, TypeOK, Ends
    <3> QED
      BY <1>1, <2>5, <3>1, <3>2, TypeStep DEF UnlistTab
  <2>8. ASSUME ~stale' PROVE RowsInv' /\ CallsInv'
    <3>1. ~stale /\ w = f.read /\ w # NoOid /\ RowsInv /\ CallsInv
      BY <1>1, <1>2, <2>2, <2>8, CallsAssumption
    <3>2. workspaces' = [workspaces EXCEPT ![f.ws] = r]
      BY <2>2, <3>1
    <3>3. /\ workspaces'[f.ws] = r /\ r # NoOid /\ workspaces[f.ws] # NoOid
          /\ DOMAIN workspaces' = Workspace
          /\ \A v \in Workspace \ {f.ws} : workspaces'[v] = workspaces[v]
      BY <1>1, <1>2, <1>w, <2>1, <3>1, <3>2, RowTypes, CallsAssumption
    <3>4. f.ws \in made /\ f.ws \in Existing(workspaces)
      BY <1>1, <1>2, <1>w, <3>1, RowTypes DEF Existing, RowsInv, MadeInv
    <3>5. OnceRow(r) /\ Listed(r) = Listed(w) \ {f.tab}
      <4>1. OnceRow(w)
        BY <1>w, <3>1, <3>4 DEF RowsInv, ListedOnce, graph, OnceRow
      <4> QED
        BY <2>1, <3>1, <4>1
    <3>6. f.tab \in Listed(w) /\ ~Unlisted(f.tab) /\ tabs[f.tab] # NoOid /\ f.found
      <4>1. f.tab \in Listed(w)
        BY <1>1, <3>1 DEF RowInv
      <4>2. tabs[f.tab] # NoOid /\ ~Unlisted(f.tab)
        BY <1>1, <1>2, <1>w, <3>1, <4>1, ListedFacts
      <4> QED
        BY <1>1, <3>1, <4>1, <4>2 DEF RowInv
    <3>7. MadeInv' /\ NoDangling(graph)' /\ ListedOnce(graph)'
      <4>1. /\ Listed(r) \subseteq Existing(tabs)
            /\ \A v \in Existing(workspaces) \ {f.ws} : Listed(workspaces[v]) \cap Listed(r) = {}
        BY <1>w, <3>1, <3>4, <3>5 DEF RowsInv, NoDangling, ListedOnce, graph
      <4> QED
        BY <1>1, <1>2, <2>1, <3>1, <3>2, <3>4, <3>5, <4>1, WorkspacesStep DEF UnlistTab
    <3>8. Existing(workspaces)' = Existing(workspaces)
      BY <1>1, <3>3, RowTypes DEF Existing
    <3>9. Unlisted(f.tab)'
      <4>1. \A v \in Existing(workspaces) \ {f.ws} : Listed(workspaces[v]) \cap Listed(w) = {}
        BY <1>w, <3>1, <3>4 DEF RowsInv, ListedOnce, graph
      <4>2. \A v \in Existing(workspaces) \ {f.ws} : f.tab \notin Listed(workspaces'[v])
        BY <1>1, <3>3, <3>6, <4>1, RowTypes
      <4>3. f.tab \notin Listed(workspaces'[f.ws])
        BY <3>3, <3>5
      <4> QED
        BY <3>8, <4>2, <4>3 DEF Unlisted
    <3>10. ASSUME NEW t, t # f.tab, Unlisted(t)' PROVE Unlisted(t)
      <4>1. ASSUME NEW v \in Existing(workspaces) PROVE t \notin Listed(workspaces[v])
        <5>1. t \notin Listed(workspaces'[v])
          BY <3>8, <3>10, <4>1 DEF Unlisted
        <5>2. CASE v = f.ws
          BY <1>w, <3>3, <3>5, <3>10, <5>1, <5>2
        <5>3. CASE v # f.ws
          BY <1>1, <3>3, <4>1, <5>1, <5>3, RowTypes
        <5> QED
          BY <5>2, <5>3
      <4> QED
        BY <4>1 DEF Unlisted
    <3>11. /\ \A q \in Call \ {p} : \A x \in {Top(q)} : TopInv(x)'
           /\ \A q \in Call : \A x \in FramesOf(q) : RowInv(x)'
      <4>1. ASSUME NEW q \in Call, NEW x \in FramesOf(q), x.at \in Moves, x.ws = f.ws
            PROVE  x.tab \notin Listed(r) /\ r.active # x.tab
        <5>1. RowInv(x)
          BY <3>1 DEF CallsInv
        <5>2. x.tab \in Tab
          BY <1>1, <4>1, FramesFacts, FrameIs, NoFrameFacts DEF Moves, FrameOf
        <5> QED
          BY <1>w, <2>1, <3>1, <3>5, <4>1, <5>1, <5>2, CallsAssumption DEF RowInv
      <4>2. \A q \in Call : \A x \in FramesOf(q) : x.at \in Moves /\ x.ws = f.ws
               => x.tab \notin Listed(workspaces'[f.ws]) /\ workspaces'[f.ws].active # x.tab
        BY <3>3, <4>1
      <4>3. Listed(workspaces'[f.ws]) \ Listed(workspaces[f.ws]) = {}
        BY <1>w, <3>3, <3>5
      <4>4. UNCHANGED <<tabs, made>>
        BY DEF UnlistTab
      <4> QED
        BY <1>1, <1>2, <3>1, <3>3, <4>2, <4>3, <4>4, WorkspaceCalls
    <3>12. CallsInv'
      <4>1. TopInv(g)'
        BY <2>6, <3>6, <3>9 DEF TopInv, MakesWs, UnlistTab
      <4>2. RowInv(g)'
        BY <1>1, <2>6, <3>1 DEF RowInv, MadeFrame, Deletes, Lists, Moves, WithWs, NewWindows, UnlistTab
      <4>3. ASSUME NEW q \in Call \ {p} PROVE PairInv(Top(q), g)
        <5>1. PairInv(Top(q), f)
          BY <1>f, <3>1 DEF CallsInv, FramesOf
        <5> QED
          BY <1>1, <2>6, <5>1 DEF PairInv, Deletes, Moves
      <4>4. ASSUME NEW q \in Call \ {p} PROVE ApartInv(g, Top(q)) /\ ApartInv(Top(q), g)
        <5>1. TopInv(Top(q))
          BY <3>1 DEF CallsInv
        <5>2. Top(q).at = "DeleteTab:delete" => Top(q).tab # f.tab
          BY <3>6, <5>1 DEF TopInv
        <5> QED
          BY <2>6, <5>2 DEF ApartInv, Lists, MakesWs
      <4>5. \A x : PairInv(g, x)
        BY <2>6 DEF PairInv, Lists, Activates
      <4> QED
        BY <2>5, <3>1, <3>11, <4>1, <4>2, <4>3, <4>4, <4>5, CallsStep
    <3>13. OrphansInv'
      <4>1. \A t \in Existing(tabs)' : Unlisted(t)' =>
               \/ g.at \in {"createTabObj:list", "DeleteTab:delete"} /\ g.tab = t
               \/ /\ t \in Existing(tabs) /\ Unlisted(t)
                  /\ ~(Top(p).at \in {"createTabObj:list", "DeleteTab:delete"} /\ Top(p).tab = t)
        BY <1>1, <1>f, <2>6, <3>10 DEF UnlistTab, Existing
      <4>2. \A t \in layouts' : tabs'[t] = NoOid =>
               t \in layouts /\ tabs[t] = NoOid /\ ~(Top(p).at = "DeleteTab:layout" /\ Top(p).tab = t)
        BY <1>1, <1>f DEF UnlistTab
      <4>3. Existing(tabs)' \subseteq layouts'
        BY <3>1 DEF UnlistTab, RowsInv, OrphansInv, Existing
      <4>4. \A b \in Existing(blocks)' : Exists(blocks[b].parent)'
                                         /\ b \in ToSet(ChildrenOf(blocks[b].parent))'
        BY <3>1 DEF UnlistTab, RowsInv, OrphansInv, Existing, Exists, ChildrenOf
      <4> QED
        BY <2>5, <3>1, <4>1, <4>2, <4>3, <4>4, OrphansStep DEF RowsInv
    <3> QED
      BY <3>7, <3>12, <3>13 DEF RowsInv
  <2> QED
    BY <2>7, <2>8 DEF IInv
<1> QED
  BY <1>3, <1>4

LEMMA ListTabKeeps == ASSUME IInv, NEW p \in Call, ListTab(p) PROVE IInv'
<1>f. PICK f : f = Top(p)
  OBVIOUS
<1>0. At(p, "createTabObj:list")
  BY DEF ListTab
<1>1. /\ TypeInv /\ stack[p] # <<>> /\ f = Head(stack[p]) /\ f \in FrameOf("createTabObj:list")
      /\ f.at = "createTabObj:list" /\ (~stale => RowsInv /\ CallsInv /\ RowInv(f) /\ TopInv(f))
  BY <1>0, <1>f, AtFacts
<1>2. /\ f.ws \in Workspace /\ f.read \in WorkspaceRow /\ f.tab \in Tab
  BY <1>1 DEF FrameOf
<1>w. PICK w : w = workspaces[f.ws]
  OBVIOUS
<1>r. PICK r : r = IF f.pinned THEN [f.read EXCEPT !.pinned = Append(@, f.tab)]
                               ELSE [f.read EXCEPT !.tabs = Append(@, f.tab)]
  OBVIOUS
<1>3. /\ r \in WorkspaceRow /\ r.active = f.read.active
      /\ Listed(r) = Listed(f.read) \cup {f.tab}
      /\ OnceRow(f.read) /\ f.tab \notin Listed(f.read) => OnceRow(r)
  <2>1. f.read.tabs \in Seq(Tab) /\ f.read.pinned \in Seq(Tab)
    BY <1>2 DEF WorkspaceRow
  <2>2. /\ Append(f.read.tabs, f.tab) \in Seq(Tab) /\ Append(f.read.pinned, f.tab) \in Seq(Tab)
        /\ ToSet(Append(f.read.tabs, f.tab)) = ToSet(f.read.tabs) \cup {f.tab}
        /\ ToSet(Append(f.read.pinned, f.tab)) = ToSet(f.read.pinned) \cup {f.tab}
        /\ IsInjective(f.read.tabs) /\ f.tab \notin ToSet(f.read.tabs) =>
              IsInjective(Append(f.read.tabs, f.tab))
        /\ IsInjective(f.read.pinned) /\ f.tab \notin ToSet(f.read.pinned) =>
              IsInjective(Append(f.read.pinned, f.tab))
    BY <1>2, <2>1, AppendFacts
  <2>3. r \in WorkspaceRow /\ r.active = f.read.active
    BY <1>2, <1>r, <2>2 DEF WorkspaceRow
  <2>4. CASE f.pinned
    <3>1. r.tabs = f.read.tabs /\ r.pinned = Append(f.read.pinned, f.tab)
      BY <1>2, <1>r, <2>4 DEF WorkspaceRow
    <3> QED
      BY <2>2, <2>3, <3>1 DEF Listed, OnceRow
  <2>5. CASE ~f.pinned
    <3>1. r.tabs = Append(f.read.tabs, f.tab) /\ r.pinned = f.read.pinned
      BY <1>2, <1>r, <2>5 DEF WorkspaceRow
    <3> QED
      BY <2>2, <2>3, <3>1 DEF Listed, OnceRow
  <2> QED
    BY <2>4, <2>5
<1>4. /\ workspaces' = [workspaces EXCEPT ![f.ws] = IF w = NoOid THEN NoOid ELSE r]
      /\ stale' = (stale \/ w # f.read)
  BY <1>1, <1>w, <1>r DEF ListTab, UpdateWorkspaceRow
<1> DEFINE h == [at |-> "CreateTab:layout", tab |-> f.tab]
           a == [at |-> "SetActiveTab", ws |-> f.ws, tab |-> f.tab]
<1>g. PICK g, H : /\ Leads(p, g, H)
                  /\ \/ g = a /\ H = {h}
                     \/ g = h /\ H = {}
  <2>1. a \in Frame /\ h \in Frame
    <3>1. a \in FrameOf("SetActiveTab") /\ h \in FrameOf("CreateTab:layout")
      BY <1>2 DEF FrameOf
    <3> QED
      BY <3>1, InFrame
  <2>2. h.at \in Waits
    BY DEF Waits
  <2>3. CallThen(p, a, h) \/ Goto(p, h)
    BY <1>1 DEF ListTab
  <2> HIDE DEF a, h
  <2> QED
    BY <1>1, <2>1, <2>2, <2>3, GotoLeads, CallThenLeads
<1>5. TypeInv'
  <2>1. Typed(graph)'
    BY <1>1, <1>2, <1>3, <1>4, TypedWorkspaces DEF ListTab
  <2>2. Ends(p) /\ stale' \in BOOLEAN /\ told' \subseteq Window
        /\ made' \subseteq Workspace \cup Tab \cup Block \cup Window
    BY <1>1, <1>4 DEF ListTab, TypeInv, TypeOK, Ends
  <2> QED
    BY <1>1, <1>g, <2>1, <2>2, TypeStep DEF ListTab
<1>6. ASSUME ~stale' PROVE RowsInv' /\ CallsInv'
  <2>1. ~stale /\ w = f.read /\ w # NoOid /\ RowsInv /\ CallsInv
    BY <1>1, <1>2, <1>4, <1>6, CallsAssumption
  <2>2. workspaces' = [workspaces EXCEPT ![f.ws] = r]
    BY <1>4, <2>1
  <2>3. /\ workspaces'[f.ws] = r /\ r # NoOid /\ workspaces[f.ws] # NoOid
        /\ DOMAIN workspaces' = Workspace
        /\ \A v \in Workspace \ {f.ws} : workspaces'[v] = workspaces[v]
    BY <1>1, <1>2, <1>3, <1>w, <2>1, <2>2, RowTypes, CallsAssumption
  <2>4. f.ws \in made /\ f.ws \in Existing(workspaces)
    BY <1>1, <1>2, <1>w, <2>1, RowTypes DEF Existing, RowsInv, MadeInv
  <2>5. tabs[f.tab] # NoOid /\ Unlisted(f.tab) /\ f.tab \in Existing(tabs)
    BY <1>1, <1>2, <2>1, RowTypes DEF TopInv, Existing
  <2>6. OnceRow(r) /\ Listed(r) = Listed(w) \cup {f.tab}
    <3>1. OnceRow(w) /\ f.tab \notin Listed(w)
      BY <1>w, <2>1, <2>4, <2>5 DEF RowsInv, ListedOnce, graph, OnceRow, Unlisted
    <3> QED
      BY <1>3, <2>1, <3>1
  <2>7. MadeInv' /\ NoDangling(graph)' /\ ListedOnce(graph)'
    <3>1. Listed(r) \subseteq Existing(tabs)
      BY <1>w, <2>1, <2>4, <2>5, <2>6 DEF RowsInv, NoDangling, graph
    <3>2. \A v \in Existing(workspaces) \ {f.ws} : Listed(workspaces[v]) \cap Listed(r) = {}
      <4>1. \A v \in Existing(workspaces) \ {f.ws} : Listed(workspaces[v]) \cap Listed(w) = {}
        BY <1>w, <2>1, <2>4 DEF RowsInv, ListedOnce, graph
      <4> QED
        BY <2>5, <2>6, <4>1 DEF Unlisted
    <3> QED
      BY <1>1, <1>2, <1>3, <2>1, <2>2, <2>4, <2>6, <3>1, <3>2, WorkspacesStep DEF ListTab
  <2>8. Existing(workspaces)' = Existing(workspaces)
    BY <1>1, <2>3, RowTypes DEF Existing
  <2>9. ~Unlisted(f.tab)'
    BY <2>3, <2>4, <2>6, <2>8 DEF Unlisted
  <2>10. ASSUME NEW t, Unlisted(t)' PROVE Unlisted(t)
    <3>1. ASSUME NEW v \in Existing(workspaces) PROVE t \notin Listed(workspaces[v])
      <4>1. t \notin Listed(workspaces'[v])
        BY <2>8, <2>10, <3>1 DEF Unlisted
      <4>2. CASE v = f.ws
        BY <1>w, <2>3, <2>6, <4>1, <4>2
      <4>3. CASE v # f.ws
        BY <1>1, <2>3, <3>1, <4>1, <4>3, RowTypes
      <4> QED
        BY <4>2, <4>3
    <3> QED
      BY <3>1 DEF Unlisted
  <2>11. /\ \A q \in Call \ {p} : \A x \in {Top(q)} : TopInv(x)'
         /\ \A q \in Call : \A x \in FramesOf(q) : RowInv(x)'
    <3>1. ASSUME NEW q \in Call, NEW x \in FramesOf(q), x.at \in Moves, x.ws = f.ws
          PROVE  x.tab \notin Listed(r) /\ r.active # x.tab
      <4>1. RowInv(x) /\ PairInv(f, x)
        BY <1>f, <2>1 DEF CallsInv
      <4>2. x.tab # f.tab
        BY <1>1, <3>1, <4>1 DEF PairInv, Lists
      <4> QED
        BY <1>3, <1>w, <2>1, <2>6, <3>1, <4>1, <4>2 DEF RowInv
    <3>2. \A q \in Call : \A x \in FramesOf(q) : x.at \in Moves /\ x.ws = f.ws
             => x.tab \notin Listed(workspaces'[f.ws]) /\ workspaces'[f.ws].active # x.tab
      BY <2>3, <3>1
    <3>3. ASSUME NEW q \in Call \ {p}, Top(q).at \in {"createTabObj:list", "DeleteTab:delete"}
          PROVE  Top(q).tab \notin Listed(workspaces'[f.ws]) \ Listed(workspaces[f.ws])
      <4>1. ApartInv(f, Top(q)) /\ PairInv(f, Top(q))
        BY <1>f, <2>1 DEF CallsInv, FramesOf
      <4>2. Top(q).tab # f.tab
        BY <1>1, <3>3, <4>1 DEF ApartInv, PairInv, Lists, Deletes
      <4> QED
        BY <1>w, <2>3, <2>6, <4>2
    <3>4. UNCHANGED <<tabs, made>>
      BY DEF ListTab
    <3> QED
      BY <1>1, <1>2, <2>1, <2>3, <3>2, <3>3, <3>4, WorkspaceCalls
  <2>12. CallsInv'
    <3>1. h.at = "CreateTab:layout" /\ a.at = "SetActiveTab" /\ a.ws = f.ws /\ a.tab = f.tab
      OBVIOUS
    <3> HIDE DEF a, h
    <3>2. TopInv(g)'
      BY <1>g, <3>1 DEF TopInv, MakesWs
    <3>3. RowInv(a)' /\ RowInv(h)'
      BY <1>1, <2>1, <3>1 DEF RowInv, MadeFrame, Deletes, Lists, Moves, WithWs, NewWindows, ListTab
    <3>4. \A x : PairInv(x, a) /\ PairInv(x, h) /\ PairInv(h, x)
      BY <3>1 DEF PairInv, Deletes, Moves, Lists, Activates
    <3>5. \A x : ApartInv(g, x) /\ ApartInv(x, g)
      BY <1>g, <3>1 DEF ApartInv, Lists, MakesWs
    <3>6. ASSUME NEW q \in Call, NEW x \in FramesOf(q) PROVE PairInv(a, x)
      <4>1. PairInv(f, x)
        BY <1>f, <2>1 DEF CallsInv
      <4> QED
        BY <1>1, <3>1, <4>1 DEF PairInv, Lists, Activates
    <3>7. \A x \in H \cup {g} : RowInv(x)' /\ \A y : PairInv(y, x)
      BY <1>g, <3>3, <3>4
    <3>8. \A q \in Call : \A x \in FramesOf(q) : PairInv(g, x)
      BY <1>g, <3>4, <3>6
    <3> QED
      BY <1>g, <2>1, <2>11, <3>2, <3>5, <3>7, <3>8, CallsStep
  <2>13. OrphansInv'
    <3>1. \A t \in Existing(tabs)' : Unlisted(t)' =>
             /\ t \in Existing(tabs) /\ Unlisted(t)
             /\ ~(Top(p).at \in {"createTabObj:list", "DeleteTab:delete"} /\ Top(p).tab = t)
      BY <1>f, <2>9, <2>10 DEF ListTab, Existing
    <3>2. \A t \in layouts' : tabs'[t] = NoOid =>
             t \in layouts /\ tabs[t] = NoOid /\ ~(Top(p).at = "DeleteTab:layout" /\ Top(p).tab = t)
      BY <1>1, <1>f DEF ListTab
    <3>3. Existing(tabs)' \subseteq layouts'
      BY <2>1 DEF ListTab, RowsInv, OrphansInv, Existing
    <3>4. \A b \in Existing(blocks)' : Exists(blocks[b].parent)'
                                       /\ b \in ToSet(ChildrenOf(blocks[b].parent))'
      BY <2>1 DEF ListTab, RowsInv, OrphansInv, Existing, Exists, ChildrenOf
    <3> QED
      BY <1>g, <2>1, <3>1, <3>2, <3>3, <3>4, OrphansStep DEF RowsInv
  <2> QED
    BY <2>7, <2>12, <2>13 DEF RowsInv
<1> QED
  BY <1>5, <1>6 DEF IInv

LEMMA CreateWorkspaceKeeps == ASSUME IInv, NEW p \in Call, CreateWorkspace(p) PROVE IInv'
<1>f. PICK f : f = Top(p)
  OBVIOUS
<1>0. At(p, "CreateWorkspace")
  BY DEF CreateWorkspace
<1>1. /\ TypeInv /\ stack[p] # <<>> /\ f = Head(stack[p]) /\ f \in FrameOf("CreateWorkspace")
      /\ f.at = "CreateWorkspace" /\ (~stale => RowsInv /\ CallsInv /\ RowInv(f) /\ TopInv(f))
      /\ OkWs(f)
  BY <1>0, <1>f, AtFacts
<1>2. f.ws \in Workspace /\ f.named \in BOOLEAN
  BY <1>1 DEF FrameOf
<1>r. PICK r : r = [tabs |-> <<>>, pinned |-> <<>>, active |-> NoOid, named |-> FALSE]
  OBVIOUS
<1>3. r \in WorkspaceRow /\ OnceRow(r) /\ Listed(r) = {} /\ r.active = NoOid
  BY <1>r, EmptyFacts DEF WorkspaceRow, OnceRow, Listed
<1>4. workspaces' = [workspaces EXCEPT ![f.ws] = r] /\ UNCHANGED stale
  BY <1>1, <1>r DEF CreateWorkspace
<1> DEFINE g == [at |-> "CreateTab", ws |-> f.ws, pinned |-> FALSE, activate |-> TRUE]
           h == [at |-> "CreateWorkspace:update", ws |-> f.ws, named |-> f.named]
<1>5. g \in FrameOf("CreateTab") /\ h \in FrameOf("CreateWorkspace:update")
  BY <1>2 DEF FrameOf
<1>6. /\ CallThen(p, g, h) /\ g.at = "CreateTab" /\ h.at = "CreateWorkspace:update"
      /\ OkWs(g) /\ OkWs(h)
  BY <1>1 DEF CreateWorkspace, OkWs, WithWs, NewWindows
<1> HIDE DEF g, h
<1>7. QuietFrame(g) /\ QuietFrame(h)
  BY <1>5, <1>6, QuietAt DEF Lists, Deletes, Moves, Activates
<1>8. Leads(p, g, {h})
  BY <1>1, <1>6, <1>7, CallThenLeads DEF QuietFrame, Waits
<1>9. TypeInv'
  <2>1. Typed(graph)'
    BY <1>1, <1>2, <1>3, <1>4, TypedWorkspaces DEF CreateWorkspace
  <2>2. Ends(p) /\ stale' \in BOOLEAN /\ told' \subseteq Window
        /\ made' \subseteq Workspace \cup Tab \cup Block \cup Window
    BY <1>1, <1>4 DEF CreateWorkspace, TypeInv, TypeOK, Ends
  <2> QED
    BY <1>1, <1>8, <2>1, <2>2, TypeStep DEF CreateWorkspace
<1>10. ASSUME ~stale' PROVE RowsInv' /\ CallsInv'
  <2>1. ~stale /\ RowsInv /\ CallsInv /\ workspaces[f.ws] = NoOid /\ f.ws \in made
    BY <1>1, <1>4, <1>10 DEF TopInv, MakesWs, RowInv, MadeFrame, WithWs
  <2>2. /\ workspaces'[f.ws] = r /\ DOMAIN workspaces' = Workspace
        /\ \A v \in Workspace \ {f.ws} : workspaces'[v] = workspaces[v]
    BY <1>1, <1>2, <1>4, RowTypes
  <2>3. MadeInv' /\ NoDangling(graph)' /\ ListedOnce(graph)'
    BY <1>1, <1>2, <1>3, <1>4, <2>1, WorkspacesStep DEF CreateWorkspace
  <2>4. \A t : Unlisted(t) <=> Unlisted(t)'
    <3>1. \A v \in Existing(workspaces)' : v = f.ws \/ v \in Existing(workspaces) \ {f.ws}
      BY <1>1, <2>2, RowTypes DEF Existing
    <3>2. Existing(workspaces) \subseteq Existing(workspaces)' \ {f.ws}
      BY <1>1, <2>1, <2>2, RowTypes DEF Existing
    <3>3. \A v \in Existing(workspaces) : Listed(workspaces'[v]) = Listed(workspaces[v])
      BY <1>1, <2>1, <2>2, RowTypes DEF Existing
    <3>4. Listed(workspaces'[f.ws]) = {}
      BY <1>3, <2>2
    <3> QED
      BY <3>1, <3>2, <3>3, <3>4 DEF Unlisted
  <2>5. ASSUME NEW q \in Call \ {p}, NEW x \in {Top(q)} PROVE TopInv(x)'
    <3>0. x \in Frame \cup {NoFrame}
      BY <1>1, FramesFacts DEF FramesOf
    <3>1. TopInv(x) /\ ApartInv(f, x)
      BY <1>f, <2>1 DEF CallsInv
    <3>2. MakesWs(x) => x.ws \in Workspace
      BY <3>0, FrameIs, NoFrameFacts DEF MakesWs, FrameOf
    <3>3. MakesWs(x) => x.ws # f.ws
      BY <1>1, <3>1 DEF ApartInv, MakesWs
    <3>4. MakesWs(x) => workspaces'[x.ws] = NoOid
      BY <2>2, <3>1, <3>2, <3>3 DEF TopInv
    <3> QED
      BY <2>4, <3>1, <3>4 DEF TopInv, MakesWs, CreateWorkspace
  <2>6. ASSUME NEW q \in Call, NEW x \in FramesOf(q) PROVE RowInv(x)'
    <3>0. x \in Frame \cup {NoFrame}
      BY <1>1, FramesFacts
    <3>1. RowInv(x)
      BY <2>1, <2>6 DEF CallsInv
    <3>2. x.at \in Moves => x.ws \in Workspace /\ x.tab \in Tab
      BY <3>0, FrameIs, NoFrameFacts DEF Moves, FrameOf
    <3>3. x.at \in Moves /\ workspaces'[x.ws] # NoOid =>
             x.tab \notin Listed(workspaces'[x.ws]) /\ workspaces'[x.ws].active # x.tab
      BY <1>3, <2>2, <3>1, <3>2, CallsAssumption DEF RowInv
    <3> QED
      BY <3>1, <3>3 DEF RowInv, MadeFrame, CreateWorkspace
  <2>7. /\ TopInv(g)' /\ RowInv(g)' /\ RowInv(h)'
        /\ \A x : ApartInv(g, x) /\ ApartInv(x, g) /\ PairInv(g, x) /\ PairInv(x, g) /\ PairInv(x, h)
    <3>1. MadeFrame(g)' /\ MadeFrame(h)'
      BY <1>6, <2>1 DEF OkWs, MadeFrame, Lists, Deletes, Moves, CreateWorkspace
    <3> QED
      BY <1>7, <3>1, QuietFacts DEF QuietFrame
  <2>8. CallsInv'
    BY <1>8, <2>1, <2>5, <2>6, <2>7, CallsStep
  <2>9. OrphansInv'
    BY <1>1, <1>f, <1>8, <2>1, <2>4, OrphansListed DEF CreateWorkspace, RowsInv
  <2> QED
    BY <2>3, <2>8, <2>9 DEF RowsInv
<1> QED
  BY <1>9, <1>10 DEF IInv

LEMMA DeleteWorkspaceRowKeeps == ASSUME IInv, NEW p \in Call, DeleteWorkspaceRow(p) PROVE IInv'
<1>f. PICK f : f = Top(p)
  OBVIOUS
<1>0. At(p, "DeleteWorkspace:delete")
  BY DEF DeleteWorkspaceRow
<1>1. /\ TypeInv /\ stack[p] # <<>> /\ f = Head(stack[p]) /\ f \in FrameOf("DeleteWorkspace:delete")
      /\ f.at = "DeleteWorkspace:delete" /\ (~stale => RowsInv /\ CallsInv /\ RowInv(f))
  BY <1>0, <1>f, AtFacts
<1>2. f.ws \in Workspace /\ f.window \in Window \cup {NoOid}
  BY <1>1 DEF FrameOf
<1>w. PICK w : w = workspaces[f.ws]
  OBVIOUS
<1>3. /\ workspaces' = [workspaces EXCEPT ![f.ws] = NoOid]
      /\ stale' = (stale \/ (w # NoOid /\ Listed(w) # {}))
  BY <1>1, <1>w DEF DeleteWorkspaceRow
<1> DEFINE c == [at |-> "CloseWindow", window |-> f.window]
<1>4. c \in FrameOf("CloseWindow") /\ c.at = "CloseWindow" /\ OkWs(c)
  BY <1>2 DEF FrameOf, OkWs, WithWs, NewWindows
<1>5. /\ Return(p, "ok") \/ (Goto(p, c) /\ UNCHANGED result)
      /\ told' \subseteq Window
  <2>1. CASE f.window = NoOid
    BY <1>1, <2>1 DEF DeleteWorkspaceRow, TypeInv, TypeOK
  <2>2. CASE f.window # NoOid /\ f.free # {}
    BY <1>1, <1>2, <2>2 DEF DeleteWorkspaceRow, TypeInv, TypeOK
  <2>3. CASE f.window # NoOid /\ f.free = {}
    BY <1>1, <2>3 DEF DeleteWorkspaceRow, TypeInv, TypeOK
  <2> QED
    BY <2>1, <2>2, <2>3
<1> HIDE DEF c
<1>6. QuietFrame(c)
  BY <1>4, QuietAt DEF Lists, Deletes, Moves, Activates
<1>7. PICK g : Leads(p, g, {}) /\ (g \in Under(p) \cup {NoFrame} \/ g = c)
  <2>1. CASE Return(p, "ok")
    BY <1>1, <2>1, ReturnLeads DEF Return
  <2>2. CASE Goto(p, c)
    BY <1>1, <1>6, <2>2, GotoLeads DEF QuietFrame
  <2> QED
    BY <1>5, <2>1, <2>2
<1>8. TypeInv'
  <2>1. Typed(graph)'
    BY <1>1, <1>2, <1>3, TypedWorkspaces DEF DeleteWorkspaceRow
  <2>2. Ends(p) /\ stale' \in BOOLEAN
        /\ made' \subseteq Workspace \cup Tab \cup Block \cup Window
    BY <1>1, <1>3, <1>5 DEF DeleteWorkspaceRow, TypeInv, TypeOK, Ends, Return
  <2> QED
    BY <1>1, <1>5, <1>7, <2>1, <2>2, TypeStep DEF DeleteWorkspaceRow
<1>9. ASSUME ~stale' PROVE RowsInv' /\ CallsInv'
  <2>1. ~stale /\ RowsInv /\ CallsInv /\ (w = NoOid \/ Listed(w) = {}) /\ f.ws \in made
    BY <1>1, <1>3, <1>9 DEF RowInv, MadeFrame, WithWs
  <2>2. /\ workspaces'[f.ws] = NoOid /\ DOMAIN workspaces' = Workspace
        /\ \A v \in Workspace \ {f.ws} : workspaces'[v] = workspaces[v]
    BY <1>1, <1>2, <1>3, RowTypes
  <2>3. MadeInv' /\ NoDangling(graph)' /\ ListedOnce(graph)'
    BY <1>1, <1>2, <1>3, <2>1, WorkspacesStep DEF DeleteWorkspaceRow
  <2>4. \A t : Unlisted(t) <=> Unlisted(t)'
    <3>1. Existing(workspaces)' = Existing(workspaces) \ {f.ws}
      BY <1>1, <2>2, RowTypes DEF Existing
    <3>2. f.ws \in Existing(workspaces) => Listed(workspaces[f.ws]) = {}
      BY <1>w, <2>1 DEF Existing
    <3>3. \A v \in Existing(workspaces)' : Listed(workspaces'[v]) = Listed(workspaces[v])
      BY <1>1, <2>2, <3>1, RowTypes DEF Existing
    <3> QED
      BY <3>1, <3>2, <3>3 DEF Unlisted
  <2>5. ASSUME NEW q \in Call \ {p}, NEW x \in {Top(q)} PROVE TopInv(x)'
    <3>0. x \in Frame \cup {NoFrame}
      BY <1>1, FramesFacts DEF FramesOf
    <3>1. TopInv(x)
      BY <2>1 DEF CallsInv
    <3>2. MakesWs(x) => x.ws \in Workspace
      BY <3>0, FrameIs, NoFrameFacts DEF MakesWs, FrameOf
    <3>4. MakesWs(x) => workspaces'[x.ws] = NoOid
      BY <2>2, <3>1, <3>2 DEF TopInv
    <3> QED
      BY <2>4, <3>1, <3>4 DEF TopInv, MakesWs, DeleteWorkspaceRow
  <2>6. ASSUME NEW q \in Call, NEW x \in FramesOf(q) PROVE RowInv(x)'
    <3>0. x \in Frame \cup {NoFrame}
      BY <1>1, FramesFacts
    <3>1. RowInv(x)
      BY <2>1, <2>6 DEF CallsInv
    <3>2. x.at \in Moves => x.ws \in Workspace
      BY <3>0, FrameIs, NoFrameFacts DEF Moves, FrameOf
    <3>3. x.at \in Moves /\ workspaces'[x.ws] # NoOid =>
             x.tab \notin Listed(workspaces'[x.ws]) /\ workspaces'[x.ws].active # x.tab
      BY <2>2, <3>1, <3>2 DEF RowInv
    <3> QED
      BY <3>1, <3>3 DEF RowInv, MadeFrame, DeleteWorkspaceRow
  <2>7. CallsInv'
    <3>1. CASE g \in Under(p) \cup {NoFrame}
      BY <1>1, <1>7, <2>1, <2>5, <2>6, <3>1, CallsReturn
    <3>2. CASE g = c
      <4>1. MadeFrame(c)'
        BY <1>4 DEF MadeFrame, Lists, Deletes, Moves, WithWs, NewWindows
      <4>2. /\ TopInv(c)' /\ RowInv(c)'
            /\ \A x : ApartInv(c, x) /\ ApartInv(x, c) /\ PairInv(c, x) /\ PairInv(x, c)
        BY <1>6, <4>1, QuietFacts DEF QuietFrame
      <4> QED
        BY <1>7, <2>1, <2>5, <2>6, <3>2, <4>2, CallsStep
    <3> QED
      BY <1>7, <3>1, <3>2
  <2>8. OrphansInv'
    BY <1>1, <1>f, <1>7, <2>1, <2>4, OrphansListed DEF DeleteWorkspaceRow, RowsInv
  <2> QED
    BY <2>3, <2>7, <2>8 DEF RowsInv
<1> QED
  BY <1>8, <1>9 DEF IInv

-----------------------------------------------------------------------------
(* Tabs are written                                                        *)

LEMMA TypedTabs ==
    ASSUME TypeInv, NEW t \in Tab, NEW r \in Seq(Block) \cup {NoOid},
           tabs' = [tabs EXCEPT ![t] = r], layouts' \subseteq Tab,
           UNCHANGED <<workspaces, blocks, windows, client>>
    PROVE  /\ Typed(graph)' /\ tabs'[t] = r
           /\ \A u \in Tab \ {t} : tabs'[u] = tabs[u]
<1>1. /\ tabs'[t] = r /\ DOMAIN tabs' = Tab
      /\ \A u \in Tab \ {t} : tabs'[u] = tabs[u]
  BY RowTypes
<1>2. \A u \in Tab : tabs'[u] = NoOid \/ tabs'[u] \in Seq(Block)
  BY <1>1, RowTypes
<1>3. Typed(graph)'
  BY <1>1, <1>2, RowTypes DEF Typed, graph
<1> QED
  BY <1>1, <1>3

\* A tab without blocks comes or goes: what the others keep.
LEMMA TabsStep ==
    ASSUME TypeInv, RowsInv, NEW t \in Tab, tabs[t] \in {NoOid, <<>>},
           NEW r \in {NoOid, <<>>}, tabs' = [tabs EXCEPT ![t] = r],
           UNCHANGED <<workspaces, blocks, windows, made>>, t \in made,
           r = NoOid => Unlisted(t)
    PROVE  /\ MadeInv' /\ NoDangling(graph)' /\ ListedOnce(graph)'
           /\ \A b \in Existing(blocks)' : Exists(blocks[b].parent)'
                                         /\ b \in ToSet(ChildrenOf(blocks[b].parent))'
<1>1. /\ tabs'[t] = r /\ DOMAIN tabs' = Tab /\ \A u \in Tab \ {t} : tabs'[u] = tabs[u]
  BY RowTypes
<1>2. \A o \in Existing(tabs)' : o = t \/ (o \in Existing(tabs) /\ tabs'[o] = tabs[o])
  BY <1>1, RowTypes DEF Existing
<1>3. /\ t \in Tab /\ \A o \in Existing(blocks) : o \in Block /\ o \notin Tab
      /\ Existing(tabs) \subseteq Tab
  BY RowTypes, CallsAssumption DEF Existing
<1>4. MadeInv'
  BY <1>2 DEF RowsInv, MadeInv, Existing
<1>5. NoDangling(graph)'
  <2>1. ASSUME NEW w \in Existing(workspaces)' PROVE Listed(workspaces[w])' \subseteq Existing(tabs)'
    <3>1. w \in Existing(workspaces) /\ Listed(workspaces[w]) \subseteq Existing(tabs)
      BY <2>1 DEF RowsInv, NoDangling, graph, Existing
    <3>2. t \in Listed(workspaces[w]) => r # NoOid
      BY <3>1 DEF Unlisted
    <3> QED
      BY <1>1, <1>3, <3>1, <3>2 DEF Existing, Listed
  <2>2. ASSUME NEW o \in Existing(tabs)' \cup Existing(blocks)', NEW b \in ToSet(ListedBy(graph, o))'
        PROVE  b \in Existing(blocks)' /\ blocks'[b].parent = o
    <3>1. CASE o = t
      <4>1. r = <<>> \/ o \in Existing(blocks)
        BY <1>1, <2>2, <3>1 DEF Existing
      <4>2. ListedBy(graph, o)' = r
        BY <1>1, <1>3, <3>1 DEF ListedBy, graph
      <4> QED
        BY <1>3, <2>2, <3>1, <4>1, <4>2, EmptyFacts
    <3>2. CASE o # t
      <4>1. o \in Existing(tabs) \cup Existing(blocks) /\ ListedBy(graph, o)' = ListedBy(graph, o)
        BY <1>1, <1>2, <1>3, <2>2, <3>2 DEF ListedBy, graph, Existing
      <4> QED
        BY <2>2, <4>1 DEF RowsInv, NoDangling, graph, Existing
    <3> QED
      BY <3>1, <3>2
  <2> QED
    BY <2>1, <2>2 DEF NoDangling, graph, Existing, Listed
<1>6. ListedOnce(graph)'
  <2>1. ASSUME NEW o \in Existing(tabs)' \cup Existing(blocks)' PROVE IsInjective(ListedBy(graph, o))'
    <3>1. CASE o = t
      <4>1. r = <<>>
        BY <1>1, <1>3, <2>1, <3>1 DEF Existing
      <4>2. ListedBy(graph, o)' = r
        BY <1>1, <1>3, <3>1 DEF ListedBy, graph
      <4> QED
        BY <4>1, <4>2, EmptyFacts DEF IsInjective
    <3>2. CASE o # t
      <4>1. o \in Existing(tabs) \cup Existing(blocks) /\ ListedBy(graph, o)' = ListedBy(graph, o)
        BY <1>1, <1>2, <1>3, <2>1, <3>2 DEF ListedBy, graph, Existing
      <4> QED
        BY <4>1 DEF RowsInv, ListedOnce, graph, IsInjective
    <3> QED
      BY <3>1, <3>2
  <2> QED
    BY <2>1 DEF RowsInv, ListedOnce, graph, Existing
<1>7. ASSUME NEW b \in Existing(blocks)'
      PROVE  Exists(blocks[b].parent)' /\ b \in ToSet(ChildrenOf(blocks[b].parent))'
  <2>1. /\ b \in Existing(blocks)
        /\ Exists(blocks[b].parent) /\ b \in ToSet(ChildrenOf(blocks[b].parent))
    BY <1>7 DEF RowsInv, OrphansInv, Existing
  <2>2. blocks[b].parent # t
    BY <1>3, <2>1, EmptyFacts DEF Exists, ChildrenOf
  <2> QED
    BY <1>1, <2>1, <2>2 DEF Exists, ChildrenOf
<1> QED
  BY <1>4, <1>5, <1>6, <1>7

LEMMA InsertTabKeeps == ASSUME IInv, NEW p \in Call, InsertTab(p) PROVE IInv'
<1>f. PICK f : f = Top(p)
  OBVIOUS
<1>0. At(p, "createTabObj:insert")
  BY DEF InsertTab
<1>1. /\ TypeInv /\ stack[p] # <<>> /\ f = Head(stack[p]) /\ f \in FrameOf("createTabObj:insert")
      /\ f.at = "createTabObj:insert" /\ (~stale => RowsInv /\ CallsInv /\ RowInv(f) /\ TopInv(f))
  BY <1>0, <1>f, AtFacts
<1>2. f.ws \in Workspace /\ f.tab \in Tab
  BY <1>1 DEF FrameOf
<1> DEFINE g == [f EXCEPT !.at = "createTabObj:list"]
<1>3. /\ g \in FrameOf("createTabObj:list") /\ g.at = "createTabObj:list"
      /\ g.ws = f.ws /\ g.tab = f.tab
  BY <1>1 DEF FrameOf
<1>4. /\ Goto(p, g) /\ UNCHANGED result /\ tabs' = [tabs EXCEPT ![f.tab] = <<>>]
      /\ layouts' = layouts \cup {f.tab}
  BY <1>1 DEF InsertTab
<1> HIDE DEF g
<1>5. Leads(p, g, {})
  BY <1>1, <1>3, <1>4, InFrame, GotoLeads
<1>6. /\ Typed(graph)' /\ tabs'[f.tab] = <<>>
      /\ \A u \in Tab \ {f.tab} : tabs'[u] = tabs[u]
  <2>1. layouts' \subseteq Tab /\ <<>> \in Seq(Block)
    BY <1>1, <1>2, <1>4, RowTypes
  <2> QED
    BY <1>1, <1>2, <1>4, <2>1, TypedTabs DEF InsertTab
<1>7. TypeInv'
  <2>1. Ends(p) /\ stale' \in BOOLEAN /\ told' \subseteq Window
        /\ made' \subseteq Workspace \cup Tab \cup Block \cup Window
    BY <1>1, <1>4 DEF InsertTab, TypeInv, TypeOK, Ends
  <2> QED
    BY <1>1, <1>5, <1>6, <2>1, TypeStep DEF InsertTab
<1>8. ASSUME ~stale' PROVE RowsInv' /\ CallsInv'
  <2>1. RowsInv /\ CallsInv /\ tabs[f.tab] = NoOid /\ f.tab \in made /\ RowInv(f)
    BY <1>1, <1>8 DEF InsertTab, TopInv, RowInv, MadeFrame, Lists
  <2>2. /\ MadeInv' /\ NoDangling(graph)' /\ ListedOnce(graph)'
        /\ \A b \in Existing(blocks)' : Exists(blocks[b].parent)'
                                      /\ b \in ToSet(ChildrenOf(blocks[b].parent))'
    <3>1. <<>> # NoOid
      <4>1. <<>> \in Seq(Block)
        OBVIOUS
      <4> QED
        BY <4>1, CallsAssumption
    <3> QED
      BY <1>1, <1>2, <1>4, <2>1, <3>1, TabsStep DEF InsertTab
  <2>3. Unlisted(f.tab) /\ <<>> # NoOid
    <3>1. f.tab \notin Existing(tabs)
      BY <2>1 DEF Existing
    <3>2. <<>> \in Seq(Block)
      OBVIOUS
    <3> QED
      BY <2>1, <3>1, <3>2, CallsAssumption DEF RowsInv, NoDangling, graph, Unlisted
  <2>4. \A t : Unlisted(t)' <=> Unlisted(t)
    BY DEF InsertTab, Unlisted, Existing
  <2>5. ASSUME NEW q \in Call \ {p}, NEW x \in {Top(q)} PROVE TopInv(x)'
    <3>1. TopInv(x) /\ ApartInv(f, x) /\ PairInv(f, x)
      BY <1>f, <2>1 DEF CallsInv, FramesOf
    <3>2. x \in Frame \cup {NoFrame}
      BY <1>1, FramesFacts DEF FramesOf
    <3>3. x.at \in {"createTabObj:insert", "createTabObj:list", "DeleteTab:delete",
                    "DeleteTab:layout"} => x.tab \in Tab /\ x.tab # f.tab
      BY <1>1, <3>1, <3>2, FrameIs, NoFrameFacts DEF FrameOf, ApartInv, PairInv, Lists, Deletes
    <3> QED
      BY <1>6, <2>4, <3>1, <3>3 DEF TopInv, MakesWs, InsertTab
  <2>6. ASSUME NEW q \in Call, NEW x \in FramesOf(q) PROVE RowInv(x)'
    <3>1. RowInv(x) /\ PairInv(f, x)
      BY <1>f, <2>1 DEF CallsInv
    <3>2. x \in Frame \cup {NoFrame}
      BY <1>1, FramesFacts
    <3>3. x.at = "DeleteTab:blocks" => x.tab \in Tab /\ x.tab # f.tab
      BY <1>1, <3>1, <3>2, FrameIs, NoFrameFacts DEF FrameOf, PairInv, Lists, Deletes
    <3> QED
      BY <1>6, <3>1, <3>3 DEF RowInv, MadeFrame, InsertTab
  <2>7. CallsInv'
    <3>1. TopInv(g)' /\ RowInv(g)'
      BY <1>1, <1>3, <1>6, <2>1, <2>3, <2>4
         DEF TopInv, MakesWs, RowInv, MadeFrame, Lists, Deletes, Moves, WithWs, NewWindows, InsertTab
    <3>2. ASSUME NEW q \in Call \ {p} PROVE ApartInv(g, Top(q)) /\ ApartInv(Top(q), g)
      <4>1. ApartInv(f, Top(q)) /\ ApartInv(Top(q), f)
        BY <1>f, <2>1 DEF CallsInv
      <4> QED
        BY <1>1, <1>3, <4>1 DEF ApartInv, Lists, MakesWs
    <3>3. ASSUME NEW q \in Call, NEW x \in FramesOf(q) PROVE PairInv(g, x)
      <4>1. PairInv(f, x)
        BY <1>f, <2>1 DEF CallsInv
      <4> QED
        BY <1>1, <1>3, <4>1 DEF PairInv, Lists
    <3>4. \A x : PairInv(x, g)
      BY <1>3 DEF PairInv, Deletes, Moves
    <3> QED
      BY <1>5, <2>1, <2>5, <2>6, <3>1, <3>2, <3>3, <3>4, CallsStep
  <2>8. OrphansInv'
    <3>1. \A t \in Existing(tabs)' : t = f.tab \/ t \in Existing(tabs)
      BY <1>1, <1>4, <1>6, RowTypes DEF Existing
    <3>2. \A t \in layouts' : tabs'[t] = NoOid => t \in layouts /\ tabs[t] = NoOid
      BY <1>1, <1>4, <1>6, <2>3, RowTypes
    <3>3. Existing(tabs)' \subseteq layouts'
      BY <1>4, <2>1, <3>1 DEF RowsInv, OrphansInv
    <3> QED
      BY <1>1, <1>3, <1>5, <1>f, <2>1, <2>2, <2>4, <3>1, <3>2, <3>3, OrphansStep DEF RowsInv
  <2> QED
    BY <2>2, <2>7, <2>8 DEF RowsInv
<1> QED
  BY <1>7, <1>8 DEF IInv

LEMMA DeleteTabRowKeeps == ASSUME IInv, NEW p \in Call, DeleteTabRow(p) PROVE IInv'
<1>f. PICK f : f = Top(p)
  OBVIOUS
<1>0. At(p, "DeleteTab:delete")
  BY DEF DeleteTabRow
<1>1. /\ TypeInv /\ stack[p] # <<>> /\ f = Head(stack[p]) /\ f \in FrameOf("DeleteTab:delete")
      /\ f.at = "DeleteTab:delete" /\ (~stale => RowsInv /\ CallsInv /\ RowInv(f) /\ TopInv(f))
  BY <1>0, <1>f, AtFacts
<1>2. f.ws \in Workspace /\ f.tab \in Tab
  BY <1>1 DEF FrameOf
<1> DEFINE g == [f EXCEPT !.at = "DeleteTab:layout"]
<1>3. /\ g \in FrameOf("DeleteTab:layout") /\ g.at = "DeleteTab:layout"
      /\ g.ws = f.ws /\ g.tab = f.tab /\ g.found = f.found
  BY <1>1 DEF FrameOf
<1>4. /\ Goto(p, g) /\ UNCHANGED result /\ tabs' = [tabs EXCEPT ![f.tab] = NoOid]
      /\ stale' = (stale \/ tabs[f.tab] \notin {NoOid, <<>>})
  BY <1>1 DEF DeleteTabRow
<1> HIDE DEF g
<1>5. Leads(p, g, {})
  BY <1>1, <1>3, <1>4, InFrame, GotoLeads
<1>6. /\ Typed(graph)' /\ tabs'[f.tab] = NoOid
      /\ \A u \in Tab \ {f.tab} : tabs'[u] = tabs[u]
  <2>1. layouts' \subseteq Tab
    BY <1>1, RowTypes DEF DeleteTabRow
  <2> QED
    BY <1>1, <1>2, <1>4, <2>1, TypedTabs DEF DeleteTabRow
<1>7. TypeInv'
  <2>1. Ends(p) /\ stale' \in BOOLEAN /\ told' \subseteq Window
        /\ made' \subseteq Workspace \cup Tab \cup Block \cup Window
    BY <1>1, <1>4 DEF DeleteTabRow, TypeInv, TypeOK, Ends
  <2> QED
    BY <1>1, <1>5, <1>6, <2>1, TypeStep DEF DeleteTabRow
<1>8. ASSUME ~stale' PROVE RowsInv' /\ CallsInv'
  <2>1. /\ RowsInv /\ CallsInv /\ tabs[f.tab] \in {NoOid, <<>>} /\ f.tab \in made /\ RowInv(f)
        /\ Unlisted(f.tab) /\ f.found
    BY <1>1, <1>4, <1>8 DEF TopInv, RowInv, MadeFrame, Deletes
  <2>2. /\ MadeInv' /\ NoDangling(graph)' /\ ListedOnce(graph)'
        /\ \A b \in Existing(blocks)' : Exists(blocks[b].parent)'
                                      /\ b \in ToSet(ChildrenOf(blocks[b].parent))'
    BY <1>1, <1>2, <1>4, <2>1, TabsStep DEF DeleteTabRow
  <2>4. \A t : Unlisted(t)' <=> Unlisted(t)
    BY DEF DeleteTabRow, Unlisted, Existing
  <2>5. ASSUME NEW q \in Call \ {p}, NEW x \in {Top(q)} PROVE TopInv(x)'
    <3>1. TopInv(x) /\ ApartInv(f, x) /\ PairInv(x, f)
      BY <1>f, <2>1 DEF CallsInv, FramesOf
    <3>2. x \in Frame \cup {NoFrame}
      BY <1>1, FramesFacts DEF FramesOf
    <3>3. /\ x.at \in {"createTabObj:insert", "createTabObj:list", "DeleteTab:delete",
                       "DeleteTab:layout"} => x.tab \in Tab
          /\ x.at \in {"createTabObj:insert", "createTabObj:list", "DeleteTab:delete"}
                => x.tab # f.tab
      BY <1>1, <3>1, <3>2, FrameIs, NoFrameFacts DEF FrameOf, ApartInv, PairInv, Lists, Deletes
    <3> QED
      BY <1>6, <2>4, <3>1, <3>3 DEF TopInv, MakesWs, DeleteTabRow
  <2>6. ASSUME NEW q \in Call, NEW x \in FramesOf(q) PROVE RowInv(x)'
    <3>1. RowInv(x)
      BY <1>f, <2>1 DEF CallsInv
    <3>2. x \in Frame \cup {NoFrame}
      BY <1>1, FramesFacts
    <3>3. x.at = "DeleteTab:blocks" => x.tab \in Tab
      BY <1>1, <3>1, <3>2, FrameIs, NoFrameFacts DEF FrameOf
    <3> QED
      BY <1>6, <3>1, <3>3 DEF RowInv, MadeFrame, DeleteTabRow
  <2>7. CallsInv'
    <3>1. TopInv(g)' /\ RowInv(g)'
      BY <1>1, <1>3, <1>6, <2>1
         DEF TopInv, MakesWs, RowInv, MadeFrame, Lists, Deletes, Moves, WithWs, NewWindows, DeleteTabRow
    <3>2. \A x : ApartInv(g, x) /\ ApartInv(x, g) /\ PairInv(g, x)
      BY <1>3 DEF ApartInv, PairInv, Lists, MakesWs, Activates
    <3>3. ASSUME NEW q \in Call \ {p} PROVE PairInv(Top(q), g)
      <4>1. PairInv(Top(q), f)
        BY <1>f, <2>1 DEF CallsInv, FramesOf
      <4> QED
        BY <1>1, <1>3, <4>1 DEF PairInv, Deletes, Moves
    <3> QED
      BY <1>5, <2>1, <2>5, <2>6, <3>1, <3>2, <3>3, CallsStep
  <2>8. OrphansInv'
    <3>1. Existing(tabs)' = Existing(tabs) \ {f.tab}
      BY <1>1, <1>4, <1>6, RowTypes DEF Existing
    <3>2. \A t \in layouts' : tabs'[t] = NoOid => t = f.tab \/ (t \in layouts /\ tabs[t] = NoOid)
      BY <1>1, <1>6, RowTypes DEF DeleteTabRow
    <3>3. Existing(tabs)' \subseteq layouts'
      BY <2>1, <3>1 DEF RowsInv, OrphansInv, DeleteTabRow
    <3> QED
      BY <1>1, <1>3, <1>5, <1>f, <2>1, <2>2, <2>4, <3>1, <3>2, <3>3, OrphansStep DEF RowsInv
  <2> QED
    BY <2>2, <2>7, <2>8 DEF RowsInv
<1> QED
  BY <1>7, <1>8 DEF IInv

LEMMA DeleteLayoutRowKeeps == ASSUME IInv, NEW p \in Call, DeleteLayoutRow(p) PROVE IInv'
<1>f. PICK f : f = Top(p)
  OBVIOUS
<1>0. At(p, "DeleteTab:layout")
  BY DEF DeleteLayoutRow
<1>1. /\ TypeInv /\ stack[p] # <<>> /\ f = Head(stack[p]) /\ f \in FrameOf("DeleteTab:layout")
      /\ f.at = "DeleteTab:layout" /\ (~stale => RowsInv /\ CallsInv /\ RowInv(f) /\ TopInv(f))
  BY <1>0, <1>f, AtFacts
<1>2. f.ws \in Workspace /\ f.tab \in Tab
  BY <1>1 DEF FrameOf
<1> DEFINE c == [at |-> "DeleteTab:window", ws |-> f.ws]
<1>4. c \in FrameOf("DeleteTab:window") /\ c.at = "DeleteTab:window" /\ c.ws = f.ws
  BY <1>2 DEF FrameOf
<1>5. (Goto(p, c) /\ UNCHANGED result) \/ Return(p, "ok")
  BY <1>1 DEF DeleteLayoutRow
<1> HIDE DEF c
<1>6. QuietFrame(c)
  <2>1. OkWs(c)
    BY <1>1, <1>4 DEF OkWs, NewWindows, RowInv, MadeFrame, WithWs
  <2> QED
    BY <1>4, <2>1, QuietAt DEF Lists, Deletes, Moves, Activates
<1>7. PICK g : Leads(p, g, {}) /\ (g \in Under(p) \cup {NoFrame} \/ g = c)
  <2>1. CASE Return(p, "ok")
    BY <1>1, <2>1, ReturnLeads DEF Return
  <2>2. CASE Goto(p, c)
    BY <1>1, <1>6, <2>2, GotoLeads DEF QuietFrame
  <2> QED
    BY <1>5, <2>1, <2>2
<1>8. TypeInv'
  <2>0. layouts' \subseteq Tab
    BY <1>1, RowTypes DEF DeleteLayoutRow
  <2>1. Typed(graph)'
    BY <1>1, <2>0, RowTypes DEF DeleteLayoutRow, Typed, graph
  <2>2. Ends(p) /\ stale' \in BOOLEAN /\ told' \subseteq Window
        /\ made' \subseteq Workspace \cup Tab \cup Block \cup Window
    BY <1>1, <1>5 DEF DeleteLayoutRow, TypeInv, TypeOK, Ends, Return
  <2> QED
    BY <1>1, <1>7, <2>1, <2>2, TypeStep DEF DeleteLayoutRow
<1>9. ASSUME ~stale' PROVE RowsInv' /\ CallsInv'
  <2>1. RowsInv /\ CallsInv /\ tabs[f.tab] = NoOid /\ f.found /\ RowInv(f)
    BY <1>1, <1>9 DEF DeleteLayoutRow, TopInv
  <2>2. layouts' = layouts \ {f.tab} /\ UNCHANGED <<workspaces, tabs, blocks, windows, made>>
    BY <1>1, <2>1 DEF DeleteLayoutRow
  <2>3. MadeInv' /\ NoDangling(graph)' /\ ListedOnce(graph)'
    BY <2>1, <2>2, GraphKept DEF RowsInv, MadeInv, Existing
  <2>4. OrphansInv'
    <3>1. \A t : Unlisted(t)' <=> Unlisted(t)
      BY <2>2 DEF Unlisted, Existing
    <3>2. Existing(tabs)' = Existing(tabs) /\ f.tab \notin Existing(tabs)
      BY <2>1, <2>2 DEF Existing
    <3>3. Existing(tabs)' \subseteq layouts'
      BY <2>1, <2>2, <3>2 DEF RowsInv, OrphansInv
    <3>4. \A b \in Existing(blocks)' : Exists(blocks[b].parent)'
                                       /\ b \in ToSet(ChildrenOf(blocks[b].parent))'
      BY <2>1, <2>2 DEF RowsInv, OrphansInv, Existing, Exists, ChildrenOf
    <3> QED
      BY <1>1, <1>7, <1>f, <2>1, <2>2, <3>1, <3>2, <3>3, <3>4, OrphansStep DEF RowsInv
  <2>5. \A q \in Call \ {p} : \A x \in {Top(q)} : TopInv(x)'
    BY <2>1, <2>2, TopKept DEF CallsInv
  <2>6. \A q \in Call : \A x \in FramesOf(q) : RowInv(x)'
    BY <2>1, <2>2, RowKept DEF CallsInv
  <2>7. CallsInv'
    <3>1. CASE g \in Under(p) \cup {NoFrame}
      BY <1>1, <1>7, <2>1, <2>5, <2>6, <3>1, CallsReturn
    <3>2. CASE g = c
      <4>1. MadeFrame(c)'
        BY <1>4, <1>6, <1>9, <2>2 DEF MadeFrame, Lists, Deletes, Moves, NewWindows,
           QuietFrame, OkWs, DeleteLayoutRow
      <4>2. /\ TopInv(c)' /\ RowInv(c)'
            /\ \A x : ApartInv(c, x) /\ ApartInv(x, c) /\ PairInv(c, x) /\ PairInv(x, c)
        BY <1>6, <4>1, QuietFacts DEF QuietFrame
      <4> QED
        BY <1>7, <2>1, <2>5, <2>6, <3>2, <4>2, CallsStep
    <3> QED
      BY <1>7, <3>1, <3>2
  <2> QED
    BY <2>3, <2>4, <2>7 DEF RowsInv
<1> QED
  BY <1>8, <1>9 DEF IInv

LEMMA UpdateWindowKeeps == ASSUME IInv, NEW p \in Call, UpdateWindow(p) PROVE IInv'
<1>f. PICK f : f = Top(p)
  OBVIOUS
<1>0. At(p, "updateWindow")
  BY DEF UpdateWindow
<1>1. /\ TypeInv /\ stack[p] # <<>> /\ f = Head(stack[p]) /\ f \in FrameOf("updateWindow")
      /\ f.at = "updateWindow" /\ (~stale => RowsInv /\ CallsInv /\ RowInv(f)) /\ OkWs(f)
  BY <1>0, <1>f, AtFacts
<1>2. f.ws \in Workspace /\ f.window \in Window /\ f.read \in Workspace
  BY <1>1 DEF FrameOf
<1>v. PICK v : v = windows[f.window]
  OBVIOUS
<1>3. /\ windows' = [windows EXCEPT ![f.window] = IF v = NoOid THEN NoOid ELSE f.ws]
      /\ stale' = (stale \/ v # f.read)
  BY <1>1, <1>v DEF UpdateWindow
<1> DEFINE c == [at |-> "DeleteWorkspace", ws |-> f.read, force |-> FALSE]
<1>4. c \in FrameOf("DeleteWorkspace") /\ c.at = "DeleteWorkspace" /\ c.ws = f.read
  BY <1>2 DEF FrameOf
<1>5. (Goto(p, c) /\ UNCHANGED result) \/ Return(p, "ok")
  BY <1>1 DEF UpdateWindow
<1> HIDE DEF c
<1>6. /\ windows' \in [Window -> Workspace \cup {NoOid}] /\ client' \in Seq(Window)
      /\ told' \subseteq Window /\ stale' \in BOOLEAN /\ Ends(p)
  <2>1. windows' \in [Window -> Workspace \cup {NoOid}]
    BY <1>1, <1>2, <1>3, RowTypes
  <2>2. client' \in Seq(Window)
    BY <1>1, RowTypes DEF UpdateWindow
  <2>3. told' \subseteq Window /\ stale' \in BOOLEAN /\ Ends(p)
    BY <1>1, <1>2, <1>3, <1>5 DEF UpdateWindow, TypeInv, TypeOK, Ends, Return
  <2> QED
    BY <2>1, <2>2, <2>3
<1>7. CASE stale'
  <2>1. PICK g : Leads(p, g, {})
    <3>1. CASE Return(p, "ok")
      BY <1>1, <3>1, ReturnLeads DEF Return
    <3>2. CASE Goto(p, c)
      BY <1>1, <1>4, <3>2, InFrame, GotoLeads
    <3> QED
      BY <1>5, <3>1, <3>2
  <2>2. Typed(graph)'
    BY <1>1, <1>6, RowTypes DEF UpdateWindow, Typed, graph
  <2>3. made' \subseteq Workspace \cup Tab \cup Block \cup Window
    BY <1>1 DEF UpdateWindow, TypeInv
  <2> QED
    BY <1>1, <1>6, <1>7, <2>1, <2>2, <2>3, TypeStep DEF UpdateWindow, IInv
<1>8. CASE ~stale'
  <2>1. ~stale /\ v = f.read /\ v # NoOid /\ MadeInv
    <3>1. stale \in BOOLEAN /\ f.read # NoOid
      BY <1>1, <1>2, CallsAssumption DEF TypeInv
    <3>2. ~stale /\ v = f.read
      BY <1>3, <1>8, <3>1
    <3> QED
      BY <1>1, <3>1, <3>2 DEF RowsInv
  <2>2. f.window \in Existing(windows) /\ f.read \in made /\ f.window \in made /\ f.ws \in made
    <3>1. f.window \in Existing(windows)
      BY <1>1, <1>2, <1>v, <2>1, RowTypes DEF Existing
    <3> QED
      BY <1>1, <1>v, <2>1, <3>1 DEF MadeInv, OkWs, WithWs
  <2>3. QuietFrame(c)
    <3>1. OkWs(c)
      BY <1>4, <2>2 DEF OkWs, NewWindows
    <3> QED
      BY <1>4, <3>1, QuietAt DEF Lists, Deletes, Moves, Activates
  <2>4. QuietTurn(p)
    BY <1>5, <2>3 DEF QuietTurn, Return
  <2>5. WindowsMade'
    <3>1. \A w \in Existing(windows)' :
             /\ w \in Existing(windows)
             /\ windows'[w] = windows[w] \/ windows'[w] = f.ws
      BY <1>1, <1>2, <1>3, <2>2, RowTypes DEF Existing
    <3> QED
      BY <2>1, <2>2, <3>1 DEF MadeInv, WindowsMade, UpdateWindow
  <2> QED
    BY <1>1, <1>6, <1>8, <1>f, <2>1, <2>4, <2>5, QuietWindows DEF UpdateWindow
<1> QED
  BY <1>7, <1>8

-----------------------------------------------------------------------------
(* Blocks are written                                                      *)

\* Whoever knows a tab and a workspace may rely on them when no tab comes or goes.
LEMMA BlocksCalls ==
    ASSUME TypeInv, CallsInv, UNCHANGED workspaces, made \subseteq made',
           \A t \in Tab : tabs'[t] = NoOid <=> tabs[t] = NoOid
    PROVE  /\ \A q \in Call : \A f \in {Top(q)} : TopInv(f)'
           /\ \A q \in Call : \A f \in FramesOf(q) : RowInv(f)'
<1>1. \A t : Unlisted(t)' <=> Unlisted(t)
  BY DEF Unlisted, Existing
<1>2. ASSUME NEW q \in Call, NEW x \in FramesOf(q)
      PROVE  x.at \in Deletes \cup Lists => x.tab \in Tab
  <2>1. x \in Frame \cup {NoFrame}
    BY FramesFacts
  <2> QED
    BY <2>1, FrameIs, NoFrameFacts DEF FrameOf, Deletes, Lists
<1>3. ASSUME NEW q \in Call, NEW x \in {Top(q)} PROVE TopInv(x)'
  <2>1. TopInv(x) /\ (x.at \in Deletes \cup Lists => x.tab \in Tab)
    BY <1>2 DEF CallsInv, FramesOf
  <2> QED
    BY <1>1, <2>1 DEF TopInv, MakesWs, Deletes, Lists
<1>4. ASSUME NEW q \in Call, NEW x \in FramesOf(q) PROVE RowInv(x)'
  <2>1. RowInv(x) /\ (x.at \in Deletes \cup Lists => x.tab \in Tab)
    BY <1>2, <1>4 DEF CallsInv
  <2> QED
    BY <2>1 DEF RowInv, MadeFrame, Deletes, Lists
<1> QED
  BY <1>3, <1>4

\* Each block has its parent, which lists it.
Held == \A b \in Existing(blocks) : /\ Exists(blocks[b].parent)
                                    /\ b \in ToSet(ChildrenOf(blocks[b].parent))

\* Blocks come, go or move, and p goes on quietly.
LEMMA BlocksStep ==
    ASSUME IInv, NEW p \in Call, stack[p] # <<>>, QuietTurn(p), Ends(p),
           Top(p).at \notin {"createTabObj:list", "DeleteTab:delete", "DeleteTab:layout"},
           UNCHANGED <<workspaces, layouts, windows, client, told, calls, overlap>>,
           made \subseteq made', made' \subseteq Workspace \cup Tab \cup Block \cup Window,
           stale' \in BOOLEAN, ~stale' => ~stale, Typed(graph)',
           ~stale' => /\ MadeInv' /\ NoDangling(graph)' /\ ListedOnce(graph)' /\ Held'
                      /\ \A t \in Tab : tabs'[t] = NoOid <=> tabs[t] = NoOid
    PROVE  IInv'
<1>1. TypeInv
  BY DEF IInv
<1>2. PICK g, H : /\ Leads(p, g, H) /\ \A h \in H : QuietFrame(h)
                  /\ g \in Under(p) \cup {NoFrame} \/ QuietFrame(g)
  BY <1>1, QuietLeads
<1>3. TypeInv'
  BY <1>1, <1>2, TypeStep DEF TypeInv, TypeOK
<1>4. ASSUME ~stale' PROVE RowsInv' /\ CallsInv'
  <2>1. ~stale /\ RowsInv /\ CallsInv
    BY <1>4 DEF IInv
  <2>2. CallsInv'
    BY <1>1, <1>2, <1>4, <2>1, BlocksCalls, QuietCalls
  <2>3. OrphansInv'
    <3>1. \A t : Unlisted(t)' <=> Unlisted(t)
      BY DEF Unlisted, Existing
    <3>2. Existing(tabs)' = Existing(tabs)
      BY <1>1, <1>3, <1>4, RowTypes DEF Existing, TypeInv, TypeOK, Typed, graph
    <3>3. \A t \in layouts' : tabs'[t] = NoOid => t \in layouts /\ tabs[t] = NoOid
      BY <1>1, <1>4, RowTypes
    <3>4. Existing(tabs)' \subseteq layouts'
      BY <2>1, <3>2 DEF RowsInv, OrphansInv
    <3>5. \A b \in Existing(blocks)' : Exists(blocks[b].parent)'
                                       /\ b \in ToSet(ChildrenOf(blocks[b].parent))'
      BY <1>4 DEF Held
    <3> QED
      BY <1>2, <2>1, <3>1, <3>2, <3>3, <3>4, <3>5, OrphansStep DEF RowsInv
  <2> QED
    BY <1>4, <2>2, <2>3 DEF RowsInv
<1> QED
  BY <1>3, <1>4 DEF IInv

\* Parents and lists that agree again, whichever they are.
LEMMA KidsStep ==
    ASSUME TypeInv, RowsInv, UNCHANGED <<workspaces, windows>>,
           Existing(tabs)' = Existing(tabs), Typed(graph)',
           \A o \in Existing(tabs)' \cup Existing(blocks)' :
              /\ IsInjective(ListedBy(graph, o))'
              /\ \A b \in ToSet(ListedBy(graph, o))' :
                    b \in Existing(blocks)' /\ blocks'[b].parent = o,
           \A b \in Existing(blocks)' :
              /\ blocks'[b].parent \in Existing(tabs)' \cup Existing(blocks)'
              /\ b \in ToSet(ListedBy(graph, blocks[b].parent))',
           Existing(blocks)' \subseteq made', made \subseteq made'
    PROVE  /\ MadeInv' /\ NoDangling(graph)' /\ ListedOnce(graph)' /\ Held'
           /\ \A t \in Tab : tabs'[t] = NoOid <=> tabs[t] = NoOid
<1>1. MadeInv'
  BY DEF RowsInv, MadeInv, Existing
<1>2. NoDangling(graph)'
  <2>1. \A w \in Existing(workspaces)' : Listed(workspaces[w])' \subseteq Existing(tabs)'
    BY DEF RowsInv, NoDangling, graph, Existing
  <2> QED
    BY <2>1 DEF NoDangling, graph, Existing
<1>3. ListedOnce(graph)'
  BY DEF RowsInv, ListedOnce, graph, Existing
<1>4. Held'
  <2>1. ASSUME NEW b \in Existing(blocks)'
        PROVE  Exists(blocks[b].parent)' /\ b \in ToSet(ChildrenOf(blocks[b].parent))'
    <3>1. ChildrenOf(blocks[b].parent)' = ListedBy(graph, blocks[b].parent)'
      BY DEF ChildrenOf, ListedBy, graph
    <3>2. Exists(blocks[b].parent)'
      <4>1. Existing(tabs)' \subseteq Tab /\ Existing(blocks)' \subseteq Block
        BY DEF Existing, Typed, graph
      <4> QED
        BY <4>1, CallsAssumption DEF Exists, Existing
    <3> QED
      BY <3>1, <3>2
  <2> QED
    BY <2>1 DEF Held
<1>5. ASSUME NEW t \in Tab PROVE tabs'[t] = NoOid <=> tabs[t] = NoOid
  BY RowTypes DEF Existing, Typed, graph
<1> QED
  BY <1>1, <1>2, <1>3, <1>4, <1>5

\* The blocks that o lists, of whichever kind o is.
LEMMA KidsFacts ==
    ASSUME TypeInv, RowsInv, NEW o \in Existing(tabs) \cup Existing(blocks)
    PROVE  /\ o \in Tab \cup Block /\ ListedBy(graph, o) \in Seq(Block)
           /\ IsInjective(ListedBy(graph, o))
           /\ \A b \in ToSet(ListedBy(graph, o)) : b \in Existing(blocks) /\ blocks[b].parent = o
<1>1. Existing(tabs) \subseteq Tab /\ Existing(blocks) \subseteq Block
  BY RowTypes DEF Existing
<1>2. ListedBy(graph, o) = IF o \in Tab THEN tabs[o] ELSE blocks[o].subs
  BY DEF ListedBy, graph
<1>3. CASE o \in Tab
  <2>1. o \in Existing(tabs)
    BY <1>1, <1>3, CallsAssumption
  <2>2. tabs[o] \in Seq(Block)
    BY <1>3, <2>1, RowTypes DEF Existing
  <2> QED
    BY <1>2, <1>3, <2>1, <2>2 DEF RowsInv, NoDangling, ListedOnce, graph
<1>4. CASE o \notin Tab
  <2>1. o \in Existing(blocks) /\ o \in Block
    BY <1>1, <1>4
  <2>2. blocks[o] \in BlockRow
    BY <2>1, RowTypes DEF Existing
  <2>3. blocks[o].subs \in Seq(Block)
    BY <2>2 DEF BlockRow
  <2> QED
    BY <1>2, <1>4, <2>1, <2>3 DEF RowsInv, NoDangling, ListedOnce, graph
<1> QED
  BY <1>3, <1>4

\* A block has a parent, which lists it.
LEMMA ParentFacts ==
    ASSUME TypeInv, RowsInv, NEW b \in Existing(blocks)
    PROVE  /\ b \in Block /\ blocks[b] \in BlockRow
           /\ blocks[b].parent \in Existing(tabs) \cup Existing(blocks)
           /\ b \in ToSet(ListedBy(graph, blocks[b].parent))
<1>1. b \in Block /\ blocks[b] \in BlockRow
  BY RowTypes DEF Existing
<1>2. blocks[b].parent \in Tab \cup Block
  BY <1>1 DEF BlockRow
<1>3. Exists(blocks[b].parent) /\ b \in ToSet(ChildrenOf(blocks[b].parent))
  BY DEF RowsInv, OrphansInv
<1>4. ChildrenOf(blocks[b].parent) = ListedBy(graph, blocks[b].parent)
  BY DEF ChildrenOf, ListedBy, graph
<1>5. blocks[b].parent \in Existing(tabs) \cup Existing(blocks)
  BY <1>2, <1>3, RowTypes DEF Exists, Existing
<1> QED
  BY <1>1, <1>3, <1>4, <1>5

\* createBlockObj and createSubBlockObj.
LEMMA InsertFacts ==
    ASSUME TypeInv, NEW parent \in Existing(tabs) \cup Existing(blocks),
           NEW id \in Block, id \notin made, InsertBlock(parent, id),
           UNCHANGED <<workspaces, layouts, windows, client>>
    PROVE  /\ Typed(graph)' /\ made \subseteq made'
           /\ made' \subseteq Workspace \cup Tab \cup Block \cup Window
           /\ RowsInv => /\ MadeInv' /\ NoDangling(graph)' /\ ListedOnce(graph)' /\ Held'
                         /\ \A t \in Tab : tabs'[t] = NoOid <=> tabs[t] = NoOid
<1>1. /\ blocks' = [b \in Block |->
                       IF b = id THEN [parent |-> parent, subs |-> <<>>]
                       ELSE IF b = parent THEN [blocks[b] EXCEPT !.subs = Append(@, id)]
                       ELSE blocks[b]]
      /\ tabs' = [t \in Tab |-> IF t = parent THEN Append(tabs[t], id) ELSE tabs[t]]
      /\ made' = made \cup {id}
  BY DEF InsertBlock
<1>2. /\ Existing(tabs) \subseteq Tab /\ Existing(blocks) \subseteq Block /\ Tab \cap Block = {}
  BY RowTypes, CallsAssumption DEF Existing
<1>3. ASSUME NEW t \in Tab
      PROVE  /\ t # parent => tabs'[t] = tabs[t]
             /\ t = parent => /\ tabs[t] \in Seq(Block) /\ tabs'[t] = Append(tabs[t], id)
                              /\ tabs'[t] \in Seq(Block) /\ tabs'[t] # NoOid
  <2>1. t = parent => tabs[t] \in Seq(Block)
    BY <1>2, RowTypes DEF Existing
  <2>2. \A s \in Seq(Block) : Append(s, id) \in Seq(Block) /\ Append(s, id) # NoOid
    <3>1. \A s \in Seq(Block) : Append(s, id) \in Seq(Block)
      OBVIOUS
    <3> QED
      BY <3>1, CallsAssumption
  <2> QED
    BY <1>1, <2>1, <2>2
<1>4. [parent |-> parent, subs |-> <<>>] \in BlockRow
  BY <1>2 DEF BlockRow
<1>5. ASSUME NEW b \in Block
      PROVE  /\ b = id => /\ blocks'[b] \in BlockRow /\ blocks'[b].subs = <<>>
                          /\ blocks'[b].parent = parent
             /\ b # id /\ b # parent => blocks'[b] = blocks[b]
             /\ b # id /\ b = parent =>
                   /\ blocks[b] \in BlockRow /\ blocks'[b] \in BlockRow
                   /\ blocks'[b].subs = Append(blocks[b].subs, id)
                   /\ blocks'[b].parent = blocks[b].parent
  <2>1. CASE b = id
    BY <1>1, <1>4, <2>1
  <2>2. CASE b # id /\ b = parent
    <3>1. blocks[b] \in BlockRow
      BY <1>2, <2>2, RowTypes DEF Existing
    <3>r. PICK r : r = blocks[b]
      OBVIOUS
    <3>s. PICK s : s = Append(r.subs, id)
      OBVIOUS
    <3>2. blocks'[b] = [r EXCEPT !.subs = s]
      BY <1>1, <2>2, <3>r, <3>s
    <3>3. r \in BlockRow /\ r.subs \in Seq(Block)
      BY <3>1, <3>r DEF BlockRow
    <3>4. s \in Seq(Block)
      BY <3>3, <3>s
    <3>5. [r EXCEPT !.subs = s] \in BlockRow /\ [r EXCEPT !.subs = s].subs = s
          /\ [r EXCEPT !.subs = s].parent = r.parent
      BY <3>3, <3>4 DEF BlockRow
    <3> QED
      BY <2>2, <3>1, <3>2, <3>5, <3>r, <3>s
  <2>3. CASE b # id /\ b # parent
    BY <1>1, <2>3
  <2> QED
    BY <2>1, <2>2, <2>3
<1>6. Typed(graph)'
  <2>1. DOMAIN tabs' = Tab /\ DOMAIN blocks' = Block
    BY <1>1
  <2>2. \A t \in Tab : tabs'[t] = NoOid \/ tabs'[t] \in Seq(Block)
    BY <1>3, RowTypes
  <2>3. \A b \in Block : blocks'[b] = NoOid \/ blocks'[b] \in BlockRow
    BY <1>5, RowTypes
  <2> QED
    BY <2>1, <2>2, <2>3, RowTypes DEF Typed, graph
<1>7. made \subseteq made' /\ made' \subseteq Workspace \cup Tab \cup Block \cup Window
  BY <1>1 DEF TypeInv
<1>8. ASSUME RowsInv
      PROVE  /\ MadeInv' /\ NoDangling(graph)' /\ ListedOnce(graph)' /\ Held'
             /\ \A t \in Tab : tabs'[t] = NoOid <=> tabs[t] = NoOid
  <2>1. id \notin Existing(blocks) /\ parent # id
    BY <1>2, <1>8 DEF RowsInv, MadeInv
  <2>2. Existing(tabs)' = Existing(tabs)
    BY <1>1, <1>2, <1>3, RowTypes DEF Existing
  <2>3. Existing(blocks)' = Existing(blocks) \cup {id}
    <3>1. NoOid \notin BlockRow
      BY CallsAssumption
    <3>2. parent \in Block => parent \in Existing(blocks)
      BY <1>2
    <3>3. \A b \in Block : blocks'[b] # NoOid <=> b = id \/ b \in Existing(blocks)
      BY <1>5, <3>1, <3>2, RowTypes DEF Existing
    <3>4. DOMAIN blocks' = Block
      BY <1>1
    <3> QED
      BY <1>2, <3>3, <3>4 DEF Existing
  <2>4. ASSUME NEW o \in Tab \cup Block
        PROVE  ListedBy(graph, o)' = IF o = id THEN <<>>
                                     ELSE IF o = parent THEN Append(ListedBy(graph, o), id)
                                     ELSE ListedBy(graph, o)
    <3>1. ListedBy(graph, o)' = IF o \in Tab THEN tabs'[o] ELSE blocks'[o].subs
      BY DEF ListedBy, graph
    <3>2. ListedBy(graph, o) = IF o \in Tab THEN tabs[o] ELSE blocks[o].subs
      BY DEF ListedBy, graph
    <3>3. CASE o \in Tab
      BY <1>2, <1>3, <3>1, <3>2, <3>3
    <3>4. CASE o \notin Tab
      BY <1>5, <3>1, <3>2, <3>4
    <3> QED
      BY <3>3, <3>4
  <2>5. \A b \in Existing(blocks) : blocks'[b].parent = blocks[b].parent
    BY <1>2, <1>5, <2>1
  <2>6. blocks'[id].parent = parent
    BY <1>5
  <2>7. ASSUME NEW o \in Existing(tabs)' \cup Existing(blocks)'
        PROVE  /\ IsInjective(ListedBy(graph, o)')
               /\ \A b \in ToSet(ListedBy(graph, o)') :
                     b \in Existing(blocks)' /\ blocks'[b].parent = o
    <3>1. CASE o = id
      <4>1. ListedBy(graph, o)' = <<>>
        BY <2>4, <3>1
      <4> QED
        BY <4>1, EmptyFacts
    <3>2. CASE o # id
      <4>1. o \in Existing(tabs) \cup Existing(blocks)
        BY <2>2, <2>3, <2>7, <3>2
      <4>2. /\ o \in Tab \cup Block /\ ListedBy(graph, o) \in Seq(Block)
            /\ IsInjective(ListedBy(graph, o))
            /\ \A b \in ToSet(ListedBy(graph, o)) : b \in Existing(blocks) /\ blocks[b].parent = o
        BY <1>8, <4>1, KidsFacts
      <4>3. CASE o = parent
        <5>1. ListedBy(graph, o)' = Append(ListedBy(graph, o), id)
          BY <2>4, <3>2, <4>2, <4>3
        <5>2. /\ ToSet(Append(ListedBy(graph, o), id)) = ToSet(ListedBy(graph, o)) \cup {id}
              /\ IsInjective(Append(ListedBy(graph, o), id))
          BY <2>1, <4>2, AppendFacts
        <5> QED
          BY <2>3, <2>5, <2>6, <4>2, <4>3, <5>1, <5>2
      <4>4. CASE o # parent
        <5>1. ListedBy(graph, o)' = ListedBy(graph, o)
          BY <2>4, <3>2, <4>2, <4>4
        <5> QED
          BY <2>3, <2>5, <4>2, <5>1
      <4> QED
        BY <4>3, <4>4
    <3> QED
      BY <3>1, <3>2
  <2>8. ASSUME NEW b \in Existing(blocks)'
        PROVE  /\ blocks'[b].parent \in Existing(tabs)' \cup Existing(blocks)'
               /\ b \in ToSet(ListedBy(graph, blocks[b].parent)')
    <3>1. CASE b = id
      <4>1. ListedBy(graph, parent) \in Seq(Block)
        BY <1>8, KidsFacts
      <4>2. ListedBy(graph, parent)' = Append(ListedBy(graph, parent), id)
        BY <1>2, <2>1, <2>4
      <4>3. id \in ToSet(ListedBy(graph, parent)')
        BY <4>1, <4>2, AppendFacts
      <4>4. ListedBy(graph, blocks[b].parent)' = ListedBy(graph, parent)'
        BY <2>6, <3>1 DEF ListedBy, graph
      <4> QED
        BY <2>2, <2>3, <2>6, <3>1, <4>3, <4>4
    <3>2. CASE b # id
      <4>1. b \in Existing(blocks)
        BY <2>3, <2>8, <3>2
      <4>o. PICK o : o = blocks[b].parent
        OBVIOUS
      <4>2. o \in Existing(tabs) \cup Existing(blocks) /\ b \in ToSet(ListedBy(graph, o))
        BY <1>8, <4>1, <4>o, ParentFacts
      <4>3. blocks'[b].parent = o
        BY <2>5, <4>1, <4>o
      <4>4. o \in Tab \cup Block /\ o # id /\ ListedBy(graph, o) \in Seq(Block)
        BY <1>2, <1>8, <2>1, <4>2, KidsFacts
      <4>5. b \in ToSet(ListedBy(graph, o)')
        <5>1. ToSet(Append(ListedBy(graph, o), id)) = ToSet(ListedBy(graph, o)) \cup {id}
          BY <4>4, AppendFacts
        <5>2. \/ ListedBy(graph, o)' = Append(ListedBy(graph, o), id)
              \/ ListedBy(graph, o)' = ListedBy(graph, o)
          BY <2>4, <4>4
        <5> QED
          BY <4>2, <5>1, <5>2
      <4>6. ListedBy(graph, blocks[b].parent)' = ListedBy(graph, o)'
        BY <4>3 DEF ListedBy, graph
      <4> QED
        BY <2>2, <2>3, <4>2, <4>3, <4>5, <4>6
    <3> QED
      BY <3>1, <3>2
  <2>9. Existing(blocks)' \subseteq made'
    BY <1>1, <1>8, <2>3 DEF RowsInv, MadeInv
  <2> QED
    BY <1>6, <1>7, <1>8, <2>2, <2>7, <2>8, <2>9, KidsStep
<1> QED
  BY <1>6, <1>7, <1>8

\* p inserts a block and goes on quietly.
LEMMA InsertKeeps ==
    ASSUME IInv, NEW p \in Call, stack[p] # <<>>, QuietTurn(p), Ends(p),
           Top(p).at \notin {"createTabObj:list", "DeleteTab:delete", "DeleteTab:layout"},
           NEW parent \in Existing(tabs) \cup Existing(blocks), Unused(Block) # {},
           InsertBlock(parent, Fresh(Block)),
           UNCHANGED <<workspaces, layouts, windows, client, told, calls, overlap, stale>>
    PROVE  IInv'
<1>1. TypeInv /\ stale' \in BOOLEAN /\ (~stale => RowsInv)
  BY DEF IInv, TypeInv
<1>2. PICK id \in Block : id = Fresh(Block) /\ id \notin made
  BY FreshFacts
<1>3. /\ Typed(graph)' /\ made \subseteq made'
      /\ made' \subseteq Workspace \cup Tab \cup Block \cup Window
      /\ RowsInv => /\ MadeInv' /\ NoDangling(graph)' /\ ListedOnce(graph)' /\ Held'
                    /\ \A t \in Tab : tabs'[t] = NoOid <=> tabs[t] = NoOid
  BY <1>1, <1>2, InsertFacts
<1> QED
  BY <1>1, <1>3, BlocksStep

LEMMA CreateFirstBlockKeeps == ASSUME IInv, NEW p \in Call, CreateFirstBlock(p) PROVE IInv'
<1>f. PICK f : f = Top(p)
  OBVIOUS
<1>0. At(p, "CreateTab:layout")
  BY DEF CreateFirstBlock
<1>1. /\ TypeInv /\ stack[p] # <<>> /\ f = Head(stack[p]) /\ f \in FrameOf("CreateTab:layout")
      /\ f.at = "CreateTab:layout"
  BY <1>0, <1>f, AtFacts
<1>2. f.tab \in Tab
  BY <1>1 DEF FrameOf
<1>3. CASE Failed(p) \/ tabs[f.tab] = NoOid
  <2>1. QuietTurn(p) /\ Ends(p)
    BY <1>1, <1>3, ReturnTurns DEF CreateFirstBlock
  <2> QED
    BY <1>1, <1>3, <1>f, <2>1, QuietRows DEF CreateFirstBlock, rows
<1>4. CASE ~(Failed(p) \/ tabs[f.tab] = NoOid)
  <2> DEFINE g == [at |-> "GetLayoutIdForTab", tab |-> f.tab]
  <2>1. g \in FrameOf("GetLayoutIdForTab") /\ g.at = "GetLayoutIdForTab"
    BY <1>2 DEF FrameOf
  <2>2. Goto(p, g) /\ UNCHANGED result /\ InsertBlock(f.tab, Fresh(Block))
    BY <1>1, <1>4 DEF CreateFirstBlock
  <2> HIDE DEF g
  <2>3. QuietFrame(g)
    <3>1. OkWs(g)
      BY <2>1 DEF OkWs, WithWs, NewWindows
    <3> QED
      BY <2>1, <3>1, QuietAt DEF Lists, Deletes, Moves, Activates
  <2>4. QuietTurn(p) /\ Ends(p)
    BY <2>2, <2>3 DEF QuietTurn, Ends
  <2>5. f.tab \in Existing(tabs)
    BY <1>1, <1>2, <1>4, RowTypes DEF Existing
  <2> QED
    BY <1>1, <1>f, <2>2, <2>4, <2>5, InsertKeeps DEF CreateFirstBlock
<1> QED
  BY <1>3, <1>4

LEMMA CreateBlockKeeps == ASSUME IInv, NEW p \in Call, CreateBlock(p) PROVE IInv'
<1>f. PICK f : f = Top(p)
  OBVIOUS
<1>0. At(p, "CreateBlock")
  BY DEF CreateBlock
<1>1. /\ TypeInv /\ stack[p] # <<>> /\ f = Head(stack[p]) /\ f \in FrameOf("CreateBlock")
      /\ f.at = "CreateBlock"
  BY <1>0, <1>f, AtFacts
<1>2. f.tab \in Tab /\ f.target \in Block \cup {NoOid}
  BY <1>1 DEF FrameOf
<1>3. CASE tabs[f.tab] = NoOid
  <2>1. QuietTurn(p) /\ Ends(p)
    BY <1>1, <1>3, ReturnTurns DEF CreateBlock
  <2> QED
    BY <1>1, <1>3, <1>f, <2>1, QuietRows DEF CreateBlock, rows
<1>4. CASE tabs[f.tab] # NoOid
  <2> DEFINE g == [at |-> "GetLayoutIdForTab", tab |-> f.tab]
             d == [at |-> "DeleteBlock", block |-> f.target, recursive |-> FALSE]
             h == [g EXCEPT !.at = "CreateBlock:replaced"]
  <2>1. /\ g \in FrameOf("GetLayoutIdForTab") /\ g.at = "GetLayoutIdForTab"
        /\ h \in FrameOf("CreateBlock:replaced") /\ h.at = "CreateBlock:replaced"
    BY <1>2 DEF FrameOf
  <2>2. f.target # NoOid => d \in FrameOf("DeleteBlock") /\ d.at = "DeleteBlock"
    BY <1>2 DEF FrameOf
  <2>3. /\ (f.target = NoOid /\ Goto(p, g)) \/ (f.target # NoOid /\ CallThen(p, d, h))
        /\ UNCHANGED result /\ InsertBlock(f.tab, Fresh(Block))
    BY <1>1, <1>4 DEF CreateBlock
  <2> HIDE DEF g, h, d
  <2>4. QuietFrame(g) /\ QuietFrame(h) /\ (f.target # NoOid => QuietFrame(d))
    <3>1. OkWs(g) /\ OkWs(h) /\ (f.target # NoOid => OkWs(d))
      BY <2>1, <2>2 DEF OkWs, WithWs, NewWindows
    <3> QED
      BY <2>1, <2>2, <3>1, QuietAt DEF Lists, Deletes, Moves, Activates
  <2>5. QuietTurn(p) /\ Ends(p)
    BY <2>1, <2>3, <2>4 DEF QuietTurn, Ends, Waits
  <2>6. f.tab \in Existing(tabs)
    BY <1>1, <1>2, <1>4, RowTypes DEF Existing
  <2> QED
    BY <1>1, <1>f, <2>3, <2>5, <2>6, InsertKeeps DEF CreateBlock
<1> QED
  BY <1>3, <1>4

LEMMA CreateSubBlockKeeps == ASSUME IInv, NEW p \in Call, CreateSubBlock(p) PROVE IInv'
<1>f. PICK f : f = Top(p)
  OBVIOUS
<1>0. At(p, "CreateSubBlock")
  BY DEF CreateSubBlock
<1>1. /\ TypeInv /\ stack[p] # <<>> /\ f = Head(stack[p]) /\ f \in FrameOf("CreateSubBlock")
      /\ f.at = "CreateSubBlock"
  BY <1>0, <1>f, AtFacts
<1>2. f.block \in Block
  BY <1>1 DEF FrameOf
<1>3. QuietTurn(p) /\ Ends(p)
  BY <1>1, ReturnTurns DEF CreateSubBlock
<1>4. CASE blocks[f.block] = NoOid
  BY <1>1, <1>3, <1>4, <1>f, QuietRows DEF CreateSubBlock, rows
<1>5. CASE blocks[f.block] # NoOid
  <2>1. f.block \in Existing(blocks)
    BY <1>1, <1>2, <1>5, RowTypes DEF Existing
  <2>2. InsertBlock(f.block, Fresh(Block))
    BY <1>1, <1>5 DEF CreateSubBlock
  <2> QED
    BY <1>1, <1>3, <1>f, <2>1, <2>2, InsertKeeps DEF CreateSubBlock
<1> QED
  BY <1>4, <1>5

LEMMA UpdateBlockKeeps == ASSUME IInv, NEW p \in Call, UpdateBlock(p) PROVE IInv'
<1>f. PICK f : f = Top(p)
  OBVIOUS
<1>0. At(p, "updateBlock")
  BY DEF UpdateBlock
<1>1. /\ TypeInv /\ stack[p] # <<>> /\ f = Head(stack[p]) /\ f \in FrameOf("updateBlock")
      /\ f.at = "updateBlock" /\ (~stale => RowsInv)
  BY <1>0, <1>f, AtFacts
<1>2. f.block \in Block /\ f.read \in BlockRow
  BY <1>1 DEF FrameOf
<1>v. PICK v : v = blocks[f.block]
  OBVIOUS
<1>3. /\ blocks' = [blocks EXCEPT ![f.block] = IF v = NoOid THEN NoOid ELSE f.read]
      /\ stale' = (stale \/ v # f.read)
  BY <1>1, <1>v DEF UpdateBlock
<1>4. QuietTurn(p) /\ Ends(p)
  BY <1>1, ReturnTurns DEF UpdateBlock
<1>5. Typed(graph)'
  <2>1. /\ DOMAIN blocks' = Block
        /\ \A b \in Block : blocks'[b] = NoOid \/ blocks'[b] \in BlockRow
    BY <1>1, <1>2, <1>3, RowTypes
  <2> QED
    BY <1>1, <2>1, RowTypes DEF UpdateBlock, Typed, graph
<1>6. stale \in BOOLEAN /\ stale' \in BOOLEAN /\ (~stale' => ~stale)
      /\ made \subseteq Workspace \cup Tab \cup Block \cup Window
  BY <1>1, <1>3 DEF TypeInv
<1>7. ASSUME ~stale'
      PROVE  /\ MadeInv' /\ NoDangling(graph)' /\ ListedOnce(graph)' /\ Held'
             /\ \A t \in Tab : tabs'[t] = NoOid <=> tabs[t] = NoOid
  <2>1. v = f.read /\ f.read # NoOid /\ RowsInv
    BY <1>1, <1>2, <1>3, <1>6, <1>7, CallsAssumption
  <2>2. \A b \in Block : blocks'[b] = blocks[b]
    BY <1>1, <1>2, <1>3, <1>v, <2>1, RowTypes
  <2>3. Existing(blocks)' = Existing(blocks) /\ Existing(tabs)' = Existing(tabs)
    BY <1>1, <1>3, <2>2, RowTypes DEF Existing, UpdateBlock
  <2>4. \A o \in Tab \cup Block : ListedBy(graph, o)' = ListedBy(graph, o)
    BY <2>2 DEF ListedBy, graph, UpdateBlock
  <2>5. ASSUME NEW o \in Existing(tabs)' \cup Existing(blocks)'
        PROVE  /\ IsInjective(ListedBy(graph, o)')
               /\ \A b \in ToSet(ListedBy(graph, o)') :
                     b \in Existing(blocks)' /\ blocks'[b].parent = o
    <3>1. /\ o \in Tab \cup Block /\ IsInjective(ListedBy(graph, o))
          /\ \A b \in ToSet(ListedBy(graph, o)) : b \in Existing(blocks) /\ blocks[b].parent = o
      BY <1>1, <2>1, <2>3, <2>5, KidsFacts
    <3>2. Existing(blocks) \subseteq Block
      BY <1>1, RowTypes DEF Existing
    <3> QED
      BY <2>2, <2>3, <2>4, <3>1, <3>2
  <2>6. ASSUME NEW b \in Existing(blocks)'
        PROVE  /\ blocks'[b].parent \in Existing(tabs)' \cup Existing(blocks)'
               /\ b \in ToSet(ListedBy(graph, blocks[b].parent)')
    <3>1. /\ b \in Block /\ blocks[b] \in BlockRow
          /\ blocks[b].parent \in Existing(tabs) \cup Existing(blocks)
          /\ b \in ToSet(ListedBy(graph, blocks[b].parent))
      BY <1>1, <2>1, <2>3, <2>6, ParentFacts
    <3>o. PICK o : o = blocks[b].parent
      OBVIOUS
    <3>2. blocks'[b].parent = o /\ o \in Tab \cup Block
      BY <2>2, <3>1, <3>o DEF BlockRow
    <3>3. ListedBy(graph, blocks[b].parent)' = ListedBy(graph, o)'
      BY <3>2 DEF ListedBy, graph
    <3> QED
      BY <2>3, <2>4, <3>1, <3>2, <3>3, <3>o
  <2>7. Existing(blocks)' \subseteq made'
    BY <2>1, <2>3 DEF RowsInv, MadeInv, UpdateBlock
  <2>8. UNCHANGED <<workspaces, windows, made>>
    BY DEF UpdateBlock
  <2> QED
    BY <1>1, <1>5, <2>1, <2>3, <2>5, <2>6, <2>7, <2>8, KidsStep
<1> QED
  BY <1>1, <1>4, <1>5, <1>6, <1>7, <1>f, BlocksStep DEF UpdateBlock

\* A list of blocks, once in its row, when a block goes.
LEMMA RemoveBlockFacts ==
    ASSUME TypeInv, NEW id \in Existing(blocks), blocks[id].subs = <<>>, RemoveBlock(id),
           UNCHANGED <<workspaces, layouts, windows, client, made>>
    PROVE  /\ Typed(graph)'
           /\ RowsInv => /\ MadeInv' /\ NoDangling(graph)' /\ ListedOnce(graph)' /\ Held'
                         /\ \A t \in Tab : tabs'[t] = NoOid <=> tabs[t] = NoOid
<1>p. PICK parent : parent = blocks[id].parent
  OBVIOUS
<1>1. /\ blocks' = [b \in Block |->
                       IF b = id THEN NoOid
                       ELSE IF b = parent /\ blocks[b] # NoOid
                            THEN [blocks[b] EXCEPT !.subs = RemoveFirst(@, id)]
                            ELSE blocks[b]]
      /\ tabs' = [t \in Tab |-> IF t = parent /\ tabs[t] # NoOid
                                THEN RemoveFirst(tabs[t], id) ELSE tabs[t]]
  BY <1>p DEF RemoveBlock
<1>2. /\ Existing(tabs) \subseteq Tab /\ Existing(blocks) \subseteq Block /\ Tab \cap Block = {}
  BY RowTypes, CallsAssumption DEF Existing
<1>3. ASSUME NEW t \in Tab
      PROVE  /\ tabs[t] = NoOid => tabs'[t] = NoOid
             /\ tabs[t] # NoOid => /\ tabs[t] \in Seq(Block) /\ tabs'[t] \in Seq(Block)
                                   /\ tabs'[t] = IF t = parent THEN RemoveFirst(tabs[t], id)
                                                               ELSE tabs[t]
  <2>1. tabs[t] # NoOid => tabs[t] \in Seq(Block)
    BY RowTypes
  <2>2. \A s \in Seq(Block) : RemoveFirst(s, id) \in Seq(Block)
    BY RemoveFirstFacts
  <2> QED
    BY <1>1, <2>1, <2>2
<1>4. ASSUME NEW b \in Block
      PROVE  /\ b = id \/ blocks[b] = NoOid => blocks'[b] = NoOid
             /\ b # id /\ blocks[b] # NoOid =>
                   /\ blocks[b] \in BlockRow /\ blocks'[b] \in BlockRow
                   /\ blocks'[b].parent = blocks[b].parent
                   /\ blocks'[b].subs = IF b = parent THEN RemoveFirst(blocks[b].subs, id)
                                                      ELSE blocks[b].subs
  <2>1. CASE b = id \/ blocks[b] = NoOid
    BY <1>1, <2>1
  <2>2. CASE b # id /\ blocks[b] # NoOid
    <3>r. PICK r : r = blocks[b]
      OBVIOUS
    <3>s. PICK s : s = RemoveFirst(r.subs, id)
      OBVIOUS
    <3>1. r \in BlockRow /\ r.subs \in Seq(Block)
      BY <2>2, <3>r, RowTypes DEF BlockRow
    <3>2. s \in Seq(Block)
      BY <3>1, <3>s, RemoveFirstFacts
    <3>3. blocks'[b] = IF b = parent THEN [r EXCEPT !.subs = s] ELSE r
      BY <1>1, <2>2, <3>r, <3>s
    <3>4. [r EXCEPT !.subs = s] \in BlockRow /\ [r EXCEPT !.subs = s].subs = s
          /\ [r EXCEPT !.subs = s].parent = r.parent
      BY <3>1, <3>2 DEF BlockRow
    <3> QED
      BY <2>2, <3>1, <3>3, <3>4, <3>r, <3>s
  <2> QED
    BY <2>1, <2>2
<1>5. NoOid \notin Seq(Block) /\ NoOid \notin BlockRow
  BY CallsAssumption
<1>6. Typed(graph)'
  <2>1. DOMAIN tabs' = Tab /\ DOMAIN blocks' = Block
    BY <1>1
  <2>2. \A t \in Tab : tabs'[t] = NoOid \/ tabs'[t] \in Seq(Block)
    BY <1>3
  <2>3. \A b \in Block : blocks'[b] = NoOid \/ blocks'[b] \in BlockRow
    BY <1>4
  <2> QED
    BY <2>1, <2>2, <2>3, RowTypes DEF Typed, graph
<1>7. ASSUME RowsInv
      PROVE  /\ MadeInv' /\ NoDangling(graph)' /\ ListedOnce(graph)' /\ Held'
             /\ \A t \in Tab : tabs'[t] = NoOid <=> tabs[t] = NoOid
  <2>1. Existing(tabs)' = Existing(tabs)
    <3>1. DOMAIN tabs' = Tab /\ DOMAIN tabs = Tab
      BY <1>1, RowTypes
    <3>2. \A t \in Tab : tabs'[t] = NoOid <=> tabs[t] = NoOid
      BY <1>3, <1>5
    <3> QED
      BY <3>1, <3>2 DEF Existing
  <2>2. Existing(blocks)' = Existing(blocks) \ {id}
    <3>1. DOMAIN blocks' = Block /\ DOMAIN blocks = Block
      BY <1>1, RowTypes
    <3>2. \A b \in Block : blocks'[b] = NoOid <=> (b = id \/ blocks[b] = NoOid)
      BY <1>4, <1>5
    <3> QED
      BY <3>1, <3>2 DEF Existing
  <2>3. /\ id \in Block /\ parent \in Existing(tabs) \cup Existing(blocks)
    BY <1>7, <1>p, ParentFacts
  <2>4. ListedBy(graph, id) = <<>>
    BY <1>2, <2>3 DEF ListedBy, graph
  <2>5. ASSUME NEW o \in Existing(tabs) \cup Existing(blocks), o # id
        PROVE  ListedBy(graph, o)' = IF o = parent THEN RemoveFirst(ListedBy(graph, o), id)
                                                   ELSE ListedBy(graph, o)
    <3>1. ListedBy(graph, o)' = IF o \in Tab THEN tabs'[o] ELSE blocks'[o].subs
      BY DEF ListedBy, graph
    <3>2. ListedBy(graph, o) = IF o \in Tab THEN tabs[o] ELSE blocks[o].subs
      BY DEF ListedBy, graph
    <3>3. CASE o \in Tab
      <4>1. tabs[o] # NoOid
        BY <1>2, <2>5, <3>3 DEF Existing
      <4> QED
        BY <1>3, <3>1, <3>2, <3>3, <4>1
    <3>4. CASE o \notin Tab
      <4>1. blocks[o] # NoOid /\ o \in Block
        BY <1>2, <2>5, <3>4 DEF Existing
      <4> QED
        BY <1>4, <2>5, <3>1, <3>2, <3>4, <4>1
    <3> QED
      BY <3>3, <3>4
  <2>6. \A b \in Existing(blocks) \ {id} : blocks'[b].parent = blocks[b].parent
    BY <1>2, <1>4 DEF Existing
  <2>7. ASSUME NEW o \in Existing(tabs)' \cup Existing(blocks)'
        PROVE  /\ IsInjective(ListedBy(graph, o)')
               /\ \A b \in ToSet(ListedBy(graph, o)') :
                     b \in Existing(blocks)' /\ blocks'[b].parent = o
    <3>1. o \in Existing(tabs) \cup Existing(blocks) /\ o # id
      BY <1>2, <2>1, <2>2, <2>3, <2>7
    <3>2. /\ ListedBy(graph, o) \in Seq(Block) /\ IsInjective(ListedBy(graph, o))
          /\ \A b \in ToSet(ListedBy(graph, o)) : b \in Existing(blocks) /\ blocks[b].parent = o
      BY <1>7, <3>1, KidsFacts
    <3>3. CASE o = parent
      <4>1. ListedBy(graph, o)' = RemoveFirst(ListedBy(graph, o), id)
        BY <2>5, <3>1, <3>3
      <4>2. /\ IsInjective(RemoveFirst(ListedBy(graph, o), id))
            /\ ToSet(RemoveFirst(ListedBy(graph, o), id)) = ToSet(ListedBy(graph, o)) \ {id}
        BY <3>2, RemoveFirstFacts
      <4> QED
        BY <2>2, <2>6, <3>2, <4>1, <4>2
    <3>4. CASE o # parent
      <4>1. ListedBy(graph, o)' = ListedBy(graph, o)
        BY <2>5, <3>1, <3>4
      <4>2. id \notin ToSet(ListedBy(graph, o))
        BY <1>p, <3>2, <3>4
      <4> QED
        BY <2>2, <2>6, <3>2, <4>1, <4>2
    <3> QED
      BY <3>3, <3>4
  <2>8. ASSUME NEW b \in Existing(blocks)'
        PROVE  /\ blocks'[b].parent \in Existing(tabs)' \cup Existing(blocks)'
               /\ b \in ToSet(ListedBy(graph, blocks[b].parent)')
    <3>1. b \in Existing(blocks) /\ b # id
      BY <2>2, <2>8
    <3>o. PICK o : o = blocks[b].parent
      OBVIOUS
    <3>2. o \in Existing(tabs) \cup Existing(blocks) /\ b \in ToSet(ListedBy(graph, o))
      BY <1>7, <3>1, <3>o, ParentFacts
    <3>3. o # id
      BY <2>4, <3>2, EmptyFacts
    <3>4. b \in ToSet(ListedBy(graph, o)')
      <4>1. ListedBy(graph, o) \in Seq(Block)
        BY <1>7, <3>2, KidsFacts
      <4>2. ToSet(ListedBy(graph, o)) \ {id} \subseteq ToSet(RemoveFirst(ListedBy(graph, o), id))
        BY <4>1, RemoveFirstFacts
      <4>3. \/ ListedBy(graph, o)' = RemoveFirst(ListedBy(graph, o), id)
            \/ ListedBy(graph, o)' = ListedBy(graph, o)
        BY <2>5, <3>2, <3>3
      <4> QED
        BY <3>1, <3>2, <4>2, <4>3
    <3>5. blocks'[b].parent = o
      BY <2>6, <3>1, <3>o
    <3>6. ListedBy(graph, blocks[b].parent)' = ListedBy(graph, o)'
      BY <3>5 DEF ListedBy, graph
    <3> QED
      BY <2>1, <2>2, <3>2, <3>3, <3>4, <3>5, <3>6
  <2>9. Existing(blocks)' \subseteq made'
    BY <1>7, <2>2 DEF RowsInv, MadeInv
  <2> QED
    BY <1>6, <1>7, <2>1, <2>7, <2>8, <2>9, KidsStep
<1> QED
  BY <1>6, <1>7

LEMMA DeleteBlockObjKeeps == ASSUME IInv, NEW p \in Call, DeleteBlockObj(p) PROVE IInv'
<1>f. PICK f : f = Top(p)
  OBVIOUS
<1>0. At(p, "deleteBlockObj")
  BY DEF DeleteBlockObj
<1>1. /\ TypeInv /\ stack[p] # <<>> /\ f = Head(stack[p]) /\ f \in FrameOf("deleteBlockObj")
      /\ f.at = "deleteBlockObj" /\ (~stale => RowsInv)
  BY <1>0, <1>f, AtFacts
<1>2. f.block \in Block /\ f.parent \in Tab \cup Block
  BY <1>1 DEF FrameOf
<1> DEFINE b == blocks[f.block]
           gone == b # NoOid /\ b.subs = <<>>
           last == Exists(b.parent) /\ RemoveFirst(ChildrenOf(b.parent), f.block) = <<>>
           g == [at |-> "DeleteBlock:tab", tab |-> f.parent]
<1>3. CASE Failed(p) \/ ~gone
  <2>1. QuietTurn(p) /\ Ends(p)
    BY <1>1, <1>3, ReturnTurns DEF DeleteBlockObj
  <2> QED
    BY <1>1, <1>3, <1>f, <2>1, QuietRows DEF DeleteBlockObj, rows
<1>4. CASE ~(Failed(p) \/ ~gone)
  <2>1. /\ RemoveBlock(f.block)
        /\ (f.parent \in Tab /\ Goto(p, g) /\ UNCHANGED result) \/ Return(p, "ok")
    <3>1. CASE f.recursive /\ f.parent \in Tab /\ last
      BY <1>1, <1>4, <3>1 DEF DeleteBlockObj
    <3>2. CASE ~(f.recursive /\ f.parent \in Tab /\ last)
      BY <1>1, <1>4, <3>2 DEF DeleteBlockObj
    <3> QED
      BY <3>1, <3>2
  <2>2. f.parent \in Tab => g \in FrameOf("DeleteBlock:tab") /\ g.at = "DeleteBlock:tab"
    BY DEF FrameOf
  <2> HIDE DEF g
  <2>3. f.parent \in Tab => QuietFrame(g)
    <3>1. f.parent \in Tab => OkWs(g)
      BY <2>2 DEF OkWs, WithWs, NewWindows
    <3> QED
      BY <2>2, <3>1, QuietAt DEF Lists, Deletes, Moves, Activates
  <2>4. QuietTurn(p) /\ Ends(p)
    BY <2>1, <2>3 DEF QuietTurn, Ends, Return
  <2>5. f.block \in Existing(blocks) /\ blocks[f.block].subs = <<>>
    BY <1>1, <1>2, <1>4, RowTypes DEF Existing
  <2>6. /\ Typed(graph)'
        /\ RowsInv => /\ MadeInv' /\ NoDangling(graph)' /\ ListedOnce(graph)' /\ Held'
                      /\ \A t \in Tab : tabs'[t] = NoOid <=> tabs[t] = NoOid
    BY <1>1, <2>1, <2>5, RemoveBlockFacts DEF DeleteBlockObj
  <2>7. stale' \in BOOLEAN /\ stale' = stale
        /\ made' \subseteq Workspace \cup Tab \cup Block \cup Window
    BY <1>1 DEF DeleteBlockObj, TypeInv
  <2> QED
    BY <1>1, <1>f, <2>4, <2>6, <2>7, BlocksStep DEF DeleteBlockObj
<1> QED
  BY <1>3, <1>4

\* A block moves from tab to another one.
LEMMA MoveFacts ==
    ASSUME TypeInv, NEW tab \in Existing(tabs), NEW to \in Existing(tabs),
           NEW id \in ToSet(tabs[tab]), id \in Existing(blocks),
           tabs' = [tabs EXCEPT ![tab] = RemoveFirst(@, id), ![to] = Append(tabs[to], id)],
           blocks' = [blocks EXCEPT ![id].parent = to],
           UNCHANGED <<workspaces, layouts, windows, client, made>>
    PROVE  /\ Typed(graph)'
           /\ RowsInv /\ to # tab =>
                 /\ MadeInv' /\ NoDangling(graph)' /\ ListedOnce(graph)' /\ Held'
                 /\ \A t \in Tab : tabs'[t] = NoOid <=> tabs[t] = NoOid
<1>1. /\ Existing(tabs) \subseteq Tab /\ Existing(blocks) \subseteq Block /\ Tab \cap Block = {}
      /\ id \in Block /\ tab \in Tab /\ to \in Tab /\ NoOid \notin Seq(Block) \cup BlockRow
      /\ tabs[tab] # NoOid /\ tabs[to] # NoOid
      /\ DOMAIN tabs = Tab /\ DOMAIN blocks = Block
  BY RowTypes, CallsAssumption DEF Existing
<1>2. tabs[tab] \in Seq(Block) /\ tabs[to] \in Seq(Block)
  BY <1>1, RowTypes
<1>3. RemoveFirst(tabs[tab], id) \in Seq(Block) /\ Append(tabs[to], id) \in Seq(Block)
  BY <1>1, <1>2, RemoveFirstFacts, AppendFacts
<1>4. /\ DOMAIN tabs' = Tab /\ tabs'[to] = Append(tabs[to], id)
      /\ tab # to => tabs'[tab] = RemoveFirst(tabs[tab], id)
      /\ \A t \in Tab \ {tab, to} : tabs'[t] = tabs[t]
  BY <1>1
<1>r. PICK r : r = blocks[id]
  OBVIOUS
<1>5. r \in BlockRow
  BY <1>1, <1>r, RowTypes DEF Existing
<1>6. /\ [r EXCEPT !.parent = to] \in BlockRow /\ [r EXCEPT !.parent = to].parent = to
      /\ [r EXCEPT !.parent = to].subs = r.subs
  BY <1>1, <1>5 DEF BlockRow
<1>7. /\ DOMAIN blocks' = Block /\ blocks'[id] = [r EXCEPT !.parent = to]
      /\ \A b \in Block \ {id} : blocks'[b] = blocks[b]
  BY <1>1, <1>r
<1>8. Typed(graph)'
  <2>1. \A t \in Tab : tabs'[t] = NoOid \/ tabs'[t] \in Seq(Block)
    BY <1>3, <1>4, RowTypes
  <2>2. \A b \in Block : blocks'[b] = NoOid \/ blocks'[b] \in BlockRow
    BY <1>6, <1>7, RowTypes
  <2> QED
    BY <1>4, <1>7, <2>1, <2>2, RowTypes DEF Typed, graph
<1>9. ASSUME RowsInv, to # tab
      PROVE  /\ MadeInv' /\ NoDangling(graph)' /\ ListedOnce(graph)' /\ Held'
             /\ \A t \in Tab : tabs'[t] = NoOid <=> tabs[t] = NoOid
  <2>1. Existing(tabs)' = Existing(tabs)
    BY <1>1, <1>3, <1>4, <1>9 DEF Existing
  <2>2. Existing(blocks)' = Existing(blocks)
    BY <1>1, <1>6, <1>7, <1>r DEF Existing
  <2>3. ASSUME NEW o \in Existing(tabs) \cup Existing(blocks)
        PROVE  ListedBy(graph, o)' = IF o = tab THEN RemoveFirst(ListedBy(graph, o), id)
                                     ELSE IF o = to THEN Append(ListedBy(graph, o), id)
                                     ELSE ListedBy(graph, o)
    <3>1. ListedBy(graph, o)' = IF o \in Tab THEN tabs'[o] ELSE blocks'[o].subs
      BY DEF ListedBy, graph
    <3>2. ListedBy(graph, o) = IF o \in Tab THEN tabs[o] ELSE blocks[o].subs
      BY DEF ListedBy, graph
    <3>3. CASE o \in Tab
      BY <1>4, <1>9, <3>1, <3>2, <3>3
    <3>4. CASE o \notin Tab
      <4>1. o \in Block /\ o # tab /\ o # to
        BY <1>1, <2>3, <3>4
      <4>2. blocks'[o].subs = blocks[o].subs
        BY <1>6, <1>7, <1>r, <4>1
      <4> QED
        BY <3>1, <3>2, <3>4, <4>1, <4>2
    <3> QED
      BY <3>3, <3>4
  <2>4. /\ \A b \in Existing(blocks) \ {id} : blocks'[b].parent = blocks[b].parent
        /\ blocks'[id].parent = to
    BY <1>1, <1>6, <1>7
  <2>5. ListedBy(graph, tab) = tabs[tab]
    BY <1>1 DEF ListedBy, graph
  <2>6. blocks[id].parent = tab
    BY <1>9, <2>5, KidsFacts
  <2>7. ASSUME NEW o \in Existing(tabs)' \cup Existing(blocks)'
        PROVE  /\ IsInjective(ListedBy(graph, o)')
               /\ \A b \in ToSet(ListedBy(graph, o)') :
                     b \in Existing(blocks)' /\ blocks'[b].parent = o
    <3>1. o \in Existing(tabs) \cup Existing(blocks)
      BY <2>1, <2>2, <2>7
    <3>2. /\ ListedBy(graph, o) \in Seq(Block) /\ IsInjective(ListedBy(graph, o))
          /\ \A b \in ToSet(ListedBy(graph, o)) : b \in Existing(blocks) /\ blocks[b].parent = o
      BY <1>9, <3>1, KidsFacts
    <3>3. CASE o = tab
      <4>1. ListedBy(graph, o)' = RemoveFirst(ListedBy(graph, o), id)
        BY <2>3, <3>1, <3>3
      <4>2. /\ IsInjective(RemoveFirst(ListedBy(graph, o), id))
            /\ ToSet(RemoveFirst(ListedBy(graph, o), id)) = ToSet(ListedBy(graph, o)) \ {id}
        BY <3>2, RemoveFirstFacts
      <4> QED
        BY <2>2, <2>4, <3>2, <4>1, <4>2
    <3>4. CASE o = to
      <4>1. ListedBy(graph, o)' = Append(ListedBy(graph, o), id)
        BY <1>9, <2>3, <3>1, <3>4
      <4>2. id \notin ToSet(ListedBy(graph, o))
        BY <1>9, <2>6, <3>2, <3>4
      <4>3. /\ IsInjective(Append(ListedBy(graph, o), id))
            /\ ToSet(Append(ListedBy(graph, o), id)) = ToSet(ListedBy(graph, o)) \cup {id}
        BY <1>1, <3>2, <4>2, AppendFacts
      <4> QED
        BY <2>2, <2>4, <3>2, <3>4, <4>1, <4>2, <4>3
    <3>5. CASE o # tab /\ o # to
      <4>1. ListedBy(graph, o)' = ListedBy(graph, o)
        BY <2>3, <3>1, <3>5
      <4>2. id \notin ToSet(ListedBy(graph, o))
        BY <2>6, <3>2, <3>5
      <4> QED
        BY <2>2, <2>4, <3>2, <4>1, <4>2
    <3> QED
      BY <3>3, <3>4, <3>5
  <2>8. ASSUME NEW b \in Existing(blocks)'
        PROVE  /\ blocks'[b].parent \in Existing(tabs)' \cup Existing(blocks)'
               /\ b \in ToSet(ListedBy(graph, blocks[b].parent)')
    <3>1. b \in Existing(blocks)
      BY <2>2, <2>8
    <3>2. CASE b = id
      <4>1. ListedBy(graph, to) \in Seq(Block)
        BY <1>9, KidsFacts
      <4>2. id \in ToSet(Append(ListedBy(graph, to), id))
        BY <1>1, <4>1, AppendFacts
      <4>3. ListedBy(graph, to)' = Append(ListedBy(graph, to), id)
        BY <1>9, <2>3
      <4>4. ListedBy(graph, blocks[b].parent)' = ListedBy(graph, to)'
        BY <2>4, <3>2 DEF ListedBy, graph
      <4> QED
        BY <2>1, <2>4, <3>2, <4>2, <4>3, <4>4
    <3>3. CASE b # id
      <4>o. PICK o : o = blocks[b].parent
        OBVIOUS
      <4>1. o \in Existing(tabs) \cup Existing(blocks) /\ b \in ToSet(ListedBy(graph, o))
        BY <1>9, <3>1, <4>o, ParentFacts
      <4>2. ListedBy(graph, o) \in Seq(Block)
        BY <1>9, <4>1, KidsFacts
      <4>3. b \in ToSet(ListedBy(graph, o)')
        <5>1. ToSet(ListedBy(graph, o)) \ {id} \subseteq ToSet(RemoveFirst(ListedBy(graph, o), id))
          BY <4>2, RemoveFirstFacts
        <5>2. ToSet(ListedBy(graph, o)) \subseteq ToSet(Append(ListedBy(graph, o), id))
          BY <1>1, <4>2, AppendFacts
        <5>3. \/ ListedBy(graph, o)' = RemoveFirst(ListedBy(graph, o), id)
              \/ ListedBy(graph, o)' = Append(ListedBy(graph, o), id)
              \/ ListedBy(graph, o)' = ListedBy(graph, o)
          BY <2>3, <4>1
        <5> QED
          BY <3>3, <4>1, <5>1, <5>2, <5>3
      <4>4. blocks'[b].parent = o
        BY <2>4, <3>1, <3>3, <4>o
      <4>5. ListedBy(graph, blocks[b].parent)' = ListedBy(graph, o)'
        BY <4>4 DEF ListedBy, graph
      <4> QED
        BY <2>1, <2>2, <4>1, <4>3, <4>4, <4>5
    <3> QED
      BY <3>2, <3>3
  <2>9. Existing(blocks)' \subseteq made'
    BY <1>9, <2>2 DEF RowsInv, MadeInv
  <2> QED
    BY <1>8, <1>9, <2>1, <2>7, <2>8, <2>9, KidsStep
<1> QED
  BY <1>8, <1>9

LEMMA MoveBlockToTabKeeps == ASSUME IInv, NEW p \in Call, MoveBlockToTab(p) PROVE IInv'
<1>f. PICK f : f = Top(p)
  OBVIOUS
<1>0. At(p, "MoveBlockToTab")
  BY DEF MoveBlockToTab
<1>1. /\ TypeInv /\ stack[p] # <<>> /\ f = Head(stack[p]) /\ f \in FrameOf("MoveBlockToTab")
      /\ f.at = "MoveBlockToTab" /\ (~stale => RowsInv /\ TopInv(f))
  BY <1>0, <1>f, AtFacts
<1>2. f.tab \in Tab /\ f.block \in Block /\ f.to \in Tab \cup {NoOid}
  BY <1>1 DEF FrameOf
<1> DEFINE possible == /\ f.to # NoOid /\ blocks[f.block] # NoOid
                       /\ tabs[f.tab] # NoOid /\ tabs[f.to] # NoOid
                       /\ f.block \in ToSet(tabs[f.tab])
           g == [at |-> "GetLayoutIdForTab", tab |-> f.tab]
           h == [at |-> "GetLayoutIdForTab", tab |-> f.to]
<1>3. CASE ~possible
  <2>1. QuietTurn(p) /\ Ends(p)
    BY <1>1, <1>3, ReturnTurns DEF MoveBlockToTab
  <2> QED
    BY <1>1, <1>3, <1>f, <2>1, QuietRows DEF MoveBlockToTab, rows
<1>4. CASE possible
  <2>1. /\ tabs' = [tabs EXCEPT ![f.tab] = RemoveFirst(@, f.block),
                                ![f.to] = Append(tabs[f.to], f.block)]
        /\ blocks' = [blocks EXCEPT ![f.block].parent = f.to]
        /\ CallThen(p, g, h) /\ UNCHANGED result
    BY <1>1, <1>4 DEF MoveBlockToTab
  <2>2. /\ f.block \in Existing(blocks) /\ f.tab \in Existing(tabs) /\ f.to \in Existing(tabs)
        /\ f.block \in ToSet(tabs[f.tab])
    BY <1>1, <1>2, <1>4, RowTypes DEF Existing
  <2>3. /\ g \in FrameOf("GetLayoutIdForTab") /\ g.at = "GetLayoutIdForTab"
        /\ h \in FrameOf("GetLayoutIdForTab") /\ h.at = "GetLayoutIdForTab"
    BY <1>2, <1>4 DEF FrameOf
  <2> HIDE DEF g, h, possible
  <2>4. QuietFrame(g) /\ QuietFrame(h)
    <3>1. OkWs(g) /\ OkWs(h)
      BY <2>3 DEF OkWs, WithWs, NewWindows
    <3> QED
      BY <2>3, <3>1, QuietAt DEF Lists, Deletes, Moves, Activates
  <2>5. QuietTurn(p) /\ Ends(p)
    BY <2>1, <2>3, <2>4 DEF QuietTurn, Ends, Waits
  <2>6. UNCHANGED <<workspaces, layouts, windows, client, made, told, calls, overlap, stale>>
    BY DEF MoveBlockToTab
  <2>7. /\ Typed(graph)'
        /\ RowsInv /\ f.to # f.tab =>
              /\ MadeInv' /\ NoDangling(graph)' /\ ListedOnce(graph)' /\ Held'
              /\ \A t \in Tab : tabs'[t] = NoOid <=> tabs[t] = NoOid
    BY <1>1, <2>1, <2>2, <2>6, MoveFacts
  <2>8. ~stale => f.to # f.tab
    BY <1>1 DEF TopInv
  <2>9. stale' \in BOOLEAN /\ made' \subseteq Workspace \cup Tab \cup Block \cup Window
    BY <1>1, <2>6 DEF TypeInv
  <2> QED
    BY <1>1, <1>f, <2>5, <2>6, <2>7, <2>8, <2>9, BlocksStep
<1> QED
  BY <1>3, <1>4

-----------------------------------------------------------------------------
(* A call starts                                                           *)

\* What a request f says of the rows that its sender sees.
Asks(f) ==
    /\ f \in Frame
    /\ f.at \notin Lists \cup Deletes
                     \cup {"writeBack", "MoveBlockToTab", "newWorkspace", "SetActiveTab:tab"}
    /\ f.at \in WithWs => f.ws \in Workspace /\ f.ws \in NewIds(f)
    /\ f.at \in NewWindows => f.window \in Window /\ f.window \in NewIds(f)
    /\ MakesWs(f) => f.ws \notin made
    /\ f.at = "MoveBlockToNewWindow" =>
          f.block \in Existing(blocks) /\ f.tab = blocks[f.block].parent /\ f.tab \in Tab
    /\ f.at = "SetActiveTab" =>
          f.ws \in Existing(workspaces) /\ f.tab \in Listed(workspaces[f.ws])

LEMMA TabAsks == ASSUME TypeInv, NEW f \in TabRequests PROVE Asks(f)
<1>1. PICK w \in Existing(workspaces) :
         f \in [at : {"DeleteTab"}, ws : {w}, tab : Listed(workspaces[w]), recursive : {TRUE}]
                 \cup [at : {"SetActiveTab"}, ws : {w}, tab : Listed(workspaces[w])]
                 \cup [at : {"ChangeTabPinning"}, ws : {w}, tab : Listed(workspaces[w]),
                       pin : BOOLEAN]
  BY DEF TabRequests
<1>2. w \in Workspace /\ Listed(workspaces[w]) \subseteq Tab
  <2>1. w \in Workspace /\ workspaces[w] \in WorkspaceRow
    BY RowTypes DEF Existing
  <2>2. workspaces[w].tabs \in Seq(Tab) /\ workspaces[w].pinned \in Seq(Tab)
    BY <2>1 DEF WorkspaceRow
  <2> QED
    BY <2>1, <2>2, ToSetIn DEF Listed
<1>3. CASE f \in [at : {"DeleteTab"}, ws : {w}, tab : Listed(workspaces[w]), recursive : {TRUE}]
  <2>1. f \in FrameOf("DeleteTab") /\ f.at = "DeleteTab"
    BY <1>2, <1>3 DEF FrameOf
  <2> QED
    BY <2>1, InFrame
       DEF Asks, Lists, Deletes, WithWs, NewWindows, MakesWs
<1>4. CASE f \in [at : {"SetActiveTab"}, ws : {w}, tab : Listed(workspaces[w])]
  <2>1. f \in FrameOf("SetActiveTab") /\ f.at = "SetActiveTab" /\ f.ws = w /\ "ws" \in DOMAIN f
        /\ f.tab \in Listed(workspaces[w])
    BY <1>2, <1>4 DEF FrameOf
  <2> QED
    BY <1>1, <1>2, <2>1, InFrame
       DEF Asks, Lists, Deletes, WithWs, NewWindows, MakesWs, NewIds
<1>5. CASE f \in [at : {"ChangeTabPinning"}, ws : {w}, tab : Listed(workspaces[w]), pin : BOOLEAN]
  <2>1. f \in FrameOf("ChangeTabPinning") /\ f.at = "ChangeTabPinning" /\ f.ws = w
        /\ "ws" \in DOMAIN f
    BY <1>2, <1>5 DEF FrameOf
  <2> QED
    BY <1>2, <2>1, InFrame
       DEF Asks, Lists, Deletes, WithWs, NewWindows, MakesWs, NewIds
<1> QED
  BY <1>1, <1>3, <1>4, <1>5

LEMMA WorkspaceAsks == ASSUME TypeInv, NEW f \in WorkspaceRequests PROVE Asks(f)
<1>1. /\ Existing(workspaces) \subseteq Workspace
      /\ \A w \in Existing(workspaces) : workspaces[w] \in WorkspaceRow
  BY RowTypes DEF Existing
<1> DEFINE more == {x \in Existing(workspaces) : Len(workspaces[x].tabs) > 1}
<1>2. CASE f \in [at : {"CreateTab"}, ws : Existing(workspaces), pinned : {FALSE}, activate : {TRUE}]
  <2>1. f \in FrameOf("CreateTab") /\ f.at = "CreateTab" /\ f.ws \in Workspace /\ "ws" \in DOMAIN f
    BY <1>1, <1>2 DEF FrameOf
  <2> QED
    BY <2>1, InFrame DEF Asks, Lists, Deletes, WithWs, NewWindows, MakesWs, NewIds
<1>3. CASE f \in [at : {"DeleteWorkspace"}, ws : Existing(workspaces), force : {TRUE}]
  <2>1. f \in FrameOf("DeleteWorkspace") /\ f.at = "DeleteWorkspace" /\ f.ws \in Workspace
        /\ "ws" \in DOMAIN f
    BY <1>1, <1>3 DEF FrameOf
  <2> QED
    BY <2>1, InFrame DEF Asks, Lists, Deletes, WithWs, NewWindows, MakesWs, NewIds
<1>4. CASE f \in [at : {"UpdateWorkspace"}, ws : Existing(workspaces)]
  <2>1. f \in FrameOf("UpdateWorkspace") /\ f.at = "UpdateWorkspace" /\ f.ws \in Workspace
        /\ "ws" \in DOMAIN f
    BY <1>1, <1>4 DEF FrameOf
  <2> QED
    BY <2>1, InFrame DEF Asks, Lists, Deletes, WithWs, NewWindows, MakesWs, NewIds
<1>5. CASE f \in {[at |-> "UpdateTabIds", ws |-> w, seen |-> workspaces[w]] : w \in more}
  <2>1. PICK w \in more : f = [at |-> "UpdateTabIds", ws |-> w, seen |-> workspaces[w]]
    BY <1>5
  <2>2. f \in FrameOf("UpdateTabIds") /\ f.at = "UpdateTabIds" /\ f.ws \in Workspace
        /\ "ws" \in DOMAIN f
    BY <1>1, <2>1 DEF FrameOf
  <2> QED
    BY <2>2, InFrame DEF Asks, Lists, Deletes, WithWs, NewWindows, MakesWs, NewIds
<1>6. CASE f \in {[at |-> "CreateWorkspace", ws |-> w, named |-> TRUE]
                     : w \in IF Unused(Workspace) = {} THEN {} ELSE {Fresh(Workspace)}}
  <2>1. PICK w \in Workspace : f = [at |-> "CreateWorkspace", ws |-> w, named |-> TRUE]
                               /\ w \notin made
    BY <1>6, FreshFacts
  <2>2. f \in FrameOf("CreateWorkspace") /\ f.at = "CreateWorkspace" /\ f.ws = w
        /\ "ws" \in DOMAIN f
    BY <2>1 DEF FrameOf
  <2> QED
    BY <2>1, <2>2, InFrame DEF Asks, Lists, Deletes, WithWs, NewWindows, MakesWs, NewIds
<1>7. \/ f \in [at : {"CreateTab"}, ws : Existing(workspaces), pinned : {FALSE}, activate : {TRUE}]
      \/ f \in [at : {"DeleteWorkspace"}, ws : Existing(workspaces), force : {TRUE}]
      \/ f \in [at : {"UpdateWorkspace"}, ws : Existing(workspaces)]
      \/ f \in {[at |-> "UpdateTabIds", ws |-> w, seen |-> workspaces[w]] : w \in more}
      \/ f \in {[at |-> "CreateWorkspace", ws |-> w, named |-> TRUE]
                   : w \in IF Unused(Workspace) = {} THEN {} ELSE {Fresh(Workspace)}}
  BY DEF WorkspaceRequests
<1> QED
  BY <1>2, <1>3, <1>4, <1>5, <1>6, <1>7

LEMMA WindowAsks == ASSUME TypeInv, NEW f \in WindowRequests PROVE Asks(f)
<1>1. Existing(workspaces) \subseteq Workspace /\ Existing(windows) \subseteq Window
  BY RowTypes DEF Existing
<1>2. CASE f \in [at : {"CloseWindow", "FocusWindow", "SetWindowPosAndSize"},
                  window : Existing(windows)]
  <2>1. /\ f \in FrameOf(f.at) /\ f.at \in {"CloseWindow", "FocusWindow", "SetWindowPosAndSize"}
    BY <1>1, <1>2 DEF FrameOf
  <2> QED
    BY <2>1, InFrame DEF Asks, Lists, Deletes, WithWs, NewWindows, MakesWs
<1>3. CASE f \in [at : {"SwitchWorkspace"}, window : Existing(windows), ws : Existing(workspaces)]
  <2>1. f \in FrameOf("SwitchWorkspace") /\ f.at = "SwitchWorkspace" /\ f.ws \in Workspace
        /\ "ws" \in DOMAIN f
    BY <1>1, <1>3 DEF FrameOf
  <2> QED
    BY <2>1, InFrame DEF Asks, Lists, Deletes, WithWs, NewWindows, MakesWs, NewIds
<1> DEFINE free == {w \in Existing(workspaces) : WindowsOf(w) = {NoOid}}
<1>4. ASSUME Unused(Window) # {},
             f \in [at : {"CreateWindow"}, window : {Fresh(Window)}, new : {FALSE}, ws : free]
      PROVE  Asks(f)
  <2>1. PICK v \in Window : v = Fresh(Window)
    BY <1>4, FreshFacts
  <2>2. /\ f \in FrameOf("CreateWindow") /\ f.at = "CreateWindow" /\ f.ws \in Workspace /\ ~f.new
        /\ f.window \in Window /\ "ws" \in DOMAIN f /\ "window" \in DOMAIN f
    BY <1>1, <1>4, <2>1 DEF FrameOf
  <2> QED
    BY <2>2, InFrame DEF Asks, Lists, Deletes, WithWs, NewWindows, MakesWs, NewIds
<1>5. ASSUME Unused(Window) # {}, Unused(Workspace) # {},
             f \in [at : {"CreateWindow"}, window : {Fresh(Window)}, new : {TRUE},
                    ws : {Fresh(Workspace)}]
      PROVE  Asks(f)
  <2>1. PICK v \in Window : v = Fresh(Window)
    BY <1>5, FreshFacts
  <2>2. PICK w \in Workspace : w = Fresh(Workspace) /\ w \notin made
    BY <1>5, FreshFacts
  <2>3. /\ f \in FrameOf("CreateWindow") /\ f.at = "CreateWindow" /\ f.ws = w /\ f.window = v
        /\ "ws" \in DOMAIN f /\ "window" \in DOMAIN f
    BY <1>5, <2>1, <2>2 DEF FrameOf
  <2> QED
    BY <2>2, <2>3, InFrame DEF Asks, Lists, Deletes, WithWs, NewWindows, MakesWs, NewIds
<1> QED
  <2>1. CASE Unused(Window) = {}
    BY <1>2, <1>3, <2>1 DEF WindowRequests
  <2>2. CASE Unused(Window) # {} /\ Unused(Workspace) = {}
    BY <1>2, <1>3, <1>4, <2>2 DEF WindowRequests
  <2>3. CASE Unused(Window) # {} /\ Unused(Workspace) # {}
    BY <1>2, <1>3, <1>4, <1>5, <2>3 DEF WindowRequests
  <2> QED
    BY <2>1, <2>2, <2>3

LEMMA BlockAsks == ASSUME TypeInv, NEW f \in BlockRequests PROVE Asks(f)
<1>1. Existing(tabs) \subseteq Tab /\ Existing(blocks) \subseteq Block
  BY RowTypes DEF Existing
<1> DEFINE tops == {b \in Existing(blocks) : blocks[b].parent \in Tab}
<1>2. CASE f \in [at : {"DeleteBlock"}, block : Existing(blocks), recursive : {TRUE}]
  <2>1. f \in FrameOf("DeleteBlock") /\ f.at = "DeleteBlock"
    BY <1>1, <1>2 DEF FrameOf
  <2> QED
    BY <2>1, InFrame DEF Asks, Lists, Deletes, WithWs, NewWindows, MakesWs
<1>3. CASE f \in [at : {"DeleteBlockCommand", "CreateSubBlock", "SetView", "setTermSize"},
                  block : tops]
  <2>1. /\ f \in FrameOf(f.at)
        /\ f.at \in {"DeleteBlockCommand", "CreateSubBlock", "SetView", "setTermSize"}
    BY <1>1, <1>3 DEF FrameOf
  <2> QED
    BY <2>1, InFrame DEF Asks, Lists, Deletes, WithWs, NewWindows, MakesWs
<1>4. CASE f \in [at : {"CreateBlock"}, tab : Existing(tabs), target : {NoOid}]
              \cup [at : {"CreateBlock"}, tab : Existing(tabs), target : tops]
  <2>1. f \in FrameOf("CreateBlock") /\ f.at = "CreateBlock"
    BY <1>1, <1>4 DEF FrameOf
  <2> QED
    BY <2>1, InFrame DEF Asks, Lists, Deletes, WithWs, NewWindows, MakesWs
<1>5. ASSUME Unused(Window) # {}, Unused(Workspace) # {},
             f \in {[at |-> "MoveBlockToNewWindow", tab |-> blocks[b].parent, block |-> b,
                     window |-> Fresh(Window), ws |-> Fresh(Workspace)] : b \in tops}
      PROVE  Asks(f)
  <2>1. PICK v \in Window : v = Fresh(Window)
    BY <1>5, FreshFacts
  <2>2. PICK w \in Workspace : w = Fresh(Workspace) /\ w \notin made
    BY <1>5, FreshFacts
  <2>3. PICK b \in tops : f = [at |-> "MoveBlockToNewWindow", tab |-> blocks[b].parent,
                               block |-> b, window |-> v, ws |-> w]
    BY <1>5, <2>1, <2>2
  <2>4. /\ f \in FrameOf("MoveBlockToNewWindow") /\ f.at = "MoveBlockToNewWindow"
        /\ f.ws = w /\ f.window = v /\ f.block = b /\ f.tab = blocks[b].parent
        /\ f.tab \in Tab /\ b \in Existing(blocks)
        /\ "ws" \in DOMAIN f /\ "window" \in DOMAIN f
    BY <1>1, <2>3 DEF FrameOf
  <2> QED
    BY <2>2, <2>4, InFrame DEF Asks, Lists, Deletes, WithWs, NewWindows, MakesWs, NewIds
<1> QED
  <2>1. CASE Unused(Window) = {} \/ Unused(Workspace) = {}
    BY <1>2, <1>3, <1>4, <2>1 DEF BlockRequests
  <2>2. CASE ~(Unused(Window) = {} \/ Unused(Workspace) = {})
    BY <1>2, <1>3, <1>4, <1>5, <2>2 DEF BlockRequests
  <2> QED
    BY <2>1, <2>2

LEMMA StartKeeps == ASSUME IInv, NEW p \in Call, Start(p) PROVE IInv'
<1>1. TypeInv /\ (~stale => RowsInv /\ CallsInv)
  BY DEF IInv
<1>2. PICK f \in TabRequests \cup WorkspaceRequests \cup WindowRequests \cup BlockRequests :
         stack' = [stack EXCEPT ![p] = <<f>>] /\ made' = made \cup NewIds(f)
  BY DEF Start
<1>3. Asks(f)
  BY <1>1, <1>2, TabAsks, WorkspaceAsks, WindowAsks, BlockAsks
<1>4. /\ stack[p] = <<>> /\ calls < MaxCalls /\ calls' = calls + 1
      /\ overlap' = (overlap \/ ~Idle) /\ result' = [result EXCEPT ![p] = "ok"]
      /\ UNCHANGED <<workspaces, tabs, layouts, blocks, windows, client, told, stale>>
  BY DEF Start
<1>5. Leads(p, f, {}) /\ Top(p) = NoFrame
  <2>1. /\ DOMAIN stack' = Call /\ stack'[p] = <<f>>
        /\ \A q \in Call \ {p} : stack'[q] = stack[q]
    BY <1>1, <1>2 DEF TypeInv
  <2>2. StackOf(<<f>>)
    BY <1>3 DEF StackOf, Asks
  <2>3. \A q \in Call : StackOf(stack[q])'
    BY <1>1, <2>1, <2>2 DEF TypeInv
  <2>4. Top(p)' = f /\ Under(p)' = {}
    BY <2>1 DEF Top, Under
  <2> QED
    BY <1>4, <2>1, <2>3, <2>4 DEF Leads, Top
<1>6. TypeInv'
  <2>1. graph' = graph
    BY <1>4 DEF graph
  <2>2. result' \in [Call -> {"ok", "error", "panic"}]
    BY <1>1, <1>4 DEF TypeInv, TypeOK
  <2>3. calls' \in 0 .. MaxCalls
    BY <1>1, <1>4, CallsAssumption DEF TypeInv, TypeOK
  <2>4. made' \subseteq Workspace \cup Tab \cup Block \cup Window
    BY <1>1, <1>2 DEF TypeInv, NewIds
  <2>5. overlap' \in BOOLEAN
    BY <1>1, <1>4 DEF TypeInv
  <2> QED
    BY <1>1, <1>4, <1>5, <2>1, <2>2, <2>3, <2>4, <2>5 DEF TypeInv, TypeOK, Leads
<1>7. ASSUME ~stale' PROVE RowsInv' /\ CallsInv'
  <2>1. RowsInv /\ CallsInv
    BY <1>1, <1>4, <1>7
  <2>2. MakesWs(f) => workspaces[f.ws] = NoOid
    BY <1>1, <1>3, <2>1, RowTypes DEF Asks, RowsInv, MadeInv, Existing, MakesWs, WithWs
  <2>3. TopInv(f)'
    BY <1>3, <1>4, <2>2 DEF Asks, TopInv, Lists, Deletes
  <2>4. f.at = "MoveBlockToNewWindow" => f.tab \in made
    <3>1. f.at = "MoveBlockToNewWindow" => f.tab \in Existing(tabs) \cup Existing(blocks)
      BY <1>1, <1>3, <2>1, ParentFacts DEF Asks
    <3> QED
      BY <2>1, <3>1 DEF RowsInv, MadeInv
  <2>5. RowInv(f)'
    <3>1. MadeFrame(f)'
      BY <1>2, <1>3, <2>4 DEF MadeFrame, Asks, Moves
    <3> QED
      BY <1>3, <1>4, <2>2, <3>1 DEF RowInv, Asks, Deletes, Moves, MakesWs
  <2>6. ASSUME NEW q \in Call
        PROVE  PairInv(Top(q), f) /\ ApartInv(f, Top(q)) /\ ApartInv(Top(q), f)
    <3>1. MadeFrame(Top(q))
      BY <2>1 DEF CallsInv, RowInv, FramesOf
    <3>2. Top(q).at \in WithWs => Top(q).ws \in made
      BY <3>1 DEF MadeFrame
    <3>3. PairInv(Top(q), f)
      BY <1>3, <3>2 DEF PairInv, Asks, Moves, Lists, Activates, WithWs, MakesWs
    <3>4. MakesWs(f) /\ MakesWs(Top(q)) => f.ws # Top(q).ws
      BY <1>3, <3>2 DEF Asks, MakesWs, WithWs
    <3> QED
      BY <1>3, <3>3, <3>4 DEF ApartInv, Asks, Deletes
  <2>7. ASSUME NEW q \in Call, NEW x \in FramesOf(q) PROVE PairInv(f, x)
    <3>1. RowInv(x)
      BY <2>1, <2>7 DEF CallsInv
    <3>2. x.at \in Moves /\ f.at = "SetActiveTab" /\ f.ws = x.ws => f.tab # x.tab
      BY <1>3, <3>1 DEF RowInv, Asks, Existing
    <3> QED
      BY <1>3, <3>2 DEF PairInv, Asks, Activates
  <2>8. PairInv(f, f)
    BY <1>3 DEF PairInv, Asks, Moves, Lists, Activates
  <2>9. \A q \in Call : \A x \in {Top(q)} : TopInv(x)'
    BY <1>4, <2>1, TopKept DEF CallsInv
  <2>10. \A q \in Call : \A x \in FramesOf(q) : RowInv(x)'
    BY <1>2, <1>4, <2>1, RowKept DEF CallsInv
  <2>11. CallsInv'
    BY <1>5, <2>1, <2>3, <2>5, <2>6, <2>7, <2>8, <2>9, <2>10, CallsStep
  <2>12. OrphansInv'
    BY <1>4, <1>5, <2>1, OrphansKept, NoFrameFacts DEF RowsInv
  <2>13. MadeInv'
    BY <1>2, <1>4, <2>1 DEF RowsInv, MadeInv, Existing
  <2> QED
    BY <1>4, <2>1, <2>11, <2>12, <2>13, GraphKept DEF RowsInv
<1> QED
  BY <1>6, <1>7 DEF IInv

-----------------------------------------------------------------------------
(* The invariant holds                                                     *)

LEMMA InitHolds == ASSUME Init PROVE IInv
<1>1. PICK g \in Graphs :
         /\ workspaces = g.workspaces /\ tabs = g.tabs /\ layouts = g.layouts
         /\ blocks = g.blocks /\ windows = g.windows /\ client = g.client
         /\ made = Existing(g.workspaces) \cup Existing(g.tabs)
                     \cup Existing(g.blocks) \cup Existing(g.windows)
  BY DEF Init
<1>2. /\ Typed(g) /\ ListedOnce(g) /\ NoDangling(g) /\ NoOrphans(g) /\ WindowsAgree(g, {})
  BY CallsAssumption DEF Sound
<1>3. /\ stack = [p \in Call |-> <<>>] /\ result = [p \in Call |-> "ok"]
      /\ told = {} /\ calls = 0 /\ overlap = FALSE /\ stale = FALSE
  BY DEF Init
<1>4. Typed(graph)
  BY <1>1, <1>2 DEF Typed, graph
<1>5. /\ DOMAIN workspaces = Workspace /\ DOMAIN tabs = Tab /\ DOMAIN blocks = Block
      /\ windows \in [Window -> Workspace \cup {NoOid}]
  BY <1>4 DEF Typed, graph
<1>6. TypeInv
  <2>1. made \subseteq Workspace \cup Tab \cup Block \cup Window
    BY <1>1, <1>5 DEF Existing
  <2>2. StackOf(<<>>)
    BY DEF StackOf
  <2>3. calls \in 0 .. MaxCalls
    BY <1>3, CallsAssumption
  <2> QED
    BY <1>3, <1>4, <2>1, <2>2, <2>3 DEF TypeInv, TypeOK
<1>7. NoDangling(graph)
  BY <1>1, <1>2 DEF NoDangling, graph, ListedBy
<1>8. ListedOnce(graph)
  BY <1>1, <1>2 DEF ListedOnce, graph, ListedBy
<1>9. MadeInv
  <2>1. ASSUME NEW w \in Existing(windows) PROVE windows[w] \in made
    <3>1. w \in Window /\ windows[w] # NoOid /\ workspaces[windows[w]] # NoOid
      BY <1>1, <1>2, <1>5, <2>1 DEF WindowsAgree, Existing
    <3>2. windows[w] \in Existing(workspaces)
      BY <1>5, <3>1 DEF Existing
    <3> QED
      BY <1>1, <3>2
  <2> QED
    BY <1>1, <2>1 DEF MadeInv
<1>10. OrphansInv
  <2>1. \A t \in Existing(tabs) : ~Unlisted(t)
    BY <1>1, <1>2 DEF NoOrphans, Unlisted
  <2>2. layouts = Existing(tabs)
    BY <1>1, <1>2 DEF NoOrphans
  <2>3. ASSUME NEW b \in Existing(blocks)
        PROVE  Exists(blocks[b].parent) /\ b \in ToSet(ChildrenOf(blocks[b].parent))
    <3>1. /\ blocks[b].parent \in Existing(tabs) \cup Existing(blocks)
          /\ b \in ToSet(ListedBy(graph, blocks[b].parent))
      BY <1>1, <1>2, <2>3 DEF NoOrphans, ListedBy, graph
    <3>2. Exists(blocks[b].parent)
      BY <1>5, <3>1, CallsAssumption DEF Exists, Existing
    <3>3. ChildrenOf(blocks[b].parent) = ListedBy(graph, blocks[b].parent)
      BY DEF ChildrenOf, ListedBy, graph
    <3> QED
      BY <3>1, <3>2, <3>3
  <2> QED
    BY <2>1, <2>2, <2>3 DEF OrphansInv, Existing
<1>11. CallsInv
  <2>1. \A q \in Call : Top(q) = NoFrame /\ FramesOf(q) = {NoFrame}
    BY <1>3 DEF Top, FramesOf, Under
  <2>2. NoFrame.at = "none"
    BY DEF NoFrame
  <2>3. TopInv(NoFrame) /\ RowInv(NoFrame)
    BY <2>2 DEF TopInv, RowInv, MadeFrame, MakesWs, Lists, Deletes, Moves, WithWs, NewWindows
  <2>4. ApartInv(NoFrame, NoFrame) /\ PairInv(NoFrame, NoFrame)
    BY <2>2 DEF ApartInv, PairInv, MakesWs, Lists, Deletes, Moves
  <2> QED
    BY <2>1, <2>3, <2>4 DEF CallsInv
<1> QED
  BY <1>6, <1>7, <1>8, <1>9, <1>10, <1>11 DEF IInv, RowsInv

LEMMA StutterKeeps == ASSUME IInv, UNCHANGED vars PROVE IInv'
<1>1. UNCHANGED <<workspaces, tabs, layouts, blocks, windows, client, made,
                  stack, result, told, calls, overlap, stale>>
  BY DEF vars
<1>2. graph' = graph
  BY <1>1 DEF graph
<1>3. \A q \in Call : Top(q)' = Top(q) /\ FramesOf(q)' = FramesOf(q)
  BY <1>1 DEF Top, FramesOf, Under
<1>4. TypeInv'
  BY <1>1, <1>2 DEF IInv, TypeInv, TypeOK
<1>5. ASSUME ~stale' PROVE RowsInv' /\ CallsInv'
  <2>1. RowsInv /\ CallsInv
    BY <1>1, <1>5 DEF IInv
  <2>2. \A t : Unlisted(t)' <=> Unlisted(t)
    BY <1>1 DEF Unlisted, Existing
  <2>3. OrphansInv'
    BY <1>1, <1>3, <2>1, <2>2
       DEF RowsInv, OrphansInv, Existing, Exists, ChildrenOf
  <2>4. MadeInv'
    BY <1>1, <2>1 DEF RowsInv, MadeInv, Existing
  <2>5. CallsInv'
    <3>1. \A f : TopInv(f)' <=> TopInv(f)
      BY <1>1, <2>2 DEF TopInv
    <3>2. \A f : RowInv(f)' <=> RowInv(f)
      BY <1>1 DEF RowInv, MadeFrame
    <3> QED
      BY <1>3, <2>1, <3>1, <3>2 DEF CallsInv
  <2> QED
    BY <1>1, <2>1, <2>3, <2>4, <2>5, GraphKept DEF RowsInv
<1> QED
  BY <1>4, <1>5 DEF IInv

LEMMA NextKeeps == ASSUME IInv, [Next]_vars PROVE IInv'
<1>1. ASSUME NEW p \in Call, DeleteSteps(p) PROVE IInv'
  BY <1>1, DeleteBlockKeeps, DeleteSubBlockKeeps, DeleteBlockObjKeeps,
     DeleteEmptyTabKeeps, DeleteTabKeeps, ReadTabKeeps, DeleteTabBlockKeeps,
     UnlistTabKeeps, DeleteTabRowKeeps, DeleteLayoutRowKeeps, CloseEmptyWindowKeeps,
     CloseWindowKeeps, DeleteWindowRowKeeps, ReadClientKeeps, ForgetWindowKeeps,
     DeleteWorkspaceKeeps, ListWorkspacesKeeps, KeepOrEmptyKeeps,
     DeleteWorkspaceTabKeeps, FindWindowKeeps, DeleteWorkspaceRowKeeps
     DEF DeleteSteps
<1>2. ASSUME NEW p \in Call, CreateSteps(p) PROVE IInv'
  BY <1>2, CreateTabKeeps, CreateTabObjKeeps, InsertTabKeeps, ListTabKeeps,
     CreateFirstBlockKeeps, GetLayoutIdForTabKeeps, QueueLayoutActionKeeps,
     CreateWorkspaceKeeps, NameWorkspaceKeeps, CreateWindowKeeps, InsertWindowKeeps,
     CreateBlockKeeps, QueueAfterReplaceKeeps, CreateSubBlockKeeps
     DEF CreateSteps
<1>3. ASSUME NEW p \in Call, UpdateSteps(p) PROVE IInv'
  BY <1>3, ReadForActiveKeeps, CheckTabKeeps, ChangeTabPinningKeeps, UpdateTabIdsKeeps,
     UpdateWorkspaceKeeps, WriteBackKeeps, GetClientDataKeeps, UpdateClientKeeps,
     SwitchWorkspaceKeeps, GetWindowKeeps, CheckOtherWindowsKeeps, UpdateWindowKeeps,
     SetWindowPosAndSizeKeeps, ReadBlockKeeps, UpdateBlockKeeps,
     MoveBlockToNewWindowKeeps, ReadNewWorkspaceKeeps, MoveBlockToTabKeeps,
     DeleteBlockCommandKeeps
     DEF UpdateSteps
<1> QED
  BY <1>1, <1>2, <1>3, StartKeeps, StutterKeeps DEF Next, Step

\* What ObjectGraph promises follows.
LEMMA RowsAgree == ASSUME IInv PROVE OnlyStaleWritesHarm
<1>1. SUFFICES ASSUME ~stale
               PROVE  NoDangling(graph) /\ ListedOnce(graph) /\ (Idle => NoOrphans(graph))
  BY DEF OnlyStaleWritesHarm
<1>2. RowsInv /\ TypeInv
  BY <1>1 DEF IInv
<1>3. ASSUME Idle PROVE NoOrphans(graph)
  <2>1. \A q \in Call : Top(q).at = "none"
    BY <1>3 DEF Idle, Top, NoFrame
  <2>2. ASSUME NEW t \in Existing(tabs)
        PROVE  \E w \in Existing(workspaces) : t \in Listed(workspaces[w])
    BY <1>2, <2>1 DEF RowsInv, OrphansInv, Unlisted
  <2>3. layouts = Existing(tabs)
    BY <1>2, <2>1, RowTypes DEF RowsInv, OrphansInv, Existing
  <2>4. \A b \in Existing(blocks) :
           /\ blocks[b].parent \in Existing(tabs) \cup Existing(blocks)
           /\ b \in ToSet(ListedBy(graph, blocks[b].parent))
    BY <1>2, ParentFacts
  <2> QED
    BY <2>2, <2>3, <2>4 DEF NoOrphans, ListedBy, graph
<1> QED
  BY <1>2, <1>3 DEF RowsInv

\* Every step of every call leaves the invariant, whatever the others do
\* between its steps.
THEOREM Inductive == Spec => []IInv
BY InitHolds, NextKeeps, PTL DEF Spec

\* Rows have their shape, even when stale ones are written.
THEOREM TypeCorrect == Spec => []TypeOK
<1>1. IInv => TypeOK
  BY DEF IInv, TypeInv
<1> QED
  BY <1>1, Inductive, PTL

\* wcore's functions take no lock and each commits its transactions one by
\* one, in an order that leaves no dangling reference: but for rows that are
\* written over changes not read, the graph is sound after each of them and
\* nothing is left over when all calls are done.
THEOREM OnlyStaleHarms == Spec => []OnlyStaleWritesHarm
BY Inductive, RowsAgree, PTL
=============================================================================
