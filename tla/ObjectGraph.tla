---------------------------- MODULE ObjectGraph ----------------------------
(***************************************************************************)
(* The object graph of wcore over the rows of wstore: a client with its    *)
(* windows, a window that shows a workspace, a workspace with its tabs, a  *)
(* tab with its blocks and a block with its subblocks.                     *)
(*                                                                         *)
(* A service call is a stack of frames, one per Go function that it is in: *)
(* wcore's functions call each other and even themselves (closing the last *)
(* block closes the tab, the window and the workspace).  Every access of   *)
(* the database is one step, because the database has one connection and   *)
(* a transaction is one step for everybody else; what a function read      *)
(* stays in its frame and is written back whole by a later step.           *)
(***************************************************************************)
EXTENDS Naturals, Sequences, FiniteSets, SequencesExt

CONSTANTS
    Workspace, Tab, Block, Window,  \* the ids that uuid.NewString may return
    Call,                           \* goroutines that run a service call
    NoOid,                          \* the empty id, and the row that is not there
    MaxCalls,                       \* how many calls a behaviour starts
    Graphs                          \* the databases that the program may start with

WorkspaceRow == [tabs : Seq(Tab), pinned : Seq(Tab), active : Tab \cup {NoOid}, named : BOOLEAN]
BlockRow     == [parent : Tab \cup Block, subs : Seq(Block)]

VARIABLES
    workspaces,  \* db_workspace: id -> row or NoOid
    tabs,        \* db_tab: id -> its block ids, or NoOid
    layouts,     \* the tabs whose layout state has a row in db_layout
    blocks,      \* db_block: id -> row or NoOid
    windows,     \* db_window: id -> the workspace that it shows, or NoOid
    client,      \* the window ids of the single row of db_client
    made,        \* ids given out so far
    stack,       \* the frames of each call, the running function first
    result,      \* how the function that a call returned from last ended
    told,        \* windows whose user interface was told to claim another workspace
    calls,       \* calls started
    overlap,     \* two calls have been running at the same time
    stale        \* a row was overwritten or deleted over a change its writer had not read

----------------------------------------------------------------------------
(* What a database g of the rows above has to agree on.                    *)

Existing(table) == {id \in DOMAIN table : table[id] # NoOid}
Listed(w) == ToSet(w.tabs) \cup ToSet(w.pinned)
ListedBy(g, o) == IF o \in Tab THEN g.tabs[o] ELSE g.blocks[o].subs

\* A tab is listed by one workspace and there once, and so is a block by its
\* parent.
ListedOnce(g) ==
    /\ \A w \in Existing(g.workspaces) :
          /\ IsInjective(g.workspaces[w].tabs) /\ IsInjective(g.workspaces[w].pinned)
          /\ ToSet(g.workspaces[w].tabs) \cap ToSet(g.workspaces[w].pinned) = {}
          /\ \A v \in Existing(g.workspaces) \ {w} :
                Listed(g.workspaces[v]) \cap Listed(g.workspaces[w]) = {}
    /\ \A o \in Existing(g.tabs) \cup Existing(g.blocks) : IsInjective(ListedBy(g, o))

\* A tab that a workspace lists has its row, and each block that a tab or a
\* block lists has its row and names that parent.
NoDangling(g) ==
    /\ \A w \in Existing(g.workspaces) : Listed(g.workspaces[w]) \subseteq Existing(g.tabs)
    /\ \A o \in Existing(g.tabs) \cup Existing(g.blocks) : \A b \in ToSet(ListedBy(g, o)) :
          b \in Existing(g.blocks) /\ g.blocks[b].parent = o

\* Each block has its parent, and each tab its workspace and its layout.
NoOrphans(g) ==
    /\ \A t \in Existing(g.tabs) :
          \E w \in Existing(g.workspaces) : t \in Listed(g.workspaces[w])
    /\ g.layouts = Existing(g.tabs)
    /\ \A b \in Existing(g.blocks) :
          /\ g.blocks[b].parent \in Existing(g.tabs) \cup Existing(g.blocks)
          /\ b \in ToSet(ListedBy(g, g.blocks[b].parent))

\* The client lists the windows, each once; each shows a workspace that is
\* there and that no other window shows, unless its user interface was told to
\* claim another one; and a workspace's active tab is one of its own.
WindowsAgree(g, excused) ==
    /\ ToSet(g.client) = Existing(g.windows) /\ IsInjective(g.client)
    /\ \A w \in Existing(g.windows) :
          /\ w \notin excused => g.workspaces[g.windows[w]] # NoOid
          /\ \A v \in Existing(g.windows) \ {w} : g.windows[v] # g.windows[w]
    /\ \A w \in Existing(g.workspaces) :
          g.workspaces[w].active \in Listed(g.workspaces[w]) \cup {NoOid}

Typed(g) ==
    /\ \A w \in Workspace : g.workspaces[w] = NoOid \/ g.workspaces[w] \in WorkspaceRow
    /\ \A t \in Tab : g.tabs[t] = NoOid \/ g.tabs[t] \in Seq(Block)
    /\ \A b \in Block : g.blocks[b] = NoOid \/ g.blocks[b] \in BlockRow
    /\ g.windows \in [Window -> Workspace \cup {NoOid}] /\ g.client \in Seq(Window)
    /\ g.layouts \subseteq Tab
    /\ DOMAIN g.workspaces = Workspace /\ DOMAIN g.tabs = Tab /\ DOMAIN g.blocks = Block

Sound(g) == Typed(g) /\ ListedOnce(g) /\ NoDangling(g) /\ NoOrphans(g) /\ WindowsAgree(g, {})

ASSUME CallsAssumption ==
    /\ MaxCalls \in Nat /\ Call # {}
    /\ NoOid \notin Workspace \cup Tab \cup Block \cup Window
    /\ NoOid \notin WorkspaceRow \cup Seq(Block) \cup BlockRow
    /\ Tab \cap Block = {} /\ Workspace \cap (Tab \cup Block) = {}
    /\ Window \cap (Workspace \cup Tab \cup Block) = {}
    /\ \A g \in Graphs : Sound(g)

----------------------------------------------------------------------------
rows == <<workspaces, tabs, layouts, blocks, windows, client, made>>
vars == <<workspaces, tabs, layouts, blocks, windows, client, made,
          stack, result, told, calls, overlap, stale>>

ChildrenOf(o) == IF o \in Tab THEN tabs[o] ELSE blocks[o].subs
Exists(o) == IF o \in Tab THEN tabs[o] # NoOid ELSE blocks[o] # NoOid
Unused(ids) == ids \ made
Fresh(ids) == CHOOSE id \in Unused(ids) : TRUE

Idle == \A p \in Call : stack[p] = <<>>

----------------------------------------------------------------------------
(* The stack of a call.                                                    *)

At(p, step) == stack[p] # <<>> /\ Head(stack[p]).at = step

\* The running function goes on with frame f.
Goto(p, f) == stack' = [stack EXCEPT ![p] = <<f>> \o Tail(@)]

\* It calls g and goes on with f when g has returned.
CallThen(p, g, f) == stack' = [stack EXCEPT ![p] = <<g, f>> \o Tail(@)]

\* It returns.
Return(p, r) == /\ stack' = [stack EXCEPT ![p] = Tail(@)]
                /\ result' = [result EXCEPT ![p] = r]

\* A nil object is used: the panic ends the whole call.
Panic(p) == /\ stack' = [stack EXCEPT ![p] = <<>>]
            /\ result' = [result EXCEPT ![p] = "panic"]

Failed(p) == result[p] = "error"

----------------------------------------------------------------------------
(* The rows.  DBUpdate replaces a row that is there and does nothing for   *)
(* one that is not; it never compares versions.                            *)

UpdateWorkspaceRow(id, read, new) ==
    /\ workspaces' = [workspaces EXCEPT ![id] = IF @ = NoOid THEN NoOid ELSE new]
    /\ stale' = (stale \/ workspaces[id] # read)

UpdateClientRow(read, new) ==
    /\ client' = new
    /\ stale' = (stale \/ client # read)

\* createBlockObj and createSubBlockObj: one transaction.
InsertBlock(parent, id) ==
    /\ blocks' = [b \in Block |->
                     IF b = id THEN [parent |-> parent, subs |-> <<>>]
                     ELSE IF b = parent THEN [blocks[b] EXCEPT !.subs = Append(@, id)]
                     ELSE blocks[b]]
    /\ tabs' = [t \in Tab |-> IF t = parent THEN Append(tabs[t], id) ELSE tabs[t]]
    /\ made' = made \cup {id}

\* deleteBlockObj: one transaction, for a block without subblocks.
RemoveBlock(id) ==
    LET parent == blocks[id].parent
    IN /\ blocks' = [b \in Block |->
                        IF b = id THEN NoOid
                        ELSE IF b = parent /\ blocks[b] # NoOid
                             THEN [blocks[b] EXCEPT !.subs = RemoveFirst(@, id)]
                             ELSE blocks[b]]
       /\ tabs' = [t \in Tab |-> IF t = parent /\ tabs[t] # NoOid
                                 THEN RemoveFirst(tabs[t], id) ELSE tabs[t]]
----------------------------------------------------------------------------
(* DeleteBlock(blockId, recursive)                                         *)

DeleteBlock(p) ==
    /\ At(p, "DeleteBlock")
    /\ LET f == Head(stack[p])
           b == blocks[f.block]
       IN IF b = NoOid
          THEN Return(p, "ok")
          ELSE /\ Goto(p, [at |-> "deleteBlockObj", block |-> f.block,
                           recursive |-> f.recursive, parent |-> b.parent, todo |-> b.subs])
               /\ result' = [result EXCEPT ![p] = "ok"]
    /\ UNCHANGED <<rows, told, calls, overlap, stale>>

\* The subblocks that were read first, then the block itself.
DeleteSubBlock(p) ==
    /\ At(p, "deleteBlockObj")
    /\ LET f == Head(stack[p])
       IN /\ ~Failed(p) /\ f.todo # <<>>
          /\ CallThen(p, [at |-> "DeleteBlock", block |-> Head(f.todo),
                          recursive |-> f.recursive],
                         [f EXCEPT !.todo = Tail(@)])
    /\ UNCHANGED <<rows, result, told, calls, overlap, stale>>

DeleteBlockObj(p) ==
    /\ At(p, "deleteBlockObj")
    /\ LET f == Head(stack[p])
           b == blocks[f.block]
           gone == b # NoOid /\ b.subs = <<>>
           last == Exists(b.parent) /\ RemoveFirst(ChildrenOf(b.parent), f.block) = <<>>
       IN /\ Failed(p) \/ f.todo = <<>>
          /\ IF Failed(p) \/ ~gone
             THEN Return(p, "error") /\ UNCHANGED <<blocks, tabs>>
             ELSE /\ RemoveBlock(f.block)
                  /\ IF f.recursive /\ f.parent \in Tab /\ last
                     THEN /\ Goto(p, [at |-> "DeleteBlock:tab", tab |-> f.parent])
                          /\ UNCHANGED result
                     ELSE Return(p, "ok")
    /\ UNCHANGED <<workspaces, layouts, windows, client, made, told, calls, overlap, stale>>

\* DBFindWorkspaceForTabId: the workspace of the tab that has no blocks left.
DeleteEmptyTab(p) ==
    /\ At(p, "DeleteBlock:tab")
    /\ LET t == Head(stack[p]).tab
           owners == {w \in Existing(workspaces) : t \in Listed(workspaces[w])}
       IN \E w \in IF owners = {} THEN {NoOid} ELSE owners :
             Goto(p, [at |-> "DeleteTab", ws |-> w, tab |-> t, recursive |-> TRUE])
    /\ UNCHANGED <<rows, result, told, calls, overlap, stale>>

----------------------------------------------------------------------------
(* DeleteTab(workspaceId, tabId, recursive)                                *)

Without(w, t) == IF t \in ToSet(w.tabs) THEN [w EXCEPT !.tabs = RemoveFirst(@, t)]
                                        ELSE [w EXCEPT !.pinned = RemoveFirst(@, t)]

\* The tab that becomes active when t goes: its left neighbour, or the first.
NewActive(read, t) ==
    LET left == Without(read, t)
        idx == SelectInSeq(read.tabs, LAMBDA x : x = t)
    IN CASE read.active # t -> read.active
         [] read.active = t /\ left.tabs # <<>> ->
              IF idx > 1 THEN left.tabs[idx - 1] ELSE left.tabs[1]
         [] read.active = t /\ left.tabs = <<>> /\ left.pinned # <<>> -> left.pinned[1]
         [] OTHER -> NoOid

DeleteTab(p) ==
    /\ At(p, "DeleteTab")
    /\ LET f == Head(stack[p])
           w == IF f.ws = NoOid THEN NoOid ELSE workspaces[f.ws]
       IN IF w = NoOid \/ f.tab \notin Listed(w)
          THEN Return(p, "error")
          ELSE /\ Goto(p, [at |-> "DeleteTab:tab", ws |-> f.ws, tab |-> f.tab,
                           recursive |-> f.recursive, read |-> w])
               /\ UNCHANGED result
    /\ UNCHANGED <<rows, told, calls, overlap, stale>>

\* Mutant: the row goes while the workspace still lists it.
ReadTab_DeletesRow(p) ==
    /\ At(p, "DeleteTab:tab")
    /\ LET f == Head(stack[p])
           t == tabs[f.tab]
       IN Goto(p, [at |-> "DeleteTab:blocks", ws |-> f.ws, tab |-> f.tab,
                   recursive |-> f.recursive, read |-> f.read,
                   found |-> t # NoOid, todo |-> IF t = NoOid THEN <<>> ELSE t])
    /\ tabs' = [tabs EXCEPT ![Head(stack[p]).tab] = NoOid]
    /\ result' = [result EXCEPT ![p] = "ok"]
    /\ UNCHANGED <<workspaces, layouts, blocks, windows, client, made,
                   told, calls, overlap, stale>>

ReadTab(p) ==
    /\ At(p, "DeleteTab:tab")
    /\ LET f == Head(stack[p])
           t == tabs[f.tab]
       IN Goto(p, [at |-> "DeleteTab:blocks", ws |-> f.ws, tab |-> f.tab,
                   recursive |-> f.recursive, read |-> f.read,
                   found |-> t # NoOid, todo |-> IF t = NoOid THEN <<>> ELSE t])
    /\ result' = [result EXCEPT ![p] = "ok"]
    /\ UNCHANGED <<rows, told, calls, overlap, stale>>

\* Mutant: the block stays on the list of those to delete.
DeleteTabBlock_Again(p) ==
    /\ At(p, "DeleteTab:blocks")
    /\ LET f == Head(stack[p])
       IN /\ ~Failed(p) /\ f.todo # <<>>
          /\ CallThen(p, [at |-> "DeleteBlock", block |-> Head(f.todo), recursive |-> FALSE], f)
    /\ UNCHANGED <<rows, result, told, calls, overlap, stale>>

DeleteTabBlock(p) ==
    /\ At(p, "DeleteTab:blocks")
    /\ LET f == Head(stack[p])
       IN /\ ~Failed(p) /\ f.todo # <<>>
          /\ CallThen(p, [at |-> "DeleteBlock", block |-> Head(f.todo), recursive |-> FALSE],
                         [f EXCEPT !.todo = Tail(@)])
    /\ UNCHANGED <<rows, result, told, calls, overlap, stale>>

\* The workspace that was read at the start is written back without the tab.
UnlistTab(p) ==
    /\ At(p, "DeleteTab:blocks")
    /\ LET f == Head(stack[p])
           active == NewActive(f.read, f.tab)
       IN /\ Failed(p) \/ f.todo = <<>>
          /\ IF Failed(p)
             THEN Return(p, "error") /\ UNCHANGED <<workspaces, stale>>
             ELSE /\ UpdateWorkspaceRow(f.ws, f.read,
                                        [Without(f.read, f.tab) EXCEPT !.active = active])
                  /\ Goto(p, [at |-> "DeleteTab:delete", ws |-> f.ws, tab |-> f.tab,
                              found |-> f.found, close |-> f.recursive /\ active = NoOid])
                  /\ UNCHANGED result
    /\ UNCHANGED <<tabs, layouts, blocks, windows, client, made, told, calls, overlap>>

\* The row of the tab, with the blocks that it may list by now.
DeleteTabRow(p) ==
    /\ At(p, "DeleteTab:delete")
    /\ LET f == Head(stack[p])
       IN /\ stale' = (stale \/ tabs[f.tab] \notin {NoOid, <<>>})
          /\ tabs' = [tabs EXCEPT ![f.tab] = NoOid]
          /\ Goto(p, [f EXCEPT !.at = "DeleteTab:layout"])
    /\ UNCHANGED <<workspaces, layouts, blocks, windows, client, made,
                   result, told, calls, overlap>>

DeleteLayoutRow(p) ==
    /\ At(p, "DeleteTab:layout")
    /\ LET f == Head(stack[p])
       IN /\ layouts' = IF f.found THEN layouts \ {f.tab} ELSE layouts
          /\ IF f.close
             THEN Goto(p, [at |-> "DeleteTab:window", ws |-> f.ws]) /\ UNCHANGED result
             ELSE Return(p, "ok")
    /\ UNCHANGED <<workspaces, tabs, blocks, windows, client, made, told, calls, overlap, stale>>

\* DBFindWindowForWorkspaceId: a window that shows the workspace, or "".
WindowsOf(ws) ==
    LET shows == {w \in Existing(windows) : windows[w] = ws}
    IN IF shows = {} THEN {NoOid} ELSE shows

CloseEmptyWindow(p) ==
    /\ At(p, "DeleteTab:window")
    /\ \E w \in WindowsOf(Head(stack[p]).ws) :
          Goto(p, [at |-> "CloseWindow", window |-> w])
    /\ UNCHANGED <<rows, result, told, calls, overlap, stale>>

----------------------------------------------------------------------------
(* CloseWindow(windowId)                                                   *)

\* Mutant: the client is read before the workspace is deleted.
CloseWindow_ReadsEarly(p) ==
    /\ At(p, "CloseWindow")
    /\ LET w == Head(stack[p]).window
           there == w # NoOid /\ windows[w] # NoOid
           update == [at |-> "CloseWindow:update", window |-> w, read |-> client]
       IN IF there
          THEN CallThen(p, [at |-> "DeleteWorkspace", ws |-> windows[w], force |-> FALSE], update)
          ELSE Goto(p, update)
    /\ UNCHANGED <<rows, result, told, calls, overlap, stale>>

CloseWindow(p) ==
    /\ At(p, "CloseWindow")
    /\ LET w == Head(stack[p]).window
           there == w # NoOid /\ windows[w] # NoOid
       IN IF there
          THEN CallThen(p, [at |-> "DeleteWorkspace", ws |-> windows[w], force |-> FALSE],
                           [at |-> "CloseWindow:delete", window |-> w])
          ELSE Goto(p, [at |-> "CloseWindow:client", window |-> w])
    /\ UNCHANGED <<rows, result, told, calls, overlap, stale>>

\* Whatever became of the workspace, the window goes.
DeleteWindowRow(p) ==
    /\ At(p, "CloseWindow:delete")
    /\ LET w == Head(stack[p]).window
       IN /\ windows' = [windows EXCEPT ![w] = NoOid]
          /\ Goto(p, [at |-> "CloseWindow:client", window |-> w])
    /\ UNCHANGED <<workspaces, tabs, layouts, blocks, client, made,
                   result, told, calls, overlap, stale>>

ReadClient(p) ==
    /\ At(p, "CloseWindow:client")
    /\ Goto(p, [at |-> "CloseWindow:update", window |-> Head(stack[p]).window, read |-> client])
    /\ UNCHANGED <<rows, result, told, calls, overlap, stale>>

ForgetWindow(p) ==
    /\ At(p, "CloseWindow:update")
    /\ LET f == Head(stack[p])
       IN UpdateClientRow(f.read, RemoveFirst(f.read, f.window))
    /\ Return(p, "ok")
    /\ UNCHANGED <<workspaces, tabs, layouts, blocks, windows, made, told, calls, overlap>>
----------------------------------------------------------------------------
(* DeleteWorkspace(workspaceId, force)                                     *)

DeleteWorkspace(p) ==
    /\ At(p, "DeleteWorkspace")
    /\ LET f == Head(stack[p])
           w == workspaces[f.ws]
       IN IF w = NoOid
          THEN Return(p, "error")
          ELSE /\ Goto(p, [at |-> "ListWorkspaces", ws |-> f.ws, force |-> f.force, read |-> w])
               /\ UNCHANGED result
    /\ UNCHANGED <<rows, told, calls, overlap, stale>>

\* ListWorkspaces: the named workspaces, then the windows that show them.
ListWorkspaces(p) ==
    /\ At(p, "ListWorkspaces")
    /\ LET f == Head(stack[p])
           named == {w \in Existing(workspaces) : workspaces[w].named}
       IN Goto(p, [at |-> "ListWindows", ws |-> f.ws, force |-> f.force, read |-> f.read,
                   free |-> named \ {f.ws}])
    /\ UNCHANGED <<rows, result, told, calls, overlap, stale>>

\* A workspace with a name and with tabs stays unless the call insists.
KeepOrEmpty(p) ==
    /\ At(p, "ListWindows")
    /\ LET f == Head(stack[p])
           shown == {windows[w] : w \in Existing(windows)}
       IN IF f.read.named /\ ~f.force /\ Listed(f.read) # {}
          THEN Return(p, "ok")
          ELSE /\ Goto(p, [at |-> "DeleteWorkspace:tabs", ws |-> f.ws, free |-> f.free \ shown,
                           todo |-> f.read.tabs \o f.read.pinned])
               /\ result' = [result EXCEPT ![p] = "ok"]
    /\ UNCHANGED <<rows, told, calls, overlap, stale>>

DeleteWorkspaceTab(p) ==
    /\ At(p, "DeleteWorkspace:tabs")
    /\ LET f == Head(stack[p])
       IN /\ ~Failed(p) /\ f.todo # <<>>
          /\ CallThen(p, [at |-> "DeleteTab", ws |-> f.ws, tab |-> Head(f.todo),
                          recursive |-> FALSE],
                         [f EXCEPT !.todo = Tail(@)])
    /\ UNCHANGED <<rows, result, told, calls, overlap, stale>>

FindWindow(p) ==
    /\ At(p, "DeleteWorkspace:tabs")
    /\ LET f == Head(stack[p])
       IN /\ Failed(p) \/ f.todo = <<>>
          /\ IF Failed(p)
             THEN Return(p, "error")
             ELSE /\ \E w \in WindowsOf(f.ws) :
                        Goto(p, [at |-> "DeleteWorkspace:delete", ws |-> f.ws,
                                 window |-> w, free |-> f.free])
                  /\ UNCHANGED result
    /\ UNCHANGED <<rows, told, calls, overlap, stale>>

\* A window that showed it is to claim a free workspace: the user interface
\* does that (here only the answer is given), else the window is closed.
DeleteWorkspaceRow(p) ==
    /\ At(p, "DeleteWorkspace:delete")
    /\ LET f == Head(stack[p])
           w == workspaces[f.ws]
       IN /\ stale' = (stale \/ (w # NoOid /\ Listed(w) # {}))
          /\ workspaces' = [workspaces EXCEPT ![f.ws] = NoOid]
          /\ CASE f.window = NoOid -> Return(p, "ok") /\ UNCHANGED told
               [] f.window # NoOid /\ f.free # {} ->
                    Return(p, "ok") /\ told' = told \cup {f.window}
               [] OTHER -> /\ Goto(p, [at |-> "CloseWindow", window |-> f.window])
                           /\ UNCHANGED <<result, told>>
    /\ UNCHANGED <<tabs, layouts, blocks, windows, client, made, calls, overlap>>

----------------------------------------------------------------------------
(* CreateTab(workspaceId, "", activateTab, pinned): the workspace is read  *)
(* for the tab's name, again by createTabObj and again by SetActiveTab.    *)

CreateTab(p) ==
    /\ At(p, "CreateTab")
    /\ IF workspaces[Head(stack[p]).ws] = NoOid
       THEN Return(p, "error")
       ELSE Goto(p, [Head(stack[p]) EXCEPT !.at = "createTabObj"]) /\ UNCHANGED result
    /\ UNCHANGED <<rows, told, calls, overlap, stale>>

CreateTabObj(p) ==
    /\ At(p, "createTabObj") /\ Unused(Tab) # {}
    /\ LET f == Head(stack[p])
           w == workspaces[f.ws]
           t == Fresh(Tab)
       IN IF w = NoOid
          THEN Return(p, "error") /\ UNCHANGED made
          ELSE /\ Goto(p, [at |-> "createTabObj:insert", ws |-> f.ws, tab |-> t,
                           pinned |-> f.pinned, activate |-> f.activate, read |-> w])
               /\ made' = made \cup {t}
               /\ UNCHANGED result
    /\ UNCHANGED <<workspaces, tabs, layouts, blocks, windows, client,
                   told, calls, overlap, stale>>

\* Nobody else knows the ids of the two rows yet.
InsertTab(p) ==
    /\ At(p, "createTabObj:insert")
    /\ LET f == Head(stack[p])
       IN /\ tabs' = [tabs EXCEPT ![f.tab] = <<>>]
          /\ layouts' = layouts \cup {f.tab}
          /\ Goto(p, [f EXCEPT !.at = "createTabObj:list"])
    /\ UNCHANGED <<workspaces, blocks, windows, client, made,
                   result, told, calls, overlap, stale>>

ListTab(p) ==
    /\ At(p, "createTabObj:list")
    /\ LET f == Head(stack[p])
       IN /\ UpdateWorkspaceRow(f.ws, f.read,
                IF f.pinned THEN [f.read EXCEPT !.pinned = Append(@, f.tab)]
                            ELSE [f.read EXCEPT !.tabs = Append(@, f.tab)])
          /\ IF f.activate
             THEN CallThen(p, [at |-> "SetActiveTab", ws |-> f.ws, tab |-> f.tab],
                              [at |-> "CreateTab:layout", tab |-> f.tab])
             ELSE Goto(p, [at |-> "CreateTab:layout", tab |-> f.tab])
    /\ result' = [result EXCEPT ![p] = "ok"]
    /\ UNCHANGED <<tabs, layouts, blocks, windows, client, made, told, calls, overlap>>

\* ApplyPortableLayout: the block of the new tab ...
CreateFirstBlock(p) ==
    /\ At(p, "CreateTab:layout") /\ Unused(Block) # {}
    /\ LET f == Head(stack[p])
       IN IF Failed(p) \/ tabs[f.tab] = NoOid
          THEN Return(p, "error") /\ UNCHANGED <<blocks, tabs, made>>
          ELSE /\ InsertBlock(f.tab, Fresh(Block))
               /\ Goto(p, [at |-> "GetLayoutIdForTab", tab |-> f.tab])
               /\ UNCHANGED result
    /\ UNCHANGED <<workspaces, layouts, windows, client, told, calls, overlap, stale>>

\* ... and QueueLayoutActionForTab, which uses the tab and its layout state
\* without asking whether they are still there.
GetLayoutIdForTab(p) ==
    /\ At(p, "GetLayoutIdForTab")
    /\ LET f == Head(stack[p])
       IN IF tabs[f.tab] = NoOid
          THEN Panic(p)
          ELSE Goto(p, [at |-> "QueueLayoutAction", tab |-> f.tab]) /\ UNCHANGED result
    /\ UNCHANGED <<rows, told, calls, overlap, stale>>

QueueLayoutAction(p) ==
    /\ At(p, "QueueLayoutAction")
    /\ IF Head(stack[p]).tab \notin layouts THEN Panic(p) ELSE Return(p, "ok")
    /\ UNCHANGED <<rows, told, calls, overlap, stale>>

----------------------------------------------------------------------------
(* SetActiveTab, ChangeTabPinning, UpdateWorkspaceTabIds, SetName and      *)
(* UpdateWorkspace: a workspace is read, changed and written back.         *)

ReadForActive(p) ==
    /\ At(p, "SetActiveTab")
    /\ LET f == Head(stack[p])
           w == workspaces[f.ws]
       IN IF w = NoOid
          THEN Return(p, "error")
          ELSE /\ Goto(p, [at |-> "SetActiveTab:tab", ws |-> f.ws, tab |-> f.tab, read |-> w])
               /\ UNCHANGED result
    /\ UNCHANGED <<rows, told, calls, overlap, stale>>

CheckTab(p) ==
    /\ At(p, "SetActiveTab:tab")
    /\ LET f == Head(stack[p])
       IN IF tabs[f.tab] = NoOid
          THEN Return(p, "error")
          ELSE /\ Goto(p, [at |-> "writeBack", ws |-> f.ws, read |-> f.read,
                           new |-> [f.read EXCEPT !.active = f.tab]])
               /\ UNCHANGED result
    /\ UNCHANGED <<rows, told, calls, overlap, stale>>

\* ChangeTabPinning: a tab that was unpinned comes first.
Pin(w, t) == [w EXCEPT !.tabs = RemoveFirst(@, t), !.pinned = Append(@, t)]
Unpin(w, t) == [w EXCEPT !.pinned = RemoveFirst(@, t), !.tabs = <<t>> \o @]

ChangeTabPinning(p) ==
    /\ At(p, "ChangeTabPinning")
    /\ LET f == Head(stack[p])
           w == workspaces[f.ws]
           pinned == w # NoOid /\ f.tab \in ToSet(w.pinned)
           unknown == w = NoOid \/ (f.pin /\ f.tab \notin Listed(w))
       IN IF unknown
          THEN Return(p, "error")
          ELSE /\ Goto(p, [at |-> "writeBack", ws |-> f.ws, read |-> w,
                           new |-> CASE f.pin /\ ~pinned -> Pin(w, f.tab)
                                     [] ~f.pin /\ pinned -> Unpin(w, f.tab)
                                     [] OTHER -> w])
               /\ UNCHANGED result
    /\ UNCHANGED <<rows, told, calls, overlap, stale>>

\* UpdateWorkspaceTabIds: the lists come from the user interface, which
\* reordered the ones that it saw when it made the call.
UpdateTabIds(p) ==
    /\ At(p, "UpdateTabIds")
    /\ LET f == Head(stack[p])
           w == workspaces[f.ws]
       IN IF w = NoOid
          THEN Return(p, "error")
          ELSE /\ Goto(p, [at |-> "writeBack", ws |-> f.ws,
                           read |-> [w EXCEPT !.tabs = f.seen.tabs, !.pinned = f.seen.pinned],
                           new |-> [w EXCEPT !.tabs = Reverse(f.seen.tabs),
                                             !.pinned = f.seen.pinned]])
               /\ UNCHANGED result
    /\ UNCHANGED <<rows, told, calls, overlap, stale>>

UpdateWorkspace(p) ==
    /\ At(p, "UpdateWorkspace")
    /\ LET f == Head(stack[p])
           w == workspaces[f.ws]
       IN IF w = NoOid
          THEN Return(p, "error")
          ELSE /\ Goto(p, [at |-> "writeBack", ws |-> f.ws, read |-> w,
                           new |-> [w EXCEPT !.named = TRUE]])
               /\ UNCHANGED result
    /\ UNCHANGED <<rows, told, calls, overlap, stale>>

WriteBack(p) ==
    /\ At(p, "writeBack")
    /\ LET f == Head(stack[p]) IN UpdateWorkspaceRow(f.ws, f.read, f.new)
    /\ Return(p, "ok")
    /\ UNCHANGED <<tabs, layouts, blocks, windows, client, made, told, calls, overlap>>
----------------------------------------------------------------------------
(* CreateWorkspace and CreateWindow; the new ids come with the request.    *)

CreateWorkspace(p) ==
    /\ At(p, "CreateWorkspace")
    /\ LET f == Head(stack[p])
           tab == [at |-> "CreateTab", ws |-> f.ws, pinned |-> FALSE, activate |-> TRUE]
       IN /\ workspaces' = [workspaces EXCEPT ![f.ws] =
                               [tabs |-> <<>>, pinned |-> <<>>, active |-> NoOid, named |-> FALSE]]
          /\ CallThen(p, tab, [at |-> "CreateWorkspace:update", ws |-> f.ws, named |-> f.named])
    /\ UNCHANGED <<tabs, layouts, blocks, windows, client, made,
                   result, told, calls, overlap, stale>>

\* Without a name and defaults UpdateWorkspace only reads.
NameWorkspace(p) ==
    /\ At(p, "CreateWorkspace:update")
    /\ LET f == Head(stack[p])
       IN IF Failed(p) \/ workspaces[f.ws] = NoOid
          THEN Return(p, "error")
          ELSE IF f.named
          THEN Goto(p, [at |-> "UpdateWorkspace", ws |-> f.ws]) /\ UNCHANGED result
          ELSE Return(p, "ok")
    /\ UNCHANGED <<rows, told, calls, overlap, stale>>

CreateWindow(p) ==
    /\ At(p, "CreateWindow")
    /\ LET f == Head(stack[p])
           insert == [at |-> "CreateWindow:insert", window |-> f.window, ws |-> f.ws]
       IN IF f.new
          THEN /\ CallThen(p, [at |-> "CreateWorkspace", ws |-> f.ws, named |-> FALSE], insert)
               /\ UNCHANGED result
          ELSE IF workspaces[f.ws] = NoOid
          THEN Return(p, "error")
          ELSE Goto(p, insert) /\ result' = [result EXCEPT ![p] = "ok"]
    /\ UNCHANGED <<rows, told, calls, overlap, stale>>

InsertWindow(p) ==
    /\ At(p, "CreateWindow:insert")
    /\ LET f == Head(stack[p])
       IN IF Failed(p)
          THEN Return(p, "error") /\ UNCHANGED windows
          ELSE /\ windows' = [windows EXCEPT ![f.window] = f.ws]
               /\ Goto(p, [at |-> "CreateWindow:client", window |-> f.window])
               /\ UNCHANGED result
    /\ UNCHANGED <<workspaces, tabs, layouts, blocks, client, made,
                   told, calls, overlap, stale>>

GetClientData(p) ==
    /\ At(p, "CreateWindow:client") \/ At(p, "FocusWindow")
    /\ LET f == Head(stack[p])
           focus == f.at = "FocusWindow"
       IN IF focus /\ f.window \notin ToSet(client)
          THEN Return(p, "ok")
          ELSE /\ Goto(p, [at |-> "updateClient", read |-> client,
                           new |-> IF focus THEN <<f.window>> \o RemoveFirst(client, f.window)
                                            ELSE Append(client, f.window)])
               /\ UNCHANGED result
    /\ UNCHANGED <<rows, told, calls, overlap, stale>>

UpdateClient(p) ==
    /\ At(p, "updateClient")
    /\ LET f == Head(stack[p]) IN UpdateClientRow(f.read, f.new)
    /\ Return(p, "ok")
    /\ UNCHANGED <<workspaces, tabs, layouts, blocks, windows, made, told, calls, overlap>>

----------------------------------------------------------------------------
(* SwitchWorkspace(windowId, workspaceId), and SetWindowPosAndSize, which  *)
(* writes back the whole window.                                           *)

SwitchWorkspace(p) ==
    /\ At(p, "SwitchWorkspace")
    /\ IF workspaces[Head(stack[p]).ws] = NoOid
       THEN Return(p, "error")
       ELSE Goto(p, [Head(stack[p]) EXCEPT !.at = "GetWindow"]) /\ UNCHANGED result
    /\ UNCHANGED <<rows, told, calls, overlap, stale>>

GetWindow(p) ==
    /\ At(p, "GetWindow")
    /\ LET f == Head(stack[p])
           shown == windows[f.window]
       IN CASE shown = NoOid -> Return(p, "error")
            [] shown = f.ws -> Return(p, "ok")
            [] OTHER -> /\ Goto(p, [at |-> "otherWindows", window |-> f.window,
                                    ws |-> f.ws, read |-> shown])
                        /\ UNCHANGED result
    /\ UNCHANGED <<rows, told, calls, overlap, stale>>

\* A window that already shows the workspace is focused instead.
CheckOtherWindows(p) ==
    /\ At(p, "otherWindows")
    /\ LET f == Head(stack[p])
       IN IF f.ws \in {windows[w] : w \in Existing(windows)}
          THEN Return(p, "ok")
          ELSE Goto(p, [f EXCEPT !.at = "updateWindow"]) /\ UNCHANGED result
    /\ UNCHANGED <<rows, told, calls, overlap, stale>>

\* The workspace that the window showed is deleted unless it is to be kept.
UpdateWindow(p) ==
    /\ At(p, "updateWindow")
    /\ LET f == Head(stack[p])
       IN /\ windows' = [windows EXCEPT ![f.window] = IF @ = NoOid THEN NoOid ELSE f.ws]
          /\ stale' = (stale \/ windows[f.window] # f.read)
          /\ told' = IF f.ws = f.read THEN told ELSE told \ {f.window}
          /\ IF f.ws = f.read
             THEN Return(p, "ok")
             ELSE /\ Goto(p, [at |-> "DeleteWorkspace", ws |-> f.read, force |-> FALSE])
                  /\ UNCHANGED result
    /\ UNCHANGED <<workspaces, tabs, layouts, blocks, client, made, calls, overlap>>

SetWindowPosAndSize(p) ==
    /\ At(p, "SetWindowPosAndSize")
    /\ LET w == Head(stack[p]).window
       IN IF windows[w] = NoOid
          THEN Return(p, "error")
          ELSE /\ Goto(p, [at |-> "updateWindow", window |-> w, ws |-> windows[w],
                           read |-> windows[w]])
               /\ UNCHANGED result
    /\ UNCHANGED <<rows, told, calls, overlap, stale>>

----------------------------------------------------------------------------
(* Blocks: CreateBlock (with a block that it replaces, or none),           *)
(* CreateSubBlock, SetView and setTermSizeInDB, and MoveBlockToNewWindow.  *)

CreateBlock(p) ==
    /\ At(p, "CreateBlock") /\ Unused(Block) # {}
    /\ LET f == Head(stack[p])
           queue == [at |-> "GetLayoutIdForTab", tab |-> f.tab]
       IN IF tabs[f.tab] = NoOid
          THEN Return(p, "error") /\ UNCHANGED <<blocks, tabs, made>>
          ELSE /\ InsertBlock(f.tab, Fresh(Block))
               /\ IF f.target = NoOid
                  THEN Goto(p, queue)
                  ELSE CallThen(p, [at |-> "DeleteBlock", block |-> f.target,
                                    recursive |-> FALSE],
                                   [queue EXCEPT !.at = "CreateBlock:replaced"])
               /\ UNCHANGED result
    /\ UNCHANGED <<workspaces, layouts, windows, client, told, calls, overlap, stale>>

QueueAfterReplace(p) ==
    /\ At(p, "CreateBlock:replaced")
    /\ IF Failed(p)
       THEN Return(p, "error")
       ELSE Goto(p, [Head(stack[p]) EXCEPT !.at = "GetLayoutIdForTab"]) /\ UNCHANGED result
    /\ UNCHANGED <<rows, told, calls, overlap, stale>>

CreateSubBlock(p) ==
    /\ At(p, "CreateSubBlock") /\ Unused(Block) # {}
    /\ LET f == Head(stack[p])
       IN IF blocks[f.block] = NoOid
          THEN Return(p, "error") /\ UNCHANGED <<blocks, tabs, made>>
          ELSE InsertBlock(f.block, Fresh(Block)) /\ Return(p, "ok")
    /\ UNCHANGED <<workspaces, layouts, windows, client, told, calls, overlap, stale>>

\* SetViewCommand does not ask whether the block was found.
ReadBlock(p) ==
    /\ At(p, "SetView") \/ At(p, "setTermSize")
    /\ LET f == Head(stack[p])
       IN CASE blocks[f.block] # NoOid ->
                 /\ Goto(p, [at |-> "updateBlock", block |-> f.block, read |-> blocks[f.block]])
                 /\ UNCHANGED result
            [] blocks[f.block] = NoOid /\ f.at = "SetView" -> Panic(p)
            [] OTHER -> Return(p, "error")
    /\ UNCHANGED <<rows, told, calls, overlap, stale>>

UpdateBlock(p) ==
    /\ At(p, "updateBlock")
    /\ LET f == Head(stack[p])
       IN /\ blocks' = [blocks EXCEPT ![f.block] = IF @ = NoOid THEN NoOid ELSE f.read]
          /\ stale' = (stale \/ blocks[f.block] # f.read)
    /\ Return(p, "ok")
    /\ UNCHANGED <<workspaces, tabs, layouts, windows, client, made, told, calls, overlap>>

MoveBlockToNewWindow(p) ==
    /\ At(p, "MoveBlockToNewWindow")
    /\ LET f == Head(stack[p])
       IN IF tabs[f.tab] = NoOid \/ f.block \notin ToSet(tabs[f.tab])
          THEN Return(p, "error")
          ELSE /\ CallThen(p, [at |-> "CreateWindow", window |-> f.window, ws |-> f.ws,
                               new |-> TRUE],
                              [f EXCEPT !.at = "newWorkspace"])
               /\ UNCHANGED result
    /\ UNCHANGED <<rows, told, calls, overlap, stale>>

ReadNewWorkspace(p) ==
    /\ At(p, "newWorkspace")
    /\ LET f == Head(stack[p])
       IN IF Failed(p) \/ windows[f.window] = NoOid \/ workspaces[f.ws] = NoOid
          THEN Return(p, "error")
          ELSE /\ Goto(p, [at |-> "MoveBlockToTab", tab |-> f.tab, block |-> f.block,
                           to |-> workspaces[f.ws].active])
               /\ UNCHANGED result
    /\ UNCHANGED <<rows, told, calls, overlap, stale>>

\* One transaction; then both tabs queue an action for their layouts.
MoveBlockToTab(p) ==
    /\ At(p, "MoveBlockToTab")
    /\ LET f == Head(stack[p])
           possible == /\ f.to # NoOid /\ blocks[f.block] # NoOid
                       /\ tabs[f.tab] # NoOid /\ tabs[f.to] # NoOid
                       /\ f.block \in ToSet(tabs[f.tab])
       IN IF ~possible
          THEN Return(p, "error") /\ UNCHANGED <<tabs, blocks>>
          ELSE /\ tabs' = [tabs EXCEPT ![f.tab] = RemoveFirst(@, f.block),
                                       ![f.to] = Append(tabs[f.to], f.block)]
               /\ blocks' = [blocks EXCEPT ![f.block].parent = f.to]
               /\ CallThen(p, [at |-> "GetLayoutIdForTab", tab |-> f.tab],
                              [at |-> "GetLayoutIdForTab", tab |-> f.to])
               /\ UNCHANGED result
    /\ UNCHANGED <<workspaces, layouts, windows, client, made, told, calls, overlap, stale>>

\* DBFindTabForBlockId follows the parents, five of them at most.
ParentOf(o) == IF o \in Block /\ blocks[o] # NoOid THEN blocks[o].parent ELSE o

TabOf(b) ==
    LET up == ParentOf(ParentOf(ParentOf(ParentOf(ParentOf(b)))))
    IN IF up \in Tab THEN up ELSE NoOid

DeleteBlockCommand(p) ==
    /\ At(p, "DeleteBlockCommand")
    /\ LET f == Head(stack[p])
           t == TabOf(f.block)
       IN IF t = NoOid
          THEN Return(p, "error")
          ELSE /\ CallThen(p, [at |-> "DeleteBlock", block |-> f.block, recursive |-> TRUE],
                              [at |-> "CreateBlock:replaced", tab |-> t])
               /\ UNCHANGED result
    /\ UNCHANGED <<rows, told, calls, overlap, stale>>

----------------------------------------------------------------------------
(* The calls that the user interface, Electron and wsh make, about objects *)
(* that they see.                                                          *)

TabRequests ==
    UNION {[at : {"DeleteTab"}, ws : {w}, tab : Listed(workspaces[w]), recursive : {TRUE}]
             \cup [at : {"SetActiveTab"}, ws : {w}, tab : Listed(workspaces[w])]
             \cup [at : {"ChangeTabPinning"}, ws : {w}, tab : Listed(workspaces[w]),
                   pin : BOOLEAN]
           : w \in Existing(workspaces)}

WorkspaceRequests ==
    [at : {"CreateTab"}, ws : Existing(workspaces), pinned : {FALSE}, activate : {TRUE}]
      \cup [at : {"DeleteWorkspace"}, ws : Existing(workspaces), force : {TRUE}]
      \cup [at : {"UpdateWorkspace"}, ws : Existing(workspaces)]
      \cup {[at |-> "UpdateTabIds", ws |-> w, seen |-> workspaces[w]]
               : w \in {x \in Existing(workspaces) : Len(workspaces[x].tabs) > 1}}
      \cup {[at |-> "CreateWorkspace", ws |-> w, named |-> TRUE]
               : w \in IF Unused(Workspace) = {} THEN {} ELSE {Fresh(Workspace)}}

WindowRequests ==
    [at : {"CloseWindow", "FocusWindow", "SetWindowPosAndSize"}, window : Existing(windows)]
      \cup [at : {"SwitchWorkspace"}, window : Existing(windows), ws : Existing(workspaces)]
      \cup IF Unused(Window) = {} THEN {}
           ELSE [at : {"CreateWindow"}, window : {Fresh(Window)}, new : {FALSE},
                 ws : {w \in Existing(workspaces) : WindowsOf(w) = {NoOid}}]
                  \cup IF Unused(Workspace) = {} THEN {}
                       ELSE [at : {"CreateWindow"}, window : {Fresh(Window)}, new : {TRUE},
                             ws : {Fresh(Workspace)}]

BlockRequests ==
    [at : {"DeleteBlock"}, block : Existing(blocks), recursive : {TRUE}]
      \cup [at : {"DeleteBlockCommand", "CreateSubBlock", "SetView", "setTermSize"},
            block : {b \in Existing(blocks) : blocks[b].parent \in Tab}]
      \cup [at : {"CreateBlock"}, tab : Existing(tabs), target : {NoOid}]
      \cup [at : {"CreateBlock"}, tab : Existing(tabs),
            target : {b \in Existing(blocks) : blocks[b].parent \in Tab}]
      \cup IF Unused(Window) = {} \/ Unused(Workspace) = {} THEN {}
           ELSE {[at |-> "MoveBlockToNewWindow", tab |-> blocks[b].parent, block |-> b,
                  window |-> Fresh(Window), ws |-> Fresh(Workspace)]
                   : b \in {x \in Existing(blocks) : blocks[x].parent \in Tab}}

\* The ids that a request brings are given out now.
NewIds(f) ==
    {id \in Workspace \cup Window :
        \/ "ws" \in DOMAIN f /\ f.ws = id
        \/ "window" \in DOMAIN f /\ f.window = id}

Start(p) ==
    /\ stack[p] = <<>> /\ calls < MaxCalls
    /\ \E f \in TabRequests \cup WorkspaceRequests \cup WindowRequests \cup BlockRequests :
          /\ stack' = [stack EXCEPT ![p] = <<f>>]
          /\ made' = made \cup NewIds(f)
    /\ calls' = calls + 1
    /\ overlap' = (overlap \/ ~Idle)
    /\ result' = [result EXCEPT ![p] = "ok"]
    /\ UNCHANGED <<workspaces, tabs, layouts, blocks, windows, client, told, stale>>

----------------------------------------------------------------------------
DeleteSteps(p) ==
    \/ DeleteBlock(p) \/ DeleteSubBlock(p) \/ DeleteBlockObj(p) \/ DeleteEmptyTab(p)
    \/ DeleteTab(p) \/ ReadTab(p) \/ DeleteTabBlock(p) \/ UnlistTab(p)
    \/ DeleteTabRow(p) \/ DeleteLayoutRow(p) \/ CloseEmptyWindow(p)
    \/ CloseWindow(p) \/ DeleteWindowRow(p) \/ ReadClient(p) \/ ForgetWindow(p)
    \/ DeleteWorkspace(p) \/ ListWorkspaces(p) \/ KeepOrEmpty(p)
    \/ DeleteWorkspaceTab(p) \/ FindWindow(p) \/ DeleteWorkspaceRow(p)

CreateSteps(p) ==
    \/ CreateTab(p) \/ CreateTabObj(p) \/ InsertTab(p) \/ ListTab(p)
    \/ CreateFirstBlock(p) \/ GetLayoutIdForTab(p) \/ QueueLayoutAction(p)
    \/ CreateWorkspace(p) \/ NameWorkspace(p) \/ CreateWindow(p) \/ InsertWindow(p)
    \/ CreateBlock(p) \/ QueueAfterReplace(p) \/ CreateSubBlock(p)

UpdateSteps(p) ==
    \/ ReadForActive(p) \/ CheckTab(p) \/ ChangeTabPinning(p) \/ UpdateTabIds(p)
    \/ UpdateWorkspace(p) \/ WriteBack(p) \/ GetClientData(p) \/ UpdateClient(p)
    \/ SwitchWorkspace(p) \/ GetWindow(p) \/ CheckOtherWindows(p) \/ UpdateWindow(p)
    \/ SetWindowPosAndSize(p) \/ ReadBlock(p) \/ UpdateBlock(p)
    \/ MoveBlockToNewWindow(p) \/ ReadNewWorkspace(p) \/ MoveBlockToTab(p)
    \/ DeleteBlockCommand(p)

Step(p) == DeleteSteps(p) \/ CreateSteps(p) \/ UpdateSteps(p)

Next == \E p \in Call : Start(p) \/ Step(p)

\* A goroutine that runs a call goes on; nobody has to make one.
Fairness == \A p \in Call : WF_vars(Step(p))

Init ==
    /\ \E g \in Graphs :
          /\ workspaces = g.workspaces /\ tabs = g.tabs /\ layouts = g.layouts
          /\ blocks = g.blocks /\ windows = g.windows /\ client = g.client
          /\ made = Existing(g.workspaces) \cup Existing(g.tabs)
                      \cup Existing(g.blocks) \cup Existing(g.windows)
    /\ stack = [p \in Call |-> <<>>]
    /\ result = [p \in Call |-> "ok"]
    /\ told = {} /\ calls = 0 /\ overlap = FALSE /\ stale = FALSE

Spec == Init /\ [][Next]_vars
FairSpec == Spec /\ Fairness

----------------------------------------------------------------------------
(* Properties                                                              *)

graph == [workspaces |-> workspaces, tabs |-> tabs, layouts |-> layouts,
          blocks |-> blocks, windows |-> windows, client |-> client]

\* Rows have their shape and a running call has frames.
TypeOK ==
    /\ Typed(graph)
    /\ told \subseteq Window /\ calls \in 0..MaxCalls
    /\ result \in [Call -> {"ok", "error", "panic"}]

\* The order of the writes keeps every state, and so every crash, free of
\* references to rows that are gone and of rows with two parents, and when all
\* calls are done nothing is an orphan, as long as nobody wrote back a row over
\* a change that it had not read: calls that run at the same time do no harm in
\* any other way.
OnlyStaleWritesHarm ==
    ~stale => /\ NoDangling(graph) /\ ListedOnce(graph)
              /\ Idle => NoOrphans(graph)

\* A call by itself never overwrites its own changes with a row that it read
\* before making them, although its functions read the same rows again and
\* call each other and themselves, and it leaves a graph that agrees.
AloneIsSound ==
    ~overlap => /\ ~stale
                /\ Idle => NoOrphans(graph) /\ WindowsAgree(graph, told)

\* Every call ends, however its functions call each other.
CallsEnd == \A p \in Call : stack[p] # <<>> ~> stack[p] = <<>>
=============================================================================
