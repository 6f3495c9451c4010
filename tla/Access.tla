------------------------------- MODULE Access -------------------------------
(***************************************************************************)
(* Who may read and write which budget on the sync server                  *)
(* (budgetcut-server/src/lib.rs, src/rbac.rs): the tree of organisation,   *)
(* project and budget members, the rooms with their base and op log, the   *)
(* setup libraries, and the live channels of members who may be confined   *)
(* to some categories.  A handler holds the server's mutex from its first  *)
(* look at the state to its answer, so each is one step.                   *)
(*                                                                         *)
(* Ops are numbered as the server's clock stamps them and are accepted in  *)
(* that order; late and repeated ops, lost messages and full channels are  *)
(* the subject of SyncRoom.  An id is inserted at most once in a room (ids *)
(* are fresh uuids), which makes the reducer's merge the latest op.        *)
(***************************************************************************)
EXTENDS Naturals, Sequences, FiniteSets

Ext == INSTANCE SequencesExt

CONSTANTS
  User,
  Category,    \* departments
  Account, Detail, Actual, Receipt, Tool,  \* ids of what a budget holds
  CategoryOf,  \* the category of each account
  AccountOf,   \* the account each detail and actual is put under
  NameOf,      \* a global and its name, or a fringe and its code
  Room,        \* budget ids
  SeedOf,      \* the ids of the template each budget is made from
  Follower,    \* the users who follow a room over its live channel
  Founder,     \* bound: the users who create organisations and budgets
  Guest,       \* bound: the users who are given memberships
  Invited,     \* bound: the roles they are given
  MaxChanges,  \* bound: calls that make a budget, give a membership, edit a
               \* budget, save or apply a library, in all
  MaxOps,      \* bound: ops ever accepted
  None

VARIABLES
  org,        \* the members of the organisation, or None
  project,    \* those of its project, or None
  rooms,      \* [inProject, members, base, items, log] of each budget, or None
  libraries,  \* [owner, tools] of the saved libraries
  channel,    \* [room, as, queue, view, loadedAs] of each follower, or None
  clock,      \* the number of the last op
  clashed,    \* history: the names submit_op gave to a second tool of a budget
  changes     \* calls counted so far

vars == <<org, project, rooms, libraries, channel, clock, clashed, changes>>

Id == Account \union Detail \union Actual \union Receipt \union Tool

ASSUME IdAssumption ==
  /\ CategoryOf \in [Account -> Category]
  /\ AccountOf \in [Detail \union Actual -> Account]
  /\ DOMAIN NameOf = Tool
  /\ IsFiniteSet(Tool)

\* A uuid names one kind of entity.
ASSUME KindAssumption ==
  /\ (Account \union Detail \union Actual) \intersect (Receipt \union Tool) = {}
  /\ Account \intersect (Detail \union Actual) = {}
  /\ Receipt \intersect Tool = {}

\* Templates have each tool once (templates/mod.rs).
ASSUME SeedAssumption ==
  /\ SeedOf \in [Room -> SUBSET Id]
  /\ \A r \in Room : \A g, h \in SeedOf[r] \intersect Tool : NameOf[g] = NameOf[h] => g = h

Role == {"Owner", "Admin", "Editor", "DepartmentEditor", "Commenter", "Viewer",
         "DepartmentViewer"}
DepartmentScoped == {"DepartmentEditor", "DepartmentViewer"}
CanWriteAny == {"Owner", "Admin", "Editor"}
Administers == {"Owner", "Admin"}

Membership == [role : Role, scope : SUBSET Category]

\* Membership::full
Full(role) == [role |-> role, scope |-> {}]

ASSUME BoundAssumption ==
  /\ Follower \union Founder \union Guest \subseteq User
  /\ Invited \subseteq Role
  /\ {MaxChanges, MaxOps} \subseteq Nat

Op == [kind : {"insert", "remove", "set"}, id : Id, n : 1 .. MaxOps]

\* One entity of a document: is it in the budget, and the numbers of the last
\* op that inserted or removed it and of the last one that wrote its fields.
Item == [present : BOOLEAN, exists : 0 .. MaxOps, edit : 0 .. MaxOps]
Items == [Id -> Item]

\* Room
RoomState ==
  [inProject : BOOLEAN, members : [User -> Membership \union {None}], base : Items,
   items : Items, log : Seq(Op)]

ASSUME NoneAssumption == None \notin Category \union RoomState

Greater(a, b) == IF a > b THEN a ELSE b

\* Document::new
BaseItems(ids) ==
  [id \in Id |-> [present |-> id \in ids, exists |-> 0, edit |-> 0]]

\* Document::apply: the op with the higher number wins; an edit of an absent
\* entity waits for it.
Apply(items, op) ==
  CASE op.kind = "set" ->
         [items EXCEPT ![op.id].edit = Greater(@, op.n)]
    [] op.kind # "set" /\ op.n > items[op.id].exists ->
         [items EXCEPT ![op.id] =
            [present |-> op.kind = "insert", exists |-> op.n,
             edit |-> IF op.kind = "insert" THEN Greater(@.edit, op.n) ELSE @.edit]]
    [] OTHER -> items

\* Those of the ops that are at the places shown, one after the other.
ApplyAt(items, ops, shown) ==
  LET after[n \in 0 .. Len(ops)] ==
        IF n = 0 THEN items
        ELSE IF n \in shown THEN Apply(after[n - 1], ops[n])
        ELSE after[n - 1]
  IN  after[Len(ops)]

ApplyAll(items, ops) == ApplyAt(items, ops, DOMAIN ops)

Present(items) == {id \in Id : items[id].present}

\* The category an entity of the budget is in: None for shared tools and for
\* what hangs on an account that is gone.
CategoryIn(items, id) ==
  IF id \in Account THEN CategoryOf[id]
  ELSE IF id \in Detail \union Actual /\ items[AccountOf[id]].present
       THEN CategoryOf[AccountOf[id]]
       ELSE None

\* op_category: what is removed or edited is looked up in the budget.
OpCategory(op, items) ==
  IF op.kind = "insert" \/ items[op.id].present THEN CategoryIn(items, op.id) ELSE None

\* can_write, where the role may write at all.
CanWrite(m, op, items) ==
  \/ m.role \in CanWriteAny
  \/ m.role = "DepartmentEditor" /\ OpCategory(op, items) \in m.scope

\* Faulty variant: an op without a category is not shown.
CanReadOwn(m, op, items) ==
  \/ m.role \notin DepartmentScoped
  \/ OpCategory(op, items) \in m.scope

\* Faulty variant: only viewers are confined.
ViewersConfined(m, op, items) ==
  \/ m.role # "DepartmentViewer"
  \/ OpCategory(op, items) \in m.scope \union {None}

\* can_read
CanRead(m, op, items) ==
  \/ m.role \notin DepartmentScoped
  \/ OpCategory(op, items) \in m.scope \union {None}

\* The categories a member reads.
Scope(m) == IF m.role \in DepartmentScoped THEN m.scope ELSE Category

\* effective_membership: the budget's own members, then the project's, then
\* the organisation's.
EffectiveMembership(u, r) ==
  IF rooms[r] = None THEN None
  ELSE IF rooms[r].members[u] # None THEN rooms[r].members[u]
  ELSE IF ~ rooms[r].inProject \/ project = None THEN None
  ELSE IF project[u] # None THEN Full(project[u])
  ELSE IF org # None /\ org[u] # None THEN Full(org[u])
  ELSE None

IsMember(u, r) == EffectiveMembership(u, r) # None
HasRole(members, u, roles) == members # None /\ members[u] \in roles

\* One more call that counts.
Counted == changes < MaxChanges /\ changes' = changes + 1

\* Ids nothing was ever inserted under.
Fresh(id) ==
  \A r \in Room : rooms[r] # None =>
    ~ rooms[r].base[id].present /\ rooms[r].items[id].exists = 0

----------------------------------------------------------------------------
Init ==
  /\ org = None
  /\ project = None
  /\ rooms = [r \in Room |-> None]
  /\ libraries = {}
  /\ channel = [u \in Follower |-> None]
  /\ clock = 0
  /\ clashed = {}
  /\ changes = 0

NoMembers == [u \in User |-> None]

\* create_org: its creator owns it.
CreateOrg(u) ==
  /\ org = None
  /\ org' = [NoMembers EXCEPT ![u] = "Owner"]
  /\ UNCHANGED <<project, rooms, libraries, channel, clock, clashed, changes>>

\* add_org_member
AddOrgMember(u, target, role) ==
  /\ HasRole(org, u, Administers)
  /\ Counted
  /\ org' = [org EXCEPT ![target] = role]
  /\ UNCHANGED <<project, rooms, libraries, channel, clock, clashed>>

\* create_project
CreateProject(u) ==
  /\ HasRole(org, u, Administers)
  /\ project = None
  /\ project' = NoMembers
  /\ UNCHANGED <<org, rooms, libraries, channel, clock, clashed, changes>>

\* add_project_member
AddProjectMember(u, target, role) ==
  /\ project # None
  /\ HasRole(project, u, Administers) \/ HasRole(org, u, Administers)
  /\ Counted
  /\ project' = [project EXCEPT ![target] = role]
  /\ UNCHANGED <<org, rooms, libraries, channel, clock, clashed>>

\* make_room: a document on a base snapshot, with an empty log.
MakeRoom(inProject, members, base) ==
  [inProject |-> inProject, members |-> members, base |-> base, items |-> base,
   log |-> <<>>]

\* create_budget, from a template or empty.
CreateBudget(u, r) ==
  /\ rooms[r] = None /\ Counted
  /\ rooms' = [rooms EXCEPT ![r] =
       MakeRoom(FALSE, [NoMembers EXCEPT ![u] = Full("Owner")], BaseItems(SeedOf[r]))]
  /\ UNCHANGED <<org, project, libraries, channel, clock, clashed>>

\* create_project_budget: no members of its own.
CreateProjectBudget(u, r) ==
  /\ rooms[r] = None /\ Counted
  /\ project # None
  /\ HasRole(project, u, CanWriteAny) \/ HasRole(org, u, CanWriteAny)
  /\ rooms' = [rooms EXCEPT ![r] = MakeRoom(TRUE, NoMembers, BaseItems(SeedOf[r]))]
  /\ UNCHANGED <<org, project, libraries, channel, clock, clashed>>

\* What may be given: a scope matters to department-scoped roles only.
Memberships ==
  {m \in [role : Invited, scope : SUBSET Category] :
     m.role \notin DepartmentScoped => m.scope = {}}

\* add_member: also replaces the membership the target has.
AddMember(u, r, target, m) ==
  /\ IsMember(u, r) /\ EffectiveMembership(u, r).role \in Administers
  /\ Counted
  /\ rooms' = [rooms EXCEPT ![r].members[target] = m]
  /\ UNCHANGED <<org, project, libraries, channel, clock, clashed>>

\* The base of a copy: the budget as it is now, without registers.
CopyOf(r) == BaseItems(Present(rooms[r].items))

\* duplicate_budget: a budget of its own, owned by whoever makes it.
DuplicateBudget(u, r, copy) ==
  /\ IsMember(u, r)
  /\ rooms[copy] = None /\ Counted
  /\ rooms' = [rooms EXCEPT ![copy] =
       MakeRoom(FALSE, [NoMembers EXCEPT ![u] = Full("Owner")], CopyOf(r))]
  /\ UNCHANGED <<org, project, libraries, channel, clock, clashed>>

----------------------------------------------------------------------------
\* Room r applies and logs ops and sends them to its live channels.
Accept(r, ops) ==
  /\ clock + Len(ops) <= MaxOps
  /\ Counted
  /\ clock' = clock + Len(ops)
  /\ rooms' = [rooms EXCEPT ![r].items = ApplyAll(@, ops), ![r].log = @ \o ops]
  /\ channel' = [u \in Follower |->
       IF channel[u] # None /\ channel[u].room = r
       THEN [channel[u] EXCEPT !.queue = @ \o ops] ELSE channel[u]]
  /\ UNCHANGED <<org, project, libraries>>

\* One op of a member who may write it.
MemberOp(u, r, kind, id) ==
  LET op == [kind |-> kind, id |-> id, n |-> clock + 1]
  IN  /\ IsMember(u, r)
      /\ CanWrite(EffectiveMembership(u, r), op, rooms[r].items)
      /\ Accept(r, <<op>>)

\* apply_member_op: the choke point of the edits that have an endpoint.
ApplyMemberOp(u, r, kind, id) == MemberOp(u, r, kind, id) /\ UNCHANGED clashed

\* Ids a client may name: it has seen them in this budget.
Known(r, id) == rooms[r] # None /\ (rooms[r].base[id].present \/ rooms[r].items[id].exists > 0)

\* set_global: looked up by name.
SetGlobal(u, r, name) ==
  /\ rooms[r] # None
  /\ \E g \in Tool : /\ rooms[r].items[g].present /\ NameOf[g] = name
                     /\ ApplyMemberOp(u, r, "set", g)

\* set_detail_field and set_detail_fringes: a line that is gone buffers them.
SetDetailField(u, r, d) == Known(r, d) /\ ApplyMemberOp(u, r, "set", d)

\* add_line
AddLine(u, r, d) == Fresh(d) /\ ApplyMemberOp(u, r, "insert", d)

\* remove_line
RemoveLine(u, r, d) == Known(r, d) /\ ApplyMemberOp(u, r, "remove", d)

\* post_actual
PostActual(u, r, a) == Fresh(a) /\ ApplyMemberOp(u, r, "insert", a)

\* delete_actual
DeleteActual(u, r, a) == Known(r, a) /\ ApplyMemberOp(u, r, "remove", a)

\* post_receipt, post_strip: tied to no category.
PostReceipt(u, r, x) == Fresh(x) /\ ApplyMemberOp(u, r, "insert", x)

\* delete_receipt, delete_strip
DeleteReceipt(u, r, x) == Known(r, x) /\ ApplyMemberOp(u, r, "remove", x)

NamesOf(ids) == {NameOf[g] : g \in ids \intersect Tool}
Names(items) == NamesOf(Present(items))

\* submit_op with an op that no REST endpoint mints: an account or a tool is put
\* into a budget or taken out.  It is not asked whether the budget has a tool of
\* that name.
SubmitOp(u, r, kind, id) ==
  /\ id \in Account \union Tool
  /\ IF kind = "insert" THEN Fresh(id) ELSE kind = "remove" /\ Known(r, id)
  /\ MemberOp(u, r, kind, id)
  /\ clashed' = IF kind = "insert" /\ id \in Tool
                THEN clashed \union ({NameOf[id]} \intersect Names(rooms[r].items))
                ELSE clashed

----------------------------------------------------------------------------
\* save_library: SetupLibrary::extract lifts every fringe and global out.
SaveLibrary(u, r) ==
  /\ IsMember(u, r)
  /\ Counted
  /\ libraries' =
       libraries \union {[owner |-> u, tools |-> Present(rooms[r].items) \intersect Tool]}
  /\ UNCHANGED <<org, project, rooms, channel, clock, clashed>>

\* Faulty variant: what is present is not looked up.
AllMissing(lib, items) == lib.tools

\* The items of a library whose name or code the budget does not have, looked up
\* once.
Missing(lib, items) == {t \in lib.tools : NameOf[t] \notin Names(items)}

\* One fresh entity for each of the tools, named as it is.
Inserts(tools) ==
  {Ext!SetToSeq(T) : T \in
     {T \in SUBSET {g \in Tool : Fresh(g)} :
        \E f \in [T -> tools] : /\ \A t \in tools : \E g \in T : f[g] = t
                                /\ \A g, h \in T : f[g] = f[h] => g = h
                                /\ \A g \in T : NameOf[g] = NameOf[f[g]]}}

\* How many of the ops are applied until one is refused.
Performed(m, ops, items) ==
  LET allowed(i) == CanWrite(m, ops[i], ApplyAll(items, SubSeq(ops, 1, i - 1)))
  IN  {k \in 0 .. Len(ops) : /\ \A i \in 1 .. k : allowed(i)
                             /\ k < Len(ops) => ~ allowed(k + 1)}

\* apply_library: one op per missing item, each through apply_member_op; what
\* was applied before one is refused stays.
ApplyLibrary(u, r, lib) ==
  /\ lib.owner = u
  /\ IsMember(u, r)
  /\ \E s \in Inserts(Missing(lib, rooms[r].items)) :
       LET ops == [i \in DOMAIN s |-> [kind |-> "insert", id |-> s[i], n |-> clock + i]]
       IN  \E k \in Performed(EffectiveMembership(u, r), ops, rooms[r].items) :
             k > 0 /\ Accept(r, SubSeq(ops, 1, k))
  /\ UNCHANGED clashed

----------------------------------------------------------------------------
\* list_budgets: the budgets a user can open.
Budgets(u) == {r \in Room : IsMember(u, r)}

\* The report endpoints (topsheet, tree, sheets, tools, actuals, ...) answer a
\* member with what they compute from the whole budget.
Report(u, r) == IF IsMember(u, r) THEN rooms[r].items ELSE None

\* snapshot: the base, and of the log what the member may read by now; the
\* client replays it.
Snapshot(u, r) ==
  LET m == EffectiveMembership(u, r)
      log == rooms[r].log
  IN  ApplyAt(rooms[r].base, log,
              {i \in DOMAIN log : CanRead(m, log[i], rooms[r].items)})

\* Faulty variant: anybody may subscribe.
SubscribeAnybody(u, r) ==
  /\ channel[u] = None
  /\ rooms[r] # None
  /\ channel' = [channel EXCEPT ![u] =
       [room |-> r, as |-> EffectiveMembership(u, r), queue |-> <<>>, view |-> None,
        loadedAs |-> None]]
  /\ UNCHANGED <<org, project, rooms, libraries, clock, clashed, changes>>

\* ws_handler: the channel keeps the membership of this moment.
Subscribe(u, r) ==
  /\ channel[u] = None
  /\ IsMember(u, r)
  /\ channel' = [channel EXCEPT ![u] =
       [room |-> r, as |-> EffectiveMembership(u, r), queue |-> <<>>, view |-> None,
        loadedAs |-> None]]
  /\ UNCHANGED <<org, project, rooms, libraries, clock, clashed, changes>>

\* GET snapshot by a follower.
LoadSnapshot(u) ==
  /\ channel[u] # None
  /\ IsMember(u, channel[u].room)
  /\ channel' = [channel EXCEPT
       ![u].view = Snapshot(u, channel[u].room),
       ![u].loadedAs = EffectiveMembership(u, channel[u].room)]
  /\ UNCHANGED <<org, project, rooms, libraries, clock, clashed, changes>>

\* ws_loop: an op is passed on if the channel's membership may read it in the
\* budget as it is now.
Deliver(u) ==
  /\ channel[u] # None /\ channel[u].queue # <<>>
  /\ LET c  == channel[u]
         op == Head(c.queue)
         passed == c.view # None /\ CanRead(c.as, op, rooms[c.room].items)
     IN  channel' = [channel EXCEPT ![u].queue = Tail(c.queue),
                       ![u].view = IF passed THEN Apply(c.view, op) ELSE c.view]
  /\ UNCHANGED <<org, project, rooms, libraries, clock, clashed, changes>>

\* The socket closes.
Disconnect(u) ==
  /\ channel[u] # None
  /\ channel' = [channel EXCEPT ![u] = None]
  /\ UNCHANGED <<org, project, rooms, libraries, clock, clashed, changes>>

Next ==
  \/ \E u \in User :
       \/ u \in Founder /\ CreateOrg(u)
       \/ CreateProject(u)
       \/ \E target \in Guest, role \in Invited :
            AddOrgMember(u, target, role) \/ AddProjectMember(u, target, role)
       \/ \E r \in Room :
            \/ u \in Founder /\ CreateBudget(u, r)
            \/ CreateProjectBudget(u, r)
            \/ \E target \in Guest, m \in Memberships : AddMember(u, r, target, m)
            \/ \E copy \in Room : DuplicateBudget(u, r, copy)
            \/ \E name \in NamesOf(Tool) : SetGlobal(u, r, name)
            \/ \E d \in Detail : SetDetailField(u, r, d) \/ AddLine(u, r, d) \/ RemoveLine(u, r, d)
            \/ \E a \in Actual : PostActual(u, r, a) \/ DeleteActual(u, r, a)
            \/ \E x \in Receipt : PostReceipt(u, r, x) \/ DeleteReceipt(u, r, x)
            \/ \E kind \in {"insert", "remove"}, id \in Id : SubmitOp(u, r, kind, id)
            \/ SaveLibrary(u, r)
            \/ \E lib \in libraries : ApplyLibrary(u, r, lib)
  \/ \E u \in Follower :
       \/ \E r \in Room : Subscribe(u, r)
       \/ LoadSnapshot(u) \/ Deliver(u) \/ Disconnect(u)

Spec == Init /\ [][Next]_vars

----------------------------------------------------------------------------
ChannelState ==
  [room : Room, as : Membership, queue : Seq(Op), view : Items \union {None},
   loadedAs : Membership \union {None}]

TypeOK ==
  /\ org \in [User -> Role \union {None}] \union {None}
  /\ project \in [User -> Role \union {None}] \union {None}
  /\ \A r \in Room : rooms[r] = None \/ rooms[r] \in RoomState
  /\ libraries \subseteq [owner : User, tools : SUBSET Tool]
  /\ \A u \in Follower : channel[u] = None \/ channel[u] \in ChannelState
  /\ clock \in 0 .. MaxOps
  /\ clashed \subseteq NamesOf(Tool)
  /\ changes \in 0 .. MaxChanges

\* What a member sees of an entity.
Seen(items, id) == IF items[id].present THEN items[id].edit ELSE None

\* A view shows the shared tools and the content of some categories as the
\* budget has them, and nothing that the budget no longer has.
Shows(view, items, categories) ==
  \A id \in Id :
    IF items[id].present
    THEN id \in Receipt \union Tool \/ CategoryIn(items, id) \in categories =>
           Seen(view, id) = Seen(items, id)
    ELSE ~ view[id].present

\* What of the budget lies in none of the categories.  A line or an actual whose
\* account is gone lies in no category at all.
Outside(items, categories) ==
  {id \in Present(items) : CategoryIn(items, id) \in Category \ categories}

\* A snapshot shows the member's categories exactly, though its ops are
\* filtered by the budget as it is now and not by the one they were applied to,
\* and of the others it shows the budget's base and nothing later (lib.rs,
\* snapshot; rbac.rs:5-7); a member of the whole budget gets from it what the
\* reports are computed from.
SnapshotShowsScope ==
  \A u \in User, r \in Room : IsMember(u, r) =>
    LET view  == Snapshot(u, r)
        scope == Scope(EffectiveMembership(u, r))
    IN  /\ Shows(view, Report(u, r), scope)
        /\ \A id \in Outside(rooms[r].items, scope) : Seen(view, id) = Seen(rooms[r].base, id)

\* What a view shows of an entity was written before its account was inserted.
OlderThanAccount(view, items, id) ==
  id \notin Account /\ view[id].edit < items[AccountOf[id]].exists

\* A follower who has loaded the snapshot and received everything shows, in the
\* categories of both the channel's and the snapshot's membership, exactly what
\* the budget has, and at no time anything later than the base from a category
\* of neither, but what a line was while its account was not yet there:
\* whichever way memberships changed in between, and though an op's visibility
\* is asked after it and later ops were applied (lib.rs, ws_handler, ws_loop).
FollowerShowsScope ==
  \A u \in Follower :
    LET c     == channel[u]
        items == rooms[c.room].items
    IN  c # None /\ c.view # None =>
          /\ c.queue = <<>> => Shows(c.view, items, Scope(c.as) \intersect Scope(c.loadedAs))
          /\ \A id \in Outside(items, Scope(c.as) \union Scope(c.loadedAs)) :
               \/ Seen(c.view, id) = Seen(rooms[c.room].base, id)
               \/ OlderThanAccount(c.view, items, id)

\* A budget has two globals of one name, or two fringes of one code, only if
\* submit_op has once inserted a tool into a budget that had its name: neither
\* the library's look-up nor a copy makes a name ambiguous for set_global, for
\* set_detail_fringes and for the formulas (lib.rs, apply_library: "items already
\* present (by code/name) are skipped").
NamesUnique ==
  \A r \in Room : rooms[r] # None =>
    \A g, h \in Present(rooms[r].items) \intersect Tool :
      NameOf[g] = NameOf[h] => g = h \/ NameOf[g] \in clashed

\* What validation.rs:3-5 and 103-109 say of the server: ops that give two
\* globals one name are not persisted.  No handler runs that check.
NamesValidated == clashed = {}

\* What ADR 0002:7-8 says: users of some departments never receive another's
\* data.  The base of a snapshot is not filtered, nor is an op of a line whose
\* account is gone, or not yet there.
NothingOutOfScope ==
  \A u \in Follower :
    LET c == channel[u]
    IN  c # None /\ c.view # None =>
          \A id \in Present(c.view) \ (Receipt \union Tool) :
            CategoryOf[IF id \in Account THEN id ELSE AccountOf[id]] \in
              Scope(c.as) \union Scope(c.loadedAs)
=============================================================================
