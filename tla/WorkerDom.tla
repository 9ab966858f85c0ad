----------------------------- MODULE WorkerDom -----------------------------
(***************************************************************************)
(* A tag runs in a Worker against a mirror document                        *)
(* (core/worker-dom/mirror.js, core/dom-chamber-host.js,                   *)
(* core/dom-chamber.worker.js); each task's mutations are one message,     *)
(* which the main thread applies to the real DOM, checked op by op and in  *)
(* slices (adapters/eds/dom-apply.js, core/worker-dom/apply-policy.js,     *)
(* core/scheduler.js).                                                     *)
(*                                                                         *)
(* The page does not await applyOps(), so the next message may be begun    *)
(* before the last one is through. A slice is at least one op, and ends    *)
(* where it pleases: here every op is a step, the first of a batch in the  *)
(* task that receives it. Attribute, style and class writes are one op,    *)
(* "write"; textContent and innerHTML, which empty the node, are another.  *)
(***************************************************************************)
EXTENDS Naturals, Sequences, FiniteSets

LOCAL INSTANCE Functions

CONSTANTS
    MaxNodes,  \* bound: elements and texts the tag creates
    MaxTasks,  \* bound: boot and the events dispatched into the tag
    MaxCalls   \* bound: mutations of one message

ASSUME WorkerDomAssumption == {MaxNodes, MaxTasks, MaxCalls} \subseteq Nat

BODY_ID == 0
Ids     == 0..MaxNodes
Tasks   == 1..MaxTasks

VARIABLES
    task,      \* the last task of the worker, 0 before boot
    inTask,    \* the tag's code is running
    created,   \* mirror nodes: id -> the policy allows its tag
    queue,     \* the mirror's mutations since it was drained
    toPage,    \* mutations messages
    active,    \* batches begun and not through: task -> ops left
    real,      \* the page: nodes known, their children and what was written
    inOrder,   \* history: the page, had each batch been through before the next
    overlapped,\* history: batches that ran while another was under way
    unknown    \* history: refusals for an unknown id: [task, id]

domVars == <<task, inTask, created, queue, toPage, active, real, inOrder,
             overlapped, unknown>>

EmptyPage == [nodes |-> {BODY_ID},
              children |-> [n \in Ids |-> <<>>],
              written |-> [n \in Ids |-> 0]]

DomTypeOK ==
    /\ task \in 0..MaxTasks /\ inTask \in BOOLEAN
    /\ DOMAIN created \subseteq Ids
    /\ DOMAIN active \subseteq Tasks
    /\ \A p \in {real, inOrder} :
         /\ p.nodes \subseteq Ids
         /\ \A n \in Ids : Range(p.children[n]) \subseteq p.nodes
    /\ overlapped \subseteq Tasks

DomInit ==
    /\ task = 0 /\ inTask = FALSE /\ created = <<>> /\ queue = <<>> /\ toPage = <<>>
    /\ active = <<>> /\ real = EmptyPage /\ inOrder = EmptyPage
    /\ overlapped = {} /\ unknown = {}
-----------------------------------------------------------------------------
(* The worker: boot, then an event at a time. The tag's calls are recorded *)
(* in order, whatever the policy will say of them.                         *)

startTask ==
    /\ ~inTask /\ task < MaxTasks
    /\ task' = task + 1 /\ inTask' = TRUE
    /\ UNCHANGED <<created, queue, toPage, active, real, inOrder, overlapped, unknown>>

MirrorNodes == DOMAIN created \cup {BODY_ID}

record(op) ==
    /\ inTask /\ Len(queue) < MaxCalls
    /\ queue' = Append(queue, op)
    /\ UNCHANGED <<task, inTask, toPage, active, real, inOrder, overlapped, unknown>>

createNode ==
    \E allow \in BOOLEAN :
        LET id == Cardinality(DOMAIN created) + 1 IN
          /\ id <= MaxNodes
          /\ created' = [n \in 1..id |-> IF n = id THEN allow ELSE created[n]]
          /\ record([op |-> "create", id |-> id, allow |-> allow])

appendChild ==
    \E p \in MirrorNodes, c \in DOMAIN created :
        record([op |-> "appendChild", id |-> p, child |-> c]) /\ UNCHANGED created

write ==
    \E n \in MirrorNodes, allow \in BOOLEAN :
        record([op |-> "write", id |-> n, allow |-> allow, value |-> task])
            /\ UNCHANGED created

replaceContent ==
    \E n \in MirrorNodes : record([op |-> "setContent", id |-> n]) /\ UNCHANGED created
-----------------------------------------------------------------------------
(* One op on the page.                                                     *)

(* evaluateOp(): tags, attribute names, style values and class names.      *)
evaluateOp(op) == op.op \in {"create", "write"} => op.allow

ResolvedIds(op) == IF op.op = "appendChild" THEN {op.id, op.child} ELSE {op.id}

Missing(page, op) ==
    IF evaluateOp(op) /\ op.op # "create" THEN ResolvedIds(op) \ page.nodes ELSE {}

(* What is under node n: the DOM refuses to append a node below itself.    *)
Under(page, n) ==
    LET level[k \in 0..MaxNodes] ==
          IF k = 0 THEN {n}
          ELSE level[k - 1] \cup UNION {Range(page.children[m]) : m \in level[k - 1]}
    IN level[MaxNodes]

Without(s, x) == SelectSeq(s, LAMBDA y : y # x)

(* Appended again, a node moves.                                           *)
Moved(children, op) ==
    [n \in Ids |-> IF n = op.id THEN Append(Without(children[n], op.child), op.child)
                   ELSE Without(children[n], op.child)]

(* applyOne(): refused by the policy, for an unknown id, or by the DOM;    *)
(* applied otherwise, and never an error.                                  *)
applyOne(page, op) ==
    IF ~evaluateOp(op) \/ Missing(page, op) # {} THEN page
    ELSE CASE op.op = "create"  -> [page EXCEPT !.nodes = @ \cup {op.id}]
           [] op.op = "write"   -> [page EXCEPT !.written[op.id] = op.value]
           [] op.op = "setContent" -> [page EXCEPT !.children[op.id] = <<>>]
           [] op.op = "appendChild" ->
                IF op.id \in Under(page, op.child) THEN page
                ELSE [page EXCEPT !.children = Moved(@, op)]

ApplyAll(page, ops) ==
    LET upTo[k \in 0..Len(ops)] ==
          IF k = 0 THEN page ELSE applyOne(upTo[k - 1], ops[k])
    IN upTo[Len(ops)]
-----------------------------------------------------------------------------
(* drainMutations() at the end of the task: one message.                   *)
drain ==
    /\ inTask
    /\ inTask' = FALSE /\ queue' = <<>>
    /\ toPage' = Append(toPage, [task |-> task, ops |-> queue])
    /\ inOrder' = ApplyAll(inOrder, queue)
    /\ UNCHANGED <<task, created, active, real, overlapped, unknown>>

(* The tag throws out of its task: no message. What it has recorded waits  *)
(* in the mirror for the next.                                             *)
taskThrows ==
    /\ inTask /\ inTask' = FALSE
    /\ UNCHANGED <<task, created, queue, toPage, active, real, inOrder, overlapped,
                   unknown>>

(* A slice that loses its place when it yields.                            *)
AfterOpSkips(ops) == IF Len(ops) > 1 THEN Tail(Tail(ops)) ELSE Tail(ops)

(* chunk(): the next op, in the order of the batch.                        *)
AfterOp(ops) == Tail(ops)

(* One op of batch t, of which these are left.                             *)
applyNext(t, ops) ==
    /\ real' = applyOne(real, Head(ops))
    /\ unknown' = unknown \cup {[task |-> t, id |-> n] : n \in Missing(real, Head(ops))}
    /\ active' = LET left == AfterOp(ops)
                     on   == (DOMAIN active \ {t}) \cup (IF left = <<>> THEN {} ELSE {t})
                 IN [b \in on |-> IF b = t THEN left ELSE active[b]]

(* A mutations message: applyOps(), up to its first yield.                 *)
receive ==
    /\ toPage # <<>>
    /\ toPage' = Tail(toPage)
    /\ LET m == Head(toPage) IN
         IF m.ops = <<>> THEN UNCHANGED <<real, unknown, active, overlapped>>
         ELSE /\ applyNext(m.task, m.ops)
              /\ overlapped' = overlapped \cup
                   (IF DOMAIN active = {} THEN {} ELSE DOMAIN active \cup {m.task})
    /\ UNCHANGED <<task, inTask, created, queue, inOrder>>

(* The rest of a batch, after a yield or in the same slice.                *)
continue ==
    /\ \E t \in DOMAIN active : applyNext(t, active[t])
    /\ UNCHANGED <<task, inTask, created, queue, toPage, inOrder, overlapped>>

DomNext == \/ startTask \/ createNode \/ appendChild \/ write \/ replaceContent
           \/ drain \/ taskThrows \/ receive \/ continue

DomSpec == DomInit /\ [][DomNext]_domVars
-----------------------------------------------------------------------------
(* What the batches under way, then the messages on their way, will make   *)
(* of the page.                                                            *)
UnderWay == IF DOMAIN active = {} THEN real
            ELSE ApplyAll(real, active[CHOOSE t \in DOMAIN active : TRUE])

Delivered(page, messages) ==
    LET after[k \in 0..Len(messages)] ==
          IF k = 0 THEN page ELSE ApplyAll(after[k - 1], messages[k].ops)
    IN after[Len(messages)]

Remaining == Delivered(UnderWay, toPage)

(* As long as no two batches overlap, the page becomes what the tag's own  *)
(* order of calls makes of it, one batch after the other; and in any case  *)
(* a node the policy let the tag create is unknown to the page only for an *)
(* op of a batch that overlapped another ("never created, or refused at    *)
(* creation time", dom-apply.js, forgets that third cause).                *)
BatchesInOrder ==
    /\ overlapped = {} => Remaining = inOrder
    /\ \A u \in unknown :
         u.id \in DOMAIN created /\ created[u.id] => u.task \in overlapped
=============================================================================
