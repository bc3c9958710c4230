-------------------------- MODULE Subshell_proofs --------------------------
(***************************************************************************)
(* Type correctness of Subshell, that no cell is sent to a subshell of an  *)
(* earlier kernel process, and that Stop looks where a job's cell is, for  *)
(* any number of client objects, subshells and processes; the first two    *)
(* for any number of jobs.                                                 *)
(***************************************************************************)
EXTENDS Subshell, TLAPS

(* A client object that has a subshell is one the autorestarter's callback *)
(* clears, and an object that anyone holds has been made.                  *)
HookedInv ==
  \A c \in ClientIds : client[c].hooked \/ client[c].shell # NoShell => c \in hooks
MadeInv ==
  /\ cached # NoClient => client[cached].status # "unmade"
  /\ \A r \in Runners : runner[r].client # NoClient => client[runner[r].client].status # "unmade"
HoldInv ==
  \A r \in Runners : runner[r].pc \in {"waiting", "creating", "ensured"} =>
    runner[r].client # NoClient

(* Once no clean-up is due and none was skipped, what the stack's client     *)
(* remembers, and what a reply on its way will make it remember, is a       *)
(* subshell of the process that runs now.                                   *)
KnownInv ==
  cleanup = "done" /\ cached # NoClient =>
    /\ client[cached].shell # NoShell => shells[client[cached].shell] = proc
    /\ \A r \in Runners : runner[r].client = cached /\ runner[r].reply # NoShell =>
         shells[runner[r].reply] = proc

IInv == TypeOK /\ HookedInv /\ MadeInv /\ HoldInv /\ KnownInv

-----------------------------------------------------------------------------
(* Records and steps *)

LEMMA IdleTyped == IdleRunner \in Runner
  BY DEF IdleRunner, Runner

LEMMA NewTyped == NewClient \in Client
  BY DEF NewClient, Client

LEMMA SeqFacts ==
  ASSUME NEW S
  PROVE  /\ <<>> \in Seq(S)
         /\ \A q \in Seq(S) : q # <<>> => Tail(q) \in Seq(S)
  OBVIOUS

LEMMA StepTyped ==
  ASSUME runner \in [Runners -> Runner], NEW r \in Runners,
         NEW pc \in {"idle", "waiting", "creating", "ensured", "queued", "sent"},
         NEW c \in ClientIds \cup {NoClient}, Step(r, pc, c)
  PROVE  /\ runner' \in [Runners -> Runner]
         /\ runner'[r].pc = pc /\ runner'[r].client = c /\ runner'[r].reply = NoShell
         /\ runner'[r].shell = NoShell
         /\ \A q \in Runners \ {r} : runner'[q] = runner[q]
<1> DEFINE n == [IdleRunner EXCEPT !.pc = pc, !.client = c]
<1>1. \A x \in Runner : LET y == [x EXCEPT !.pc = pc, !.client = c] IN
           y \in Runner /\ y.pc = pc /\ y.client = c /\ y.reply = x.reply /\ y.shell = x.shell
  BY DEF Runner
<1>2. n \in Runner
  BY <1>1, IdleTyped
<1>3. runner' = [runner EXCEPT ![r] = n]
  BY DEF Step
<1>4. IdleRunner.reply = NoShell /\ IdleRunner.shell = NoShell
  BY DEF IdleRunner
<1>5. n.pc = pc /\ n.client = c /\ n.reply = NoShell /\ n.shell = NoShell
  BY <1>1, <1>4, IdleTyped
<1> HIDE DEF n
<1> QED
  BY <1>2, <1>3, <1>5

LEMMA GetClientTyped ==
  ASSUME TypeOK, CanGetClient
  PROVE  /\ TheClient \in ClientIds
         /\ cached # NoClient => TheClient = cached /\ ClientsWithMine = client
         /\ cached = NoClient => /\ client[TheClient].status = "unmade"
                                 /\ ClientsWithMine = [client EXCEPT ![TheClient] = NewClient]
         /\ ClientsWithMine \in [ClientIds -> Client]
<1>1. CASE cached # NoClient
  BY <1>1 DEF TypeOK, TheClient, ClientsWithMine
<1>2. CASE cached = NoClient
  <2>1. \E c \in ClientIds : c \in UnmadeClients
    BY <1>2 DEF CanGetClient, UnmadeClients
  <2>2. TheClient \in ClientIds /\ TheClient \in UnmadeClients
    BY <1>2, <2>1 DEF TheClient
  <2> QED
    BY <1>2, <2>2, NewTyped DEF TypeOK, UnmadeClients, ClientsWithMine
<1> QED
  BY <1>1, <1>2

(* Getting the client of the kernel id keeps the invariant's parts about    *)
(* clients: a fresh object is nobody's and remembers nothing.               *)
LEMMA GetClientKeeps ==
  ASSUME IInv, SubshellAssumption, GetClient, UNCHANGED hooks
  PROVE  /\ cached' \in ClientIds /\ cached' # NoClient
         /\ client' \in [ClientIds -> Client]
         /\ HookedInv'
         /\ client'[cached'].status # "unmade"
         /\ \A c \in ClientIds : client[c].status # "unmade" => client'[c] = client[c]
         /\ cached # NoClient => cached' = cached
         /\ cached = NoClient => /\ client'[cached'].shell = NoShell
                                 /\ \A r \in Runners : runner[r].client # cached'
<1>1. cached' = TheClient /\ client' = ClientsWithMine /\ CanGetClient
  BY DEF GetClient
<1> USE DEF IInv
<1>2. CASE cached # NoClient
  BY <1>1, <1>2, GetClientTyped DEF SubshellAssumption, HookedInv, MadeInv, TypeOK
<1>3. CASE cached = NoClient
  <2>1. /\ TheClient \in ClientIds /\ client[TheClient].status = "unmade"
        /\ client' = [client EXCEPT ![TheClient] = NewClient]
        /\ client' \in [ClientIds -> Client]
    BY <1>1, <1>3, GetClientTyped
  <2>2. client'[TheClient] = NewClient /\ \A c \in ClientIds \ {TheClient} : client'[c] = client[c]
    BY <2>1 DEF TypeOK
  <2>3. NewClient.shell = NoShell /\ NewClient.hooked = FALSE /\ NewClient.status = "open"
    BY DEF NewClient
  <2>4. HookedInv'
    BY <2>1, <2>2, <2>3 DEF HookedInv
  <2>5. \A r \in Runners : runner[r].client # cached'
    BY <1>1, <2>1, SubshellAssumption DEF MadeInv, SubshellAssumption
  <2> QED
    BY <1>1, <1>3, <2>1, <2>2, <2>3, <2>4, <2>5 DEF SubshellAssumption
<1> QED
  BY <1>2, <1>3

(* Preparing a client: it keeps its status, remembers s and has its hook. *)
LEMMA PreparedKeeps ==
  ASSUME TypeOK, HookedInv, NEW c \in ClientIds, NEW s \in Shells \cup {NoShell}, Prepared(c, s)
  PROVE  /\ client' \in [ClientIds -> Client] /\ hooks' \subseteq ClientIds
         /\ HookedInv'
         /\ client'[c].shell = s /\ client'[c].routed
         /\ \A d \in ClientIds : client'[d].status = client[d].status
         /\ \A d \in ClientIds \ {c} : client'[d] = client[d]
<1> DEFINE n == [client[c] EXCEPT !.shell = s, !.routed = TRUE, !.hooked = TRUE]
<1>1. client' = [client EXCEPT ![c] = n]
  BY DEF Prepared, TypeOK
<1>2. client[c] \in Client
  BY DEF TypeOK
<1>3. n \in Client /\ n.shell = s /\ n.routed /\ n.status = client[c].status
  BY <1>2 DEF Client
<1>4. c \in hooks' /\ hooks \subseteq hooks' /\ hooks' \subseteq ClientIds
  BY DEF Prepared, HookedInv, TypeOK
<1> HIDE DEF n
<1>5. client' \in [ClientIds -> Client] /\ client'[c] = n
      /\ \A d \in ClientIds \ {c} : client'[d] = client[d]
  BY <1>1, <1>3 DEF TypeOK
<1> QED
  BY <1>3, <1>4, <1>5 DEF HookedInv

LEMMA CellTyped == \A w \in Runners \cup {Lab} : Cell(w) \in Request
  BY DEF Cell, Request

LEMMA SnippetTyped == \A s \in Shells : Snippet(s) \in Request
  BY DEF Snippet, Request

-----------------------------------------------------------------------------
(* One lemma per kind of step *)

(* A job that stands where it stood, or holds the client it held or none,   *)
(* with no new reply to read *)
Calm(q) ==
  \/ runner'[q] = runner[q]
  \/ /\ runner'[q].reply \in {NoShell, runner[q].reply}
     /\ runner'[q].client \in {NoClient, runner[q].client}
     /\ runner'[q].pc \in {"waiting", "creating", "ensured"} => runner'[q].client # NoClient

LEMMA CalmKeeps ==
  ASSUME IInv, runner' \in [Runners -> Runner], \A q \in Runners : Calm(q),
         main' \in Seq(Request), alive' \in BOOLEAN, dropped' \in BOOLEAN,
         UNCHANGED <<proc, shells, client, cached, hooks, cleanup>>
  PROVE  IInv'
<1> USE DEF IInv
<1>1. TypeOK'
  BY DEF TypeOK
<1>2. HookedInv'
  BY DEF HookedInv
<1>3. MadeInv'
  BY DEF MadeInv, Calm
<1>4. HoldInv'
  BY DEF HoldInv, Calm
<1>5. KnownInv'
  BY DEF KnownInv, Calm
<1> QED
  BY <1>1, <1>2, <1>3, <1>4, <1>5

LEMMA IdleCalm ==
  \A q \in Runners : runner'[q] = IdleRunner => Calm(q)
  BY DEF Calm, IdleRunner

LEMMA GetsReadyKeeps ==
  ASSUME IInv, SubshellAssumption, NEW r \in Runners, GetsReady(r)
  PROVE  IInv'
<1> USE DEF IInv
<1>1. GetClient /\ Step(r, "waiting", TheClient) /\ UNCHANGED <<kernelVars, hooks, cleanup>>
  BY DEF GetsReady
<1>2. /\ cached' = TheClient /\ cached' \in ClientIds /\ cached' # NoClient
      /\ client' \in [ClientIds -> Client] /\ HookedInv'
      /\ client'[cached'].status # "unmade"
      /\ \A c \in ClientIds : client[c].status # "unmade" => client'[c] = client[c]
      /\ cached # NoClient => cached' = cached
      /\ cached = NoClient => /\ client'[cached'].shell = NoShell
                              /\ \A q \in Runners : runner[q].client # cached'
  BY <1>1, GetClientKeeps DEF GetClient
<1>3. /\ runner' \in [Runners -> Runner]
      /\ runner'[r].pc = "waiting" /\ runner'[r].client = cached' /\ runner'[r].reply = NoShell
      /\ \A q \in Runners \ {r} : runner'[q] = runner[q]
  BY <1>1, <1>2, StepTyped DEF TypeOK
<1>4. TypeOK'
  BY <1>1, <1>2, <1>3 DEF TypeOK, kernelVars
<1>5. MadeInv'
  BY <1>2, <1>3 DEF MadeInv, TypeOK, Runner
<1>6. HoldInv'
  BY <1>2, <1>3 DEF HoldInv
<1>7. KnownInv'
  <2>1. CASE cached # NoClient
    BY <1>1, <1>2, <1>3, <2>1 DEF KnownInv, MadeInv, TypeOK, kernelVars
  <2>2. CASE cached = NoClient
    BY <1>1, <1>2, <1>3, <2>2 DEF KnownInv
  <2> QED
    BY <2>1, <2>2
<1> QED
  BY <1>2, <1>4, <1>5, <1>6, <1>7

(* What follows the reply, or its absence: the client remembers s, which is *)
(* what it remembered or a subshell of this process if it is the stack's.   *)
LEMMA EnsuredKeeps ==
  ASSUME IInv, NEW r \in Runners, NEW s \in Shells \cup {NoShell},
         runner[r].pc \in {"waiting", "creating"},
         s \in {client[runner[r].client].shell, runner[r].reply},
         Prepared(runner[r].client, s), Step(r, "ensured", runner[r].client),
         UNCHANGED <<kernelVars, cached, cleanup>>
  PROVE  IInv'
<1> USE DEF IInv
<1> DEFINE c == runner[r].client
<1>1. c \in ClientIds /\ c # NoClient
  BY DEF HoldInv, TypeOK, Runner
<1>2. /\ client' \in [ClientIds -> Client] /\ hooks' \subseteq ClientIds
      /\ HookedInv'
      /\ client'[c].shell = s
      /\ \A d \in ClientIds : client'[d].status = client[d].status
      /\ \A d \in ClientIds \ {c} : client'[d] = client[d]
  BY <1>1, PreparedKeeps
<1>3. /\ runner' \in [Runners -> Runner]
      /\ runner'[r].pc = "ensured" /\ runner'[r].client = c /\ runner'[r].reply = NoShell
      /\ \A q \in Runners \ {r} : runner'[q] = runner[q]
  BY <1>1, StepTyped DEF TypeOK
<1> HIDE DEF c
<1>4. TypeOK'
  BY <1>2, <1>3 DEF TypeOK, kernelVars
<1>5. MadeInv'
  BY <1>1, <1>2, <1>3, SMTT(20) DEF MadeInv, TypeOK, Runner, c
<1>6. HoldInv'
  BY <1>1, <1>3 DEF HoldInv
<1>7. KnownInv'
  BY <1>1, <1>2, <1>3, SMTT(20) DEF KnownInv, TypeOK, kernelVars, c
<1> QED
  BY <1>2, <1>4, <1>5, <1>6, <1>7

LEMMA EnsuresSubshellKeeps ==
  ASSUME IInv, NEW r \in Runners, EnsuresSubshell(r)
  PROVE  IInv'
<1> USE DEF IInv
<1>1. runner[r].pc = "waiting" /\ UNCHANGED <<kernelVars, cached, cleanup>>
  BY DEF EnsuresSubshell
<1>2. runner[r].client \in ClientIds /\ runner[r].client # NoClient
  BY <1>1 DEF HoldInv, TypeOK, Runner
<1>3. CASE client[runner[r].client].shell # NoShell
  BY <1>1, <1>2, <1>3, EnsuredKeeps DEF EnsuresSubshell, TypeOK, Client
<1>4. CASE client[runner[r].client].shell = NoShell
  <2>1. Step(r, "creating", runner[r].client) /\ UNCHANGED <<client, hooks>>
    BY <1>4 DEF EnsuresSubshell
  <2>2. runner' \in [Runners -> Runner] /\ \A q \in Runners : Calm(q)
    BY <1>2, <2>1, StepTyped DEF TypeOK, Calm
  <2> QED
    BY <1>1, <2>1, <2>2, CalmKeeps DEF TypeOK, kernelVars
<1> QED
  BY <1>3, <1>4

LEMMA ReadsReplyKeeps ==
  ASSUME IInv, NEW r \in Runners, ReadsReply(r) \/ FallsBack(r)
  PROVE  IInv'
<1>1. runner[r].pc = "creating" /\ runner[r].client \in ClientIds
      /\ runner[r].reply \in Shells \cup {NoShell}
  BY DEF IInv, ReadsReply, FallsBack, HoldInv, TypeOK, Runner
<1>2. client[runner[r].client].shell \in Shells \cup {NoShell}
  BY <1>1 DEF IInv, TypeOK, Client
<1>3. CASE ReadsReply(r)
  BY <1>1, <1>3, EnsuredKeeps DEF ReadsReply
<1>4. CASE FallsBack(r)
  BY <1>1, <1>2, <1>4, EnsuredKeeps DEF FallsBack
<1> QED
  BY <1>3, <1>4

(* Steps that get the client of the kernel id and touch no other client: no *)
(* job comes to hold a client it did not hold.                              *)
LEMMA GettingKeeps ==
  ASSUME IInv, SubshellAssumption, GetClient,
         runner' \in [Runners -> Runner], \A q \in Runners : Calm(q),
         main' \in Seq(Request), dropped' \in BOOLEAN,
         UNCHANGED <<proc, alive, shells, hooks, cleanup>>
  PROVE  IInv'
<1> USE DEF IInv
<1>1. /\ cached' \in ClientIds /\ cached' # NoClient
      /\ client' \in [ClientIds -> Client] /\ HookedInv'
      /\ client'[cached'].status # "unmade"
      /\ \A c \in ClientIds : client[c].status # "unmade" => client'[c] = client[c]
      /\ cached # NoClient => cached' = cached
      /\ cached = NoClient => /\ client'[cached'].shell = NoShell
                              /\ \A q \in Runners : runner[q].client # cached'
  BY GetClientKeeps
<1>2. TypeOK'
  BY <1>1 DEF TypeOK
<1> DEFINE Kept(q) == /\ runner'[q].client \in {NoClient, runner[q].client}
                      /\ runner'[q].reply \in {NoShell, runner[q].reply}
<1>3. \A q \in Runners : Kept(q)
  BY DEF Calm
<1>4. \A q \in Runners : runner[q].client # NoClient =>
        client'[runner[q].client] = client[runner[q].client]
  BY <1>1 DEF MadeInv, TypeOK, Runner
<1>5. MadeInv'
  BY <1>1, <1>3, <1>4 DEF MadeInv
<1>6. HoldInv'
  BY DEF HoldInv, Calm
<1>7. KnownInv'
  <2>1. CASE cached # NoClient
    <3>1. cached' = cached /\ client'[cached] = client[cached]
      BY <1>1, <2>1 DEF MadeInv, TypeOK
    <3> QED
      BY <1>1, <1>3, <2>1, <3>1 DEF KnownInv
  <2>2. CASE cached = NoClient
    BY <1>1, <2>2 DEF KnownInv, Calm
  <2> QED
    BY <2>1, <2>2
<1> QED
  BY <1>1, <1>2, <1>5, <1>6, <1>7

LEMMA RouteTyped ==
  ASSUME TypeOK, NEW c \in ClientIds
  PROVE  Route(c) \in Shells \cup {Main}
  BY DEF Route, TypeOK, Client

LEMMA WorkerSendsKeeps ==
  ASSUME IInv, SubshellAssumption, NEW r \in Runners, WorkerSends(r)
  PROVE  IInv'
<1> DEFINE shell == IF cached = NoClient THEN Main ELSE Route(cached)
<1> USE DEF IInv
<1>1. /\ runner[r].pc = "queued" /\ GetClient
      /\ runner' = [runner EXCEPT ![r] = [runner[r] EXCEPT !.pc = "sent", !.shell = shell]]
      /\ main' = IF shell = Main /\ alive THEN Append(main, Cell(r)) ELSE main
      /\ UNCHANGED <<proc, alive, shells, hooks, dropped, cleanup>>
  BY DEF WorkerSends, TypeOK
<1>2. shell \in Shells \cup {Main}
  BY RouteTyped DEF TypeOK
<1>3. main' \in Seq(Request)
  BY <1>1, CellTyped DEF TypeOK
<1> DEFINE n == [runner[r] EXCEPT !.pc = "sent", !.shell = shell]
<1> HIDE DEF shell
<1>4. runner[r] \in Runner
  BY DEF TypeOK
<1>5. n \in Runner /\ n.pc = "sent" /\ n.client = runner[r].client /\ n.reply = runner[r].reply
  BY <1>2, <1>4 DEF Runner
<1>6. runner' = [runner EXCEPT ![r] = n]
  BY <1>1
<1> HIDE DEF n
<1>7. runner' \in [Runners -> Runner] /\ runner'[r] = n
      /\ \A q \in Runners \ {r} : runner'[q] = runner[q]
  BY <1>5, <1>6 DEF TypeOK
<1>8. \A q \in Runners : Calm(q)
  BY <1>5, <1>7 DEF Calm
<1>9. dropped' \in BOOLEAN
  BY <1>1 DEF TypeOK
<1> QED
  BY <1>1, <1>3, <1>7, <1>8, <1>9, GettingKeeps

LEMMA RaisesCalm ==
  ASSUME TypeOK, CellRaises
  PROVE  /\ runner' \in [Runners -> Runner] /\ \A q \in Runners : Calm(q)
         /\ main' \in Seq(Request) /\ dropped' \in BOOLEAN
<1>1. runner' = [q \in Runners |-> IF InMain(q) THEN IdleRunner ELSE runner[q]]
  BY DEF CellRaises
<1>2. \A q \in Runners : runner'[q] \in {IdleRunner, runner[q]}
  BY <1>1
<1> QED
  BY <1>1, <1>2, IdleTyped, IdleCalm DEF CellRaises, TypeOK, Calm

LEMMA StopKeeps ==
  ASSUME IInv, SubshellAssumption, Stop
  PROVE  IInv'
<1> DEFINE s == ClientsWithMine[TheClient].shell
<1> USE DEF IInv
<1>1. GetClient /\ UNCHANGED <<proc, alive, shells, hooks, cleanup>>
  BY DEF Stop
<1>2. s \in Shells \cup {NoShell}
  BY <1>1, GetClientTyped DEF GetClient, Client
<1>3. /\ runner' \in [Runners -> Runner] /\ \A q \in Runners : Calm(q)
      /\ main' \in Seq(Request) /\ dropped' \in BOOLEAN
  <2>1. CASE s = NoShell
    <3>1. Sigint
      BY <2>1 DEF Stop
    <3> QED
      BY <3>1, RaisesCalm DEF Sigint, TypeOK, Calm
  <2>2. CASE s # NoShell
    <3>1. main' = Append(main, Snippet(s)) /\ dropped' = FALSE /\ UNCHANGED runner
      BY <2>2 DEF Stop
    <3>2. Snippet(s) \in Request
      BY <1>2, <2>2, SnippetTyped
    <3> HIDE DEF s
    <3>3. main' \in Seq(Request)
      BY <3>1, <3>2 DEF TypeOK
    <3> QED
      BY <3>1, <3>3 DEF TypeOK, Calm
  <2> QED
    BY <2>1, <2>2
<1> QED
  BY <1>1, <1>3, GettingKeeps

LEMMA CleanupKeeps ==
  ASSUME IInv, SubshellAssumption, CleanupAfterRestart
  PROVE  IInv'
<1> USE DEF IInv
<1>1. /\ cached' = NoClient /\ cleanup' = "done"
      /\ UNCHANGED <<proc, alive, shells, hooks, main, dropped>>
  BY DEF CleanupAfterRestart
<1>2. /\ client' \in [ClientIds -> Client]
      /\ \A c \in ClientIds :
           /\ client'[c].hooked => client[c].hooked
           /\ client'[c].shell # NoShell => client[c].shell # NoShell
           /\ client'[c].status = "unmade" => client[c].status = "unmade"
  <2>1. CASE cached = NoClient
    BY <2>1 DEF CleanupAfterRestart, TypeOK
  <2>2. CASE cached # NoClient
    <3> DEFINE n == [Forgotten(cached) EXCEPT !.status = "stopped", !.routed = FALSE,
                                              !.hooked = FALSE]
    <3>1. client' = [client EXCEPT ![cached] = n]
      BY <2>2 DEF CleanupAfterRestart
    <3>2. Forgotten(cached) \in Client /\ Forgotten(cached).shell = NoShell
      BY <2>2 DEF Forgotten, TypeOK, Client
    <3>3. n \in Client /\ n.status = "stopped" /\ n.hooked = FALSE /\ n.shell = NoShell
      BY <3>2 DEF Client
    <3> HIDE DEF n
    <3> QED
      BY <2>2, <3>1, <3>3 DEF TypeOK
  <2> QED
    BY <2>1, <2>2
<1>3. runner' = [q \in Runners |->
        IF runner[q].pc \in {"queued", "sent"} THEN IdleRunner ELSE runner[q]]
  BY DEF CleanupAfterRestart
<1>4. runner' \in [Runners -> Runner]
  BY <1>3, IdleTyped DEF TypeOK
<1>5. \A q \in Runners : \/ runner'[q] = runner[q]
                         \/ runner'[q].pc = "idle" /\ runner'[q].client = NoClient
  BY <1>3 DEF IdleRunner
<1>6. TypeOK'
  BY <1>1, <1>2, <1>4 DEF TypeOK
<1>7. HookedInv'
  BY <1>1, <1>2 DEF HookedInv
<1>8. MadeInv'
  BY <1>1, <1>2, <1>5 DEF MadeInv, TypeOK, Runner
<1>9. HoldInv'
  BY <1>5 DEF HoldInv
<1>10. KnownInv'
  BY <1>1 DEF KnownInv
<1> QED
  BY <1>6, <1>7, <1>8, <1>9, <1>10

LEMMA KernelReplacedKeeps ==
  ASSUME IInv, SubshellAssumption, KernelReplaced
  PROVE  IInv'
<1> USE DEF IInv, KernelReplaced
<1>1. TypeOK'
  <2>1. proc' \in 1..MaxProcs
    BY DEF TypeOK, SubshellAssumption
  <2>2. main' \in Seq(Request)
    BY SeqFacts
  <2> QED
    BY <2>1, <2>2 DEF TypeOK
<1>2. HookedInv' /\ MadeInv' /\ HoldInv'
  BY DEF HookedInv, MadeInv, HoldInv
<1>3. KnownInv'
  BY DEF KnownInv
<1> QED
  BY <1>1, <1>2, <1>3

LEMMA RestartRaisesKeeps ==
  ASSUME IInv, RestartRaises
  PROVE  IInv'
  BY DEF IInv, RestartRaises, kernelVars, TypeOK, HookedInv, MadeInv, HoldInv, KnownInv

(* The kernel's reply names a subshell no one remembers yet. *)
LEMMA KernelCreatesKeeps ==
  ASSUME IInv, SubshellAssumption, NEW r \in Runners, KernelCreates(r)
  PROVE  IInv'
<1> USE DEF IInv
<1> DEFINE s == CHOOSE x \in Shells : shells[x] = 0
<1>1. /\ runner[r].pc = "creating" /\ runner[r].reply = NoShell
      /\ shells' = [shells EXCEPT ![s] = proc]
      /\ runner' = [runner EXCEPT ![r] = [runner[r] EXCEPT !.reply = s]]
      /\ UNCHANGED <<proc, alive, client, cached, hooks, main, dropped, cleanup>>
  BY DEF KernelCreates, TypeOK
<1>2. s \in Shells /\ shells[s] = 0
  BY DEF KernelCreates
<1>3. runner[r] \in Runner
  BY DEF TypeOK
<1> DEFINE n == [runner[r] EXCEPT !.reply = s]
<1> HIDE DEF s
<1>4. n \in Runner /\ n.pc = runner[r].pc /\ n.client = runner[r].client /\ n.reply = s
  BY <1>2, <1>3 DEF Runner
<1>5. runner' = [runner EXCEPT ![r] = n]
  BY <1>1
<1> HIDE DEF n
<1>6. /\ runner' \in [Runners -> Runner] /\ runner'[r] = n
      /\ \A q \in Runners \ {r} : runner'[q] = runner[q]
  BY <1>4, <1>5 DEF TypeOK
<1>7. /\ shells' \in [Shells -> 0..MaxProcs] /\ shells'[s] = proc
      /\ \A t \in Shells : shells[t] = proc => shells'[t] = proc
  BY <1>1, <1>2 DEF TypeOK, SubshellAssumption
<1>8. TypeOK'
  BY <1>1, <1>6, <1>7 DEF TypeOK
<1>9. HookedInv' /\ MadeInv' /\ HoldInv'
  BY <1>1, <1>4, <1>6 DEF HookedInv, MadeInv, HoldInv
<1>10. KnownInv'
  <2>1. \A q \in Runners : runner[q].reply \in Shells \cup {NoShell}
    BY DEF TypeOK, Runner
  <2>2. cached # NoClient => client[cached].shell \in Shells \cup {NoShell}
    BY DEF TypeOK, Client
  <2> QED
    BY <1>1, <1>4, <1>6, <1>7, <2>1, <2>2 DEF KnownInv
<1> QED
  BY <1>8, <1>9, <1>10

(* The callbacks clear every client that remembers a subshell, and no reply *)
(* of the dead process is left.                                             *)
LEMMA AutorestartsKeeps ==
  ASSUME IInv, SubshellAssumption, Autorestarts
  PROVE  IInv'
<1> USE DEF IInv
<1>1. /\ proc < MaxProcs /\ \A q \in Runners : runner[q].reply = NoShell
      /\ proc' = proc + 1 /\ alive' = TRUE
      /\ client' = [c \in ClientIds |-> IF c \in hooks THEN Forgotten(c) ELSE client[c]]
      /\ cleanup' \in {"done", "due", "skipped"}
      /\ UNCHANGED <<shells, cached, hooks, runner, main, dropped>>
  BY DEF Autorestarts, TypeOK
<1>2. \A c \in ClientIds : /\ Forgotten(c) \in Client /\ Forgotten(c).shell = NoShell
                           /\ Forgotten(c).status = client[c].status
                           /\ Forgotten(c).hooked = client[c].hooked
  BY DEF Forgotten, TypeOK, Client
<1>3. client' \in [ClientIds -> Client]
  BY <1>1, <1>2 DEF TypeOK
<1>4. \A c \in ClientIds : client'[c].shell = NoShell /\ client'[c].status = client[c].status
                           /\ client'[c].hooked = client[c].hooked
  BY <1>1, <1>2 DEF HookedInv
<1>5. TypeOK'
  BY <1>1, <1>3 DEF TypeOK, SubshellAssumption
<1>6. HookedInv' /\ HoldInv'
  BY <1>1, <1>4 DEF HookedInv, HoldInv
<1>7. MadeInv'
  BY <1>1, <1>4 DEF MadeInv, TypeOK, Runner
<1>8. KnownInv'
  BY <1>1, <1>4 DEF KnownInv, TypeOK
<1> QED
  BY <1>5, <1>6, <1>7, <1>8

(* The steps of the kernel and its users that only end or start cells *)
CellSteps ==
  \/ \E r \in Runners : Fails(r) \/ Puts(r) \/ SubshellCellEnds(r) \/ RequestLost(r)
  \/ MainCellEnds \/ MainCellRaises \/ SnippetRuns \/ LabRunsCell \/ KernelCrashes

LEMMA CellStepsKeep ==
  ASSUME IInv, CellSteps
  PROVE  IInv'
<1> USE DEF IInv
<1> SUFFICES /\ runner' \in [Runners -> Runner] /\ \A q \in Runners : Calm(q)
             /\ main' \in Seq(Request) /\ alive' \in BOOLEAN /\ dropped' \in BOOLEAN
             /\ UNCHANGED <<proc, shells, client, cached, hooks, cleanup>>
  BY CalmKeeps
<1> USE IdleTyped, IdleCalm
<1>1. ASSUME NEW r \in Runners, Fails(r) \/ SubshellCellEnds(r) \/ RequestLost(r)
      PROVE  /\ runner' \in [Runners -> Runner] /\ \A q \in Runners : Calm(q)
             /\ UNCHANGED <<kernelVars, client, cached, hooks, cleanup>>
  <2>1. /\ runner' = [runner EXCEPT ![r] = IdleRunner]
        /\ UNCHANGED <<kernelVars, client, cached, hooks, cleanup>>
    BY <1>1 DEF Fails, SubshellCellEnds, RequestLost
  <2>2. \A q \in Runners : runner'[q] \in {IdleRunner, runner[q]}
    BY <2>1 DEF TypeOK
  <2> QED
    BY <2>1, <2>2 DEF TypeOK, Calm
<1>2. ASSUME NEW r \in Runners, Puts(r)
      PROVE  /\ runner' \in [Runners -> Runner] /\ \A q \in Runners : Calm(q)
             /\ UNCHANGED <<kernelVars, client, cached, hooks, cleanup>>
  BY <1>2, StepTyped DEF Puts, TypeOK, Calm
<1>3. CASE MainCellEnds \/ SnippetRuns
  <2>1. \A q \in Runners : runner'[q] \in {IdleRunner, runner[q]}
    BY <1>3 DEF MainCellEnds, SnippetRuns
  <2>2. runner' \in [Runners -> Runner]
    BY <1>3 DEF MainCellEnds, SnippetRuns, TypeOK
  <2>3. main' \in Seq(Request)
    BY <1>3, SeqFacts DEF MainCellEnds, SnippetRuns, MainAdvances, TypeOK
  <2>4. UNCHANGED <<proc, alive, shells, client, cached, hooks, dropped, cleanup>>
    BY <1>3 DEF MainCellEnds, SnippetRuns, MainAdvances
  <2> QED
    BY <2>1, <2>2, <2>3, <2>4 DEF TypeOK, Calm
<1>4. CASE MainCellRaises
  BY <1>4, RaisesCalm DEF MainCellRaises, TypeOK
<1>5. CASE LabRunsCell
  BY <1>5, CellTyped DEF LabRunsCell, TypeOK, Calm
<1>6. CASE KernelCrashes
  BY <1>6, SeqFacts DEF KernelCrashes, TypeOK, Calm
<1> QED
  BY <1>1, <1>2, <1>3, <1>4, <1>5, <1>6 DEF CellSteps, kernelVars, TypeOK

-----------------------------------------------------------------------------
(* The theorems *)

LEMMA InitHolds ==
  ASSUME SubshellAssumption, Init
  PROVE  IInv
<1> DEFINE n == [NewClient EXCEPT !.status = "unmade"]
<1>1. n \in Client /\ n.shell = NoShell /\ n.hooked = FALSE
  BY DEF NewClient, Client
<1>2. client = [c \in ClientIds |-> n]
  BY DEF Init
<1>3. IdleRunner.pc = "idle" /\ IdleRunner.client = NoClient /\ IdleRunner.reply = NoShell
  BY DEF IdleRunner
<1> HIDE DEF n
<1>4. TypeOK
  <2>1. proc \in 1..MaxProcs /\ main \in Seq(Request)
    BY SeqFacts DEF Init, SubshellAssumption
  <2>2. shells \in [Shells -> 0..MaxProcs]
    BY DEF Init, SubshellAssumption
  <2> QED
    BY <1>1, <1>2, <2>1, <2>2, IdleTyped DEF Init, TypeOK
<1>5. HookedInv /\ MadeInv /\ HoldInv /\ KnownInv
  BY <1>1, <1>2, <1>3 DEF Init, HookedInv, MadeInv, HoldInv, KnownInv
<1> QED
  BY <1>4, <1>5 DEF IInv

LEMMA NextKeeps ==
  ASSUME SubshellAssumption, IInv, [Next]_vars
  PROVE  IInv'
<1>1. ASSUME NEW r \in Runners, RunnerSteps(r) \/ KernelCreates(r)
      PROVE  IInv'
  <2>1. ASSUME Fails(r) \/ Puts(r)
        PROVE  IInv'
    BY <2>1, CellStepsKeep DEF CellSteps
  <2> QED
    BY <1>1, <2>1, GetsReadyKeeps, EnsuresSubshellKeeps, ReadsReplyKeeps, WorkerSendsKeeps,
       KernelCreatesKeeps DEF RunnerSteps
<1>2. ASSUME NEW r \in Runners, SubshellCellEnds(r) \/ RequestLost(r)
      PROVE  IInv'
  BY <1>2, CellStepsKeep DEF CellSteps
<1>3. CASE MainCellEnds \/ MainCellRaises \/ SnippetRuns \/ LabRunsCell \/ KernelCrashes
  BY <1>3, CellStepsKeep DEF CellSteps
<1>4. CASE UNCHANGED vars
  BY <1>4 DEF vars, IInv, TypeOK, HookedInv, MadeInv, HoldInv, KnownInv
<1> QED
  BY <1>1, <1>2, <1>3, <1>4, StopKeeps, KernelReplacedKeeps, RestartRaisesKeeps, CleanupKeeps,
     AutorestartsKeeps DEF Next

(* IInv holds in every state: whatever overlaps a Restart, an autorestart   *)
(* or the eviction of the stack's client.                                   *)
THEOREM Inductive == Spec => []IInv
<1>1. Init => IInv
  BY InitHolds, SubshellAssumption
<1>2. IInv /\ [Next]_vars => IInv'
  BY NextKeeps, SubshellAssumption
<1> QED
  BY <1>1, <1>2, PTL DEF Spec

(* Every variable keeps its type. *)
THEOREM TypeCorrect == Spec => []TypeOK
<1>1. IInv => TypeOK
  BY DEF IInv
<1> QED
  BY <1>1, Inductive, PTL

-----------------------------------------------------------------------------
(* Where cells are sent *)

(* Only the stack's worker says where the request of a job was sent. *)
SentInv == \A r \in Runners : runner[r].pc # "sent" => runner[r].shell = NoShell

Unsent(q) ==
  \/ runner'[q].shell = NoShell
  \/ runner'[q].pc = runner[q].pc /\ runner'[q].shell = runner[q].shell

LEMMA OneUnsent ==
  ASSUME TypeOK, NEW r \in Runners,
         NEW x \in Runner, runner' = [runner EXCEPT ![r] = x],
         \/ x.shell = NoShell
         \/ x.pc = runner[r].pc /\ x.shell = runner[r].shell
  PROVE  \A q \in Runners : Unsent(q)
  BY DEF Unsent, TypeOK

LEMMA StepUnsent ==
  ASSUME TypeOK, NEW r \in Runners,
         NEW pc \in {"idle", "waiting", "creating", "ensured", "queued", "sent"},
         NEW c \in ClientIds \cup {NoClient}, Step(r, pc, c)
  PROVE  \A q \in Runners : Unsent(q)
  BY StepTyped DEF Unsent, TypeOK

LEMMA IdleUnsent ==
  ASSUME \A q \in Runners : runner'[q] \in {IdleRunner, runner[q]}
  PROVE  \A q \in Runners : Unsent(q)
  BY DEF Unsent, IdleRunner

LEMMA RaisesUnsent ==
  ASSUME TypeOK, CellRaises \/ UNCHANGED runner
  PROVE  \A q \in Runners : Unsent(q)
  BY IdleUnsent DEF CellRaises, TypeOK

LEMMA OthersSendNothing ==
  ASSUME SubshellAssumption, IInv, [Next]_vars
  PROVE  \/ \A q \in Runners : Unsent(q)
         \/ \E r \in Runners : WorkerSends(r)
<1> USE DEF IInv
<1>1. ASSUME NEW r \in Runners, GetsReady(r)
      PROVE  \A q \in Runners : Unsent(q)
  BY <1>1, GetClientTyped, StepUnsent DEF GetsReady, GetClient
<1>2. ASSUME NEW r \in Runners,
             EnsuresSubshell(r) \/ ReadsReply(r) \/ FallsBack(r) \/ Puts(r)
      PROVE  \A q \in Runners : Unsent(q)
  <2>1. runner[r].client \in ClientIds \cup {NoClient}
    BY DEF TypeOK, Runner
  <2>2. CASE EnsuresSubshell(r)
    BY <2>1, <2>2, StepUnsent DEF EnsuresSubshell
  <2>3. CASE ReadsReply(r) \/ FallsBack(r) \/ Puts(r)
    BY <2>1, <2>3, StepUnsent DEF ReadsReply, FallsBack, Puts
  <2> QED
    BY <1>2, <2>2, <2>3
<1>3. ASSUME NEW r \in Runners, Fails(r) \/ SubshellCellEnds(r) \/ RequestLost(r)
      PROVE  \A q \in Runners : Unsent(q)
  BY <1>3, IdleUnsent DEF Fails, SubshellCellEnds, RequestLost, TypeOK
<1>4. ASSUME NEW r \in Runners, KernelCreates(r)
      PROVE  \A q \in Runners : Unsent(q)
  <2> DEFINE s == CHOOSE x \in Shells : shells[x] = 0
             n == [runner[r] EXCEPT !.reply = s]
  <2>1. runner' = [runner EXCEPT ![r] = n] /\ s \in Shells
    BY <1>4 DEF KernelCreates, TypeOK
  <2> HIDE DEF s
  <2>2. n \in Runner /\ n.pc = runner[r].pc /\ n.shell = runner[r].shell
    BY <2>1 DEF TypeOK, Runner
  <2> HIDE DEF n
  <2> QED
    BY <2>1, <2>2, OneUnsent
<1>5. CASE Stop
  BY <1>5, RaisesUnsent DEF Stop, Sigint
<1>6. CASE CleanupAfterRestart \/ MainCellEnds \/ SnippetRuns
  <2>1. \A q \in Runners : runner'[q] \in {IdleRunner, runner[q]}
    BY <1>6 DEF CleanupAfterRestart, MainCellEnds, SnippetRuns
  <2> QED
    BY <2>1, IdleUnsent
<1>7. CASE MainCellRaises
  BY <1>7, RaisesUnsent DEF MainCellRaises
<1>8. CASE \/ KernelReplaced \/ RestartRaises \/ LabRunsCell \/ KernelCrashes \/ Autorestarts
          \/ UNCHANGED vars
  BY <1>8, RaisesUnsent
     DEF KernelReplaced, RestartRaises, LabRunsCell, KernelCrashes, Autorestarts, vars
<1> QED
  BY <1>1, <1>2, <1>3, <1>4, <1>5, <1>6, <1>7, <1>8 DEF Next, RunnerSteps

LEMMA WorkerSent ==
  ASSUME TypeOK, NEW r \in Runners, WorkerSends(r)
  PROVE  /\ runner'[r].pc = "sent" /\ runner'[r].reply = runner[r].reply
         /\ runner'[r].shell = IF cached = NoClient THEN Main ELSE Route(cached)
         /\ \A q \in Runners \ {r} : runner'[q] = runner[q]
<1> DEFINE n(shell) == [runner[r] EXCEPT !.pc = "sent", !.shell = shell]
<1>1. runner' = [runner EXCEPT ![r] = n(IF cached = NoClient THEN Main ELSE Route(cached))]
  BY DEF WorkerSends, TypeOK
<1>2. \A shell \in Shells \cup {Main} : /\ n(shell).pc = "sent" /\ n(shell).shell = shell
                                     /\ n(shell).reply = runner[r].reply
  BY DEF TypeOK, Runner
<1>3. (IF cached = NoClient THEN Main ELSE Route(cached)) \in Shells \cup {Main}
  BY RouteTyped DEF TypeOK
<1> HIDE DEF n
<1> QED
  BY <1>1, <1>2, <1>3 DEF TypeOK

LEMMA SentAlways == Spec => []SentInv
<1>1. Init => SentInv
  BY DEF Init, SentInv, IdleRunner
<1>2. IInv /\ SentInv /\ [Next]_vars => SentInv'
  <2> SUFFICES ASSUME IInv, SentInv, [Next]_vars
               PROVE  SentInv'
    OBVIOUS
  <2>1. CASE \A q \in Runners : Unsent(q)
    BY <2>1 DEF SentInv, Unsent
  <2>2. CASE \E r \in Runners : WorkerSends(r)
    BY <2>2, WorkerSent DEF SentInv, IInv
  <2> QED
    BY <2>1, <2>2, OthersSendNothing, SubshellAssumption
<1> QED
  BY <1>1, <1>2, Inductive, PTL DEF Spec

(* No cell is sent to a subshell of a process that has gone, once the       *)
(* restart that replaced it was cleaned up or the autorestarter has         *)
(* restarted the kernel: execute_via_subshell uses the subshell that the    *)
(* stack's client remembers, which is then of this process.  After a        *)
(* restart that raised in the handler, which cleans nothing up, it may not  *)
(* be.                                                                      *)
THEOREM SubshellsAreKnownAlways == Spec => SubshellsAreKnown
<1> DEFINE Known == \A r \in Runners :
             runner[r].pc = "queued" /\ runner'[r].shell \in Shells /\ cleanup = "done" =>
               shells[runner'[r].shell] = proc
<1>1. IInv /\ SentInv /\ [Next]_vars => Known
  <2> SUFFICES ASSUME IInv, SentInv, [Next]_vars,
                      NEW r \in Runners, runner[r].pc = "queued",
                      runner'[r].shell \in Shells, cleanup = "done"
               PROVE  shells[runner'[r].shell] = proc
    OBVIOUS
  <2>1. ~Unsent(r) /\ runner'[r] # runner[r]
    BY SubshellAssumption DEF SubshellAssumption, Unsent, SentInv
  <2>2. WorkerSends(r)
    BY <2>1, OthersSendNothing, WorkerSent, SubshellAssumption DEF IInv
  <2>3. cached # NoClient /\ runner'[r].shell = Route(cached)
    BY <2>2, WorkerSent, SubshellAssumption DEF IInv, SubshellAssumption
  <2>4. client[cached].shell = runner'[r].shell
    BY <2>3, SubshellAssumption DEF SubshellAssumption, Route
  <2> QED
    BY <2>3, <2>4, SubshellAssumption DEF IInv, KnownInv, SubshellAssumption
<1>2. IInv /\ SentInv /\ [Next]_vars => [Known]_vars
  BY <1>1
<1> QED
  BY <1>2, Inductive, SentAlways, PTL DEF Spec, SubshellsAreKnown

-----------------------------------------------------------------------------
(* Where Stop looks *)

(* A kernel that is down runs nothing. *)
DownInv == alive \/ main = <<>>

(* A client uses the subshell it remembers, and this one, like one in a     *)
(* reply, was created in a process there has been.                          *)
CreatedInv ==
  /\ \A s \in Shells : shells[s] <= proc
  /\ \A c \in ClientIds : client[c].shell # NoShell =>
       client[c].routed /\ shells[client[c].shell] # 0
  /\ \A r \in Runners : runner[r].reply # NoShell => shells[runner[r].reply] # 0

(* r's cell is where Stop looks, or with a process that has gone. *)
Found(r) ==
  \/ runner[r].shell = client[cached].shell
  \/ runner[r].shell = Main /\ client[cached].shell = NoShell
LostWithProcess(r) == ~InMain(r) /\ shells[runner[r].shell] < proc

FoundInv ==
  \A r \in Runners : runner[r].pc = "sent" =>
    /\ cached # NoClient
    /\ \/ runner[r].shell \in Shells /\ shells[runner[r].shell] # 0
       \/ runner[r].shell = Main
    /\ \/ Found(r)
       \/ runner[r].shell \in Shells /\ LostWithProcess(r)

StopInv == DownInv /\ CreatedInv /\ FoundInv

-----------------------------------------------------------------------------
(* What steps do to the main shell and to jobs *)

(* A step that brings the main shell no cell of a job *)
NoCellAdded ==
  \A r \in Runners : InMain(r)' => InMain(r)

LEMMA TailAdds ==
  ASSUME main \in Seq(Request), main # <<>>, main' = Tail(main)
  PROVE  NoCellAdded
<1>1. Len(main') = Len(main) - 1 /\ \A i \in 1..Len(main') : main'[i] = main[i + 1]
  OBVIOUS
<1>2. Len(main) \in Nat
  OBVIOUS
<1>3. ASSUME NEW r \in Runners, NEW i \in 1..Len(main'), main'[i] = Cell(r) PROVE InMain(r)
  <2>1. i + 1 \in 1..Len(main) /\ main[i + 1] = Cell(r)
    BY <1>1, <1>2, <1>3
  <2> QED
    BY <2>1 DEF InMain
<1> QED
  BY <1>3 DEF NoCellAdded, InMain, Cell

LEMMA AppendAdds ==
  ASSUME main \in Seq(Request), NEW x \in Request, \A r \in Runners : x # Cell(r), main' = Append(main, x)
  PROVE  NoCellAdded
<1>1. Len(main') = Len(main) + 1 /\ Len(main) \in Nat
      /\ \A i \in 1..Len(main) : main'[i] = main[i]
      /\ main'[Len(main) + 1] = x
  OBVIOUS
<1>2. ASSUME NEW r \in Runners, NEW i \in 1..Len(main'), main'[i] = Cell(r) PROVE InMain(r)
  <2>1. i # Len(main) + 1
    BY <1>1, <1>2
  <2>2. i \in 1..Len(main) /\ main[i] = Cell(r)
    BY <1>1, <1>2, <2>1
  <2> QED
    BY <2>2 DEF InMain
<1> QED
  BY <1>2 DEF NoCellAdded, InMain, Cell

LEMMA EmptyAdds ==
  ASSUME main' = <<>> \/ main' = main
  PROVE  NoCellAdded
BY DEF NoCellAdded, InMain, Cell

LEMMA OtherRequests ==
  ASSUME SubshellAssumption
  PROVE  /\ \A r \in Runners : Cell(Lab) # Cell(r)
         /\ \A s \in Shells, r \in Runners : Snippet(s) # Cell(r)
BY DEF SubshellAssumption, Cell, Snippet

(* A job that stands where it stood, or is not with the kernel. *)
Settled(q) ==
  runner'[q] = runner[q] \/ (runner'[q].pc # "sent" /\ runner'[q].reply = NoShell)

LEMMA StepSettles ==
  ASSUME TypeOK, NEW r \in Runners, NEW pc \in {"idle", "waiting", "creating", "ensured", "queued"},
         NEW c \in ClientIds \cup {NoClient}, Step(r, pc, c)
  PROVE  \A q \in Runners : Settled(q)
BY StepTyped DEF Settled, TypeOK

LEMMA IdleSettles ==
  ASSUME \A q \in Runners : runner'[q] \in {IdleRunner, runner[q]}
  PROVE  \A q \in Runners : Settled(q)
BY DEF Settled, IdleRunner

LEMMA RaisesSettles ==
  ASSUME CellRaises \/ UNCHANGED runner
  PROVE  (\A q \in Runners : Settled(q)) /\ (CellRaises => NoCellAdded)
<1>1. CASE CellRaises
  <2>1. \A q \in Runners : runner'[q] \in {IdleRunner, runner[q]}
    BY <1>1 DEF CellRaises
  <2> QED
    BY <2>1, <1>1, IdleSettles, EmptyAdds DEF CellRaises
<1>2. CASE UNCHANGED runner
  BY <1>2, EmptyAdds DEF Settled, CellRaises
<1> QED
  BY <1>1, <1>2

(* Steps in which the stack's client remembers what it did *)
LEMMA SettledKeeps ==
  ASSUME SubshellAssumption, IInv, StopInv, \A q \in Runners : Settled(q), NoCellAdded,
         alive' \/ main' = <<>>, UNCHANGED <<proc, shells>>,
         \A c \in ClientIds : client'[c] = client[c] \/ client'[c].shell = NoShell,
         cached # NoClient => cached' = cached /\ client'[cached] = client[cached]
  PROVE  StopInv'
<1>1. DownInv'
  BY DEF DownInv
<1>2. CreatedInv'
  BY DEF CreatedInv, StopInv, Settled
<1>3. FoundInv'
  BY DEF FoundInv, StopInv, Settled, Found, LostWithProcess, NoCellAdded
<1> QED
  BY <1>1, <1>2, <1>3 DEF StopInv

(* Steps in which no job is with the kernel *)
LEMMA UnsentKeeps ==
  ASSUME IInv, StopInv, \A q \in Runners : runner'[q].pc # "sent",
         alive' \/ main' = <<>>, CreatedInv'
  PROVE  StopInv'
BY DEF StopInv, DownInv, FoundInv

-----------------------------------------------------------------------------
(* One lemma per kind of step *)

LEMMA GettingRemembers ==
  ASSUME SubshellAssumption, IInv, GetClient
  PROVE  /\ \A c \in ClientIds : client'[c] = client[c] \/ client'[c].shell = NoShell
         /\ cached # NoClient => cached' = cached /\ client' = client
         /\ cached = NoClient => client'[cached'].shell = NoShell
         /\ cached' # NoClient /\ cached' \in ClientIds
<1>1. cached' = TheClient /\ client' = ClientsWithMine /\ CanGetClient /\ TypeOK
  BY DEF GetClient, IInv
<1>2. NewClient.shell = NoShell
  BY DEF NewClient
<1>3. CASE cached # NoClient
  BY <1>1, <1>3, GetClientTyped DEF SubshellAssumption
<1>4. CASE cached = NoClient
  BY <1>1, <1>2, <1>4, GetClientTyped DEF SubshellAssumption, TypeOK
<1> QED
  BY <1>3, <1>4

LEMMA StopSettles ==
  ASSUME SubshellAssumption, IInv, StopInv, Stop
  PROVE  StopInv'
<1> DEFINE s == ClientsWithMine[TheClient].shell
<1>1. alive /\ GetClient /\ UNCHANGED <<proc, alive, shells, hooks, cleanup>> /\ TypeOK
  BY DEF Stop, IInv
<1>2. s \in Shells \cup {NoShell}
  BY <1>1, GetClientTyped DEF GetClient, Client
<1>3. (\A q \in Runners : Settled(q)) /\ NoCellAdded
  <2>1. CASE s = NoShell
    <3>1. CellRaises \/ UNCHANGED <<main, runner>>
      BY <2>1 DEF Stop, Sigint
    <3> QED
      BY <3>1, RaisesSettles, EmptyAdds
  <2>2. CASE s # NoShell
    <3>1. main' = Append(main, Snippet(s)) /\ UNCHANGED runner
      BY <2>2 DEF Stop
    <3>2. Snippet(s) \in Request /\ \A r \in Runners : Snippet(s) # Cell(r)
      BY <1>2, <2>2, SnippetTyped, OtherRequests
    <3> HIDE DEF s
    <3> QED
      BY <1>1, <3>1, <3>2, AppendAdds DEF Settled, TypeOK
  <2> QED
    BY <2>1, <2>2
<1>4. /\ \A c \in ClientIds : client'[c] = client[c] \/ client'[c].shell = NoShell
      /\ cached # NoClient => cached' = cached /\ client' = client
  BY <1>1, GettingRemembers
<1> QED
  BY <1>1, <1>3, <1>4, SettledKeeps

(* The steps in which neither the client nor the process changes *)
LEMMA CellsSettle ==
  ASSUME SubshellAssumption, IInv, StopInv, CellSteps
  PROVE  StopInv'
<1> SUFFICES /\ \A q \in Runners : Settled(q)
             /\ NoCellAdded /\ (alive' \/ main' = <<>>)
             /\ UNCHANGED <<proc, shells, client, cached>>
  BY SettledKeeps
<1>1. TypeOK /\ DownInv
  BY DEF IInv, StopInv
<1>2. ASSUME NEW r \in Runners, Fails(r) \/ SubshellCellEnds(r) \/ RequestLost(r)
      PROVE  (\A q \in Runners : Settled(q)) /\ UNCHANGED <<kernelVars, client, cached>>
  <2>1. \A q \in Runners : runner'[q] \in {IdleRunner, runner[q]}
    BY <1>1, <1>2 DEF Fails, SubshellCellEnds, RequestLost, TypeOK
  <2> QED
    BY <1>2, <2>1, IdleSettles DEF Fails, SubshellCellEnds, RequestLost
<1>3. ASSUME NEW r \in Runners, Puts(r)
      PROVE  (\A q \in Runners : Settled(q)) /\ UNCHANGED <<kernelVars, client, cached>>
  BY <1>1, <1>3, StepSettles DEF Puts
<1>4. CASE MainCellEnds \/ SnippetRuns
  <2>1. \A q \in Runners : runner'[q] \in {IdleRunner, runner[q]}
    BY <1>4 DEF MainCellEnds, SnippetRuns
  <2>2. main # <<>> /\ main' = Tail(main) /\ UNCHANGED <<proc, alive, shells, client, cached>>
    BY <1>4 DEF MainCellEnds, SnippetRuns, MainAdvances
  <2> QED
    BY <1>1, <2>1, <2>2, IdleSettles, TailAdds DEF TypeOK, DownInv
<1>5. CASE MainCellRaises
  <2>1. CellRaises /\ main' = <<>> /\ UNCHANGED <<proc, alive, shells, client, cached>>
    BY <1>5 DEF MainCellRaises, CellRaises
  <2> QED
    BY <2>1, RaisesSettles
<1>6. CASE LabRunsCell
  <2>1. Cell(Lab) \in Request /\ \A r \in Runners : Cell(Lab) # Cell(r)
    BY CellTyped, OtherRequests
  <2>2. /\ alive /\ main' = Append(main, Cell(Lab))
        /\ UNCHANGED <<proc, alive, shells, client, cached, runner>>
    BY <1>6 DEF LabRunsCell
  <2>3. NoCellAdded
    BY <1>1, <2>1, <2>2, AppendAdds DEF TypeOK
  <2> QED
    BY <2>2, <2>3 DEF Settled
<1>7. CASE KernelCrashes
  BY <1>7, EmptyAdds DEF KernelCrashes, Settled
<1> QED
  BY <1>1, <1>2, <1>3, <1>4, <1>5, <1>6, <1>7, EmptyAdds DEF CellSteps, kernelVars, DownInv

LEMMA GetsReadySettles ==
  ASSUME SubshellAssumption, IInv, StopInv, NEW r \in Runners, GetsReady(r)
  PROVE  StopInv'
<1>1. GetClient /\ Step(r, "waiting", cached') /\ UNCHANGED <<proc, alive, shells, main>>
  BY DEF GetsReady, GetClient, kernelVars
<1>2. /\ \A c \in ClientIds : client'[c] = client[c] \/ client'[c].shell = NoShell
      /\ cached # NoClient => cached' = cached /\ client' = client
      /\ cached' \in ClientIds
  BY <1>1, GettingRemembers
<1>3. \A q \in Runners : Settled(q)
  BY <1>1, <1>2, StepSettles DEF IInv
<1> QED
  BY <1>1, <1>2, <1>3, EmptyAdds, SettledKeeps DEF StopInv, DownInv

(* A client that is prepared remembers its subshell, or that of a reply. *)
LEMMA PreparedSettles ==
  ASSUME SubshellAssumption, IInv, StopInv, \A q, p \in Runners : q = p,
         NEW r \in Runners, EnsuresSubshell(r) \/ ReadsReply(r) \/ FallsBack(r)
  PROVE  StopInv'
<1> DEFINE c == runner[r].client
<1>1. /\ c \in ClientIds /\ runner[r].reply \in Shells \cup {NoShell}
      /\ client[c].shell \in Shells \cup {NoShell}
  BY DEF EnsuresSubshell, ReadsReply, FallsBack, IInv, HoldInv, TypeOK, Runner, Client
<1>2. UNCHANGED <<kernelVars, cached, cleanup>>
  BY DEF EnsuresSubshell, ReadsReply, FallsBack
<1>3. PICK pc \in {"ensured", "creating"} : Step(r, pc, c)
  BY DEF EnsuresSubshell, ReadsReply, FallsBack
<1>4. \/ UNCHANGED client
      \/ \E s \in {client[c].shell, runner[r].reply} : Prepared(c, s)
  BY DEF EnsuresSubshell, ReadsReply, FallsBack
<1> HIDE DEF c
<1>5. /\ runner'[r].pc # "sent" /\ runner'[r].reply = NoShell
      /\ \A q \in Runners : q = r
  BY <1>1, <1>3, StepTyped DEF IInv, TypeOK
<1>6. \A d \in ClientIds : client'[d].shell # NoShell => client'[d].routed /\ shells[client'[d].shell] # 0
  <2>1. CASE UNCHANGED client
    BY <2>1 DEF StopInv, CreatedInv
  <2>2. ASSUME NEW s \in {client[c].shell, runner[r].reply}, Prepared(c, s)
        PROVE  \A d \in ClientIds : client'[d].shell # NoShell => client'[d].routed /\ shells[client'[d].shell] # 0
    <3>1. /\ client'[c].shell = s /\ client'[c].routed
          /\ \A d \in ClientIds \ {c} : client'[d] = client[d]
      BY <1>1, <2>2, PreparedKeeps DEF IInv
    <3> QED
      BY <1>1, <3>1 DEF StopInv, CreatedInv
  <2> QED
    BY <1>4, <2>1, <2>2
<1>7. CreatedInv'
  BY <1>2, <1>5, <1>6 DEF StopInv, CreatedInv, kernelVars
<1> QED
  BY <1>2, <1>5, <1>7, UnsentKeeps DEF StopInv, DownInv, kernelVars

LEMMA KernelCreatesSettles ==
  ASSUME SubshellAssumption, IInv, StopInv, \A q, p \in Runners : q = p,
         NEW r \in Runners, KernelCreates(r)
  PROVE  StopInv'
<1> DEFINE s == CHOOSE x \in Shells : shells[x] = 0
           n == [runner[r] EXCEPT !.reply = s]
<1>1. /\ runner[r].pc = "creating" /\ alive
      /\ shells' = [shells EXCEPT ![s] = proc]
      /\ runner' = [runner EXCEPT ![r] = n]
      /\ UNCHANGED <<proc, alive, client, cached, main>>
  BY DEF KernelCreates, IInv, TypeOK
<1>2. s \in Shells /\ shells[s] = 0
  BY DEF KernelCreates
<1> HIDE DEF s
<1>3. n \in Runner /\ n.pc = runner[r].pc /\ n.reply = s
  BY <1>2 DEF IInv, TypeOK, Runner
<1> HIDE DEF n
<1>4. runner'[r] = n /\ \A q \in Runners : q = r
  BY <1>1 DEF IInv, TypeOK
<1>5. /\ shells'[s] = proc /\ proc # 0 /\ \A t \in Shells \ {s} : shells'[t] = shells[t]
      /\ proc \in Nat
  BY <1>1, <1>2 DEF IInv, TypeOK
<1>6. \A c \in ClientIds : client[c].shell \in Shells \cup {NoShell}
  BY DEF IInv, TypeOK, Client
<1>7. CreatedInv'
  BY <1>1, <1>2, <1>3, <1>4, <1>5, <1>6 DEF StopInv, CreatedInv
<1> QED
  BY <1>1, <1>3, <1>4, <1>7, UnsentKeeps

(* The worker sends a cell where the client it finds would be stopped. *)
LEMMA WorkerSettles ==
  ASSUME SubshellAssumption, IInv, StopInv, \A q, p \in Runners : q = p,
         NEW r \in Runners, WorkerSends(r)
  PROVE  StopInv'
<1>1. /\ runner'[r].shell = IF cached = NoClient THEN Main ELSE Route(cached)
      /\ runner'[r].reply = runner[r].reply
      /\ \A q \in Runners : q = r
  BY WorkerSent DEF IInv
<1>2. GetClient /\ UNCHANGED <<proc, alive, shells>> /\ (main' = main \/ alive)
  BY DEF WorkerSends
<1>3. /\ \A c \in ClientIds : client'[c] = client[c] \/ client'[c].shell = NoShell
      /\ cached # NoClient => cached' = cached /\ client' = client
      /\ cached = NoClient => client'[cached'].shell = NoShell
      /\ cached' # NoClient
  BY <1>2, GettingRemembers
<1>4. CreatedInv'
  BY <1>1, <1>2, <1>3 DEF StopInv, CreatedInv
<1>5. FoundInv'
  <2>1. CASE cached = NoClient
    BY <1>1, <1>3, <2>1 DEF FoundInv, Found
  <2>2. CASE cached # NoClient
    <3>1. cached \in ClientIds /\ client[cached].shell \in Shells \cup {NoShell}
      BY <2>2 DEF IInv, TypeOK, Client
    <3>2. \/ runner'[r].shell = client[cached].shell /\ client[cached].shell # NoShell
          \/ runner'[r].shell = Main /\ client[cached].shell = NoShell
      BY <1>1, <2>2, <3>1 DEF Route, StopInv, CreatedInv
    <3> QED
      BY <1>1, <1>2, <1>3, <2>2, <3>1, <3>2 DEF FoundInv, Found, StopInv, CreatedInv
  <2> QED
    BY <2>1, <2>2
<1> QED
  BY <1>2, <1>4, <1>5 DEF StopInv, DownInv

LEMMA CleanupSettles ==
  ASSUME SubshellAssumption, IInv, StopInv, CleanupAfterRestart
  PROVE  StopInv'
<1>1. \A q \in Runners : runner'[q].pc # "sent" /\ runner'[q].reply \in {NoShell, runner[q].reply}
  BY DEF CleanupAfterRestart, IdleRunner
<1>2. \A c \in ClientIds : client'[c] = client[c] \/ client'[c].shell = NoShell
  <2>1. CASE cached = NoClient
    BY <2>1 DEF CleanupAfterRestart
  <2>2. CASE cached # NoClient
    <3> DEFINE f == Forgotten(cached)
               n == [f EXCEPT !.status = "stopped", !.routed = FALSE, !.hooked = FALSE]
    <3>1. client' = [client EXCEPT ![cached] = n]
      BY <2>2 DEF CleanupAfterRestart
    <3>2. f \in Client /\ f.shell = NoShell
      BY <2>2 DEF Forgotten, IInv, TypeOK, Client
    <3>3. n.shell = NoShell
      BY <3>2 DEF Client
    <3> HIDE DEF n
    <3> QED
      BY <3>1, <3>3 DEF IInv, TypeOK
  <2> QED
    BY <2>1, <2>2
<1>3. UNCHANGED <<proc, alive, shells, main>>
  BY DEF CleanupAfterRestart
<1>4. CreatedInv'
  BY <1>1, <1>2, <1>3 DEF StopInv, CreatedInv
<1> QED
  BY <1>1, <1>3, <1>4, UnsentKeeps DEF StopInv, DownInv

(* A cell in a subshell of the process before is with none that runs. *)
LEMMA NewProcessSettles ==
  ASSUME SubshellAssumption, IInv, StopInv, KernelReplaced \/ Autorestarts
  PROVE  StopInv'
<1>1. /\ proc' = proc + 1 /\ proc \in Nat /\ alive' = TRUE /\ main' = <<>>
      /\ UNCHANGED <<shells, cached, runner>>
  BY DEF KernelReplaced, Autorestarts, IInv, TypeOK, StopInv, DownInv
<1>2. \A c \in ClientIds : client'[c] = client[c] \/ client'[c].shell = NoShell
  <2>1. CASE KernelReplaced
    BY <2>1 DEF KernelReplaced
  <2>2. CASE Autorestarts
    BY <2>2 DEF Autorestarts, Forgotten, IInv, TypeOK, Client
  <2> QED
    BY <2>1, <2>2
<1>3. \A s \in Shells : shells[s] \in Nat /\ shells[s] < proc'
  BY <1>1 DEF IInv, TypeOK, StopInv, CreatedInv
<1>4. CreatedInv'
  BY <1>1, <1>2, <1>3 DEF StopInv, CreatedInv
<1>5. FoundInv'
  <2> SUFFICES ASSUME NEW r \in Runners, runner[r].pc = "sent"
               PROVE  \/ runner[r].shell \in Shells /\ LostWithProcess(r)'
                      \/ runner[r].shell = Main /\ Found(r)'
    BY <1>1 DEF StopInv, FoundInv
  <2>1. CASE runner[r].shell \in Shells
    BY <1>1, <1>3, <2>1 DEF LostWithProcess, InMain
  <2>2. CASE runner[r].shell = Main
    <3>1. cached \in ClientIds /\ client[cached].shell = NoShell
      BY <2>2, SubshellAssumption DEF StopInv, FoundInv, Found, SubshellAssumption, IInv, TypeOK, Client
    <3> QED
      BY <1>1, <1>2, <2>2, <3>1 DEF Found
  <2> QED
    BY <2>1, <2>2 DEF StopInv, FoundInv
<1> QED
  BY <1>1, <1>4, <1>5 DEF StopInv, DownInv

(* As long as the kernel has one job at a time, as the job_lock of its room *)
(* sees to, Stop looks where the job's cell is: whatever was restarted or   *)
(* evicted since it was sent, the cell is in the subshell the stack's       *)
(* client remembers, in the main shell if it remembers none, or no longer   *)
(* in the kernel.                                                           *)
THEOREM StopFindsCellAlways ==
  ASSUME \A q, p \in Runners : q = p
  PROVE  Spec => []StopFindsCell
<1>1. Init => StopInv
  <2> SUFFICES ASSUME Init PROVE StopInv
    OBVIOUS
  <2> DEFINE n == [NewClient EXCEPT !.status = "unmade"]
  <2>1. n.shell = NoShell
    BY DEF NewClient
  <2>2. client = [c \in ClientIds |-> n]
    BY DEF Init
  <2> HIDE DEF n
  <2>3. IdleRunner.pc = "idle" /\ IdleRunner.reply = NoShell
    BY DEF IdleRunner
  <2>4. runner = [r \in Runners |-> IdleRunner]
    BY DEF Init
  <2>5. DownInv
    BY DEF Init, DownInv
  <2>6. CreatedInv
    <3>1. \A s \in Shells : shells[s] <= proc
      BY DEF Init
    <3>2. \A c \in ClientIds : client[c].shell = NoShell
      BY <2>1, <2>2
    <3>3. \A r \in Runners : runner[r].reply = NoShell
      BY <2>3, <2>4
    <3> QED
      BY <3>1, <3>2, <3>3 DEF CreatedInv
  <2>7. \A r \in Runners : runner[r].pc # "sent"
    BY <2>3, <2>4
  <2> QED
    BY <2>5, <2>6, <2>7 DEF StopInv, FoundInv
<1>2. ASSUME IInv, StopInv, [Next]_vars PROVE StopInv'
  <2>1. CASE RestartRaises \/ UNCHANGED vars
    BY <1>2, <2>1 DEF vars, RestartRaises, kernelVars, StopInv, DownInv, CreatedInv, FoundInv, Found, LostWithProcess, InMain, Cell
  <2>2. CASE CellSteps \/ Stop \/ KernelReplaced \/ Autorestarts \/ CleanupAfterRestart
    BY <1>2, <2>2, SubshellAssumption, CellsSettle, StopSettles, NewProcessSettles, CleanupSettles
  <2>3. ASSUME NEW r \in Runners, RunnerSteps(r) \/ KernelCreates(r)
        PROVE  StopInv' \/ CellSteps
    BY <1>2, <2>3, SubshellAssumption, GetsReadySettles, PreparedSettles, KernelCreatesSettles, WorkerSettles
    DEF RunnerSteps, CellSteps
  <2> QED
    BY <1>2, <2>1, <2>2, <2>3 DEF Next, CellSteps
<1>3. IInv /\ StopInv => StopFindsCell
  <2> SUFFICES ASSUME IInv, StopInv, NEW r \in Runners, runner[r].pc = "sent", Executing(r), cached # NoClient
               PROVE  Found(r)
    BY DEF StopFindsCell, Found
  <2>1. ASSUME runner[r].shell \in Shells, LostWithProcess(r) PROVE FALSE
    BY <2>1 DEF LostWithProcess, Executing, InSubshell, IInv, TypeOK
  <2> QED
    BY <2>1 DEF StopInv, FoundInv
<1> QED
  BY <1>1, <1>2, <1>3, Inductive, PTL DEF Spec
=============================================================================
