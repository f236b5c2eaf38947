--------------------------- MODULE WorkerStartup ---------------------------
(***************************************************************************)
(* A worker process from start to exit: what it acquires outside itself    *)
(* (a connection pool, the desktop driver, one child per MCP server), the  *)
(* checks that may stop it in between, and who releases what: the          *)
(* ExitStack of create_worker until a Worker exists, Worker.close after.   *)
(* That a child is ended when its session is closed is in StdioSession.    *)
(***************************************************************************)
EXTENDS Naturals, Sequences, FiniteSets, SequencesExt

CONSTANT Servers      \* the enabled MCP servers, in their order

\* The parts that may be misconfigured or missing.  "elements" is a limit that
\* ComputerSettings accepts and ComputerCaptureSettings does not.
Parts == {"brain", "workspace", "driver", "elements", "routes", "names", "bindings", "duplicate"}

VARIABLES
  cfg,         \* what is enabled, and what is broken
  pc,
  held,        \* what is open outside the process
  stack,       \* resources: the callbacks, in the order they were registered
  todo,        \* the servers that are still to be discovered
  interrupted  \* history: KeyboardInterrupt before the handlers were installed

vars == <<cfg, pc, held, stack, todo, interrupted>>

Startup == {"verify", "engine", "workspace", "computer", "health", "gateway", "messaging", "names",
            "discover", "bind", "compose"}

TypeOK ==
  /\ cfg \in [computer : BOOLEAN, mcp : BOOLEAN, broken : SUBSET Parts]
  /\ pc \in Startup \cup {"unwind", "serving", "closing", "closeMcp", "dispose", "exited"}
  /\ held \subseteq {"engine", "driver"} \cup ToSet(Servers)
  /\ Len(stack) <= 3 /\ IsInjective(stack)
  /\ IsSuffix(todo, Servers)
  /\ interrupted \in BOOLEAN

Plain == [computer |-> FALSE, mcp |-> FALSE, broken |-> {}]

Init ==
  /\ cfg \in [computer : BOOLEAN, mcp : BOOLEAN, broken : {B \in SUBSET Parts : Cardinality(B) <= 2}]
  /\ pc = "verify"
  /\ held = {} /\ stack = <<>> /\ todo = Servers
  /\ interrupted = FALSE

-----------------------------------------------------------------------------
Broken(part) == part \in cfg.broken

\* An exception leaves _compose_worker: the stack unwinds.
Raise == pc' = "unwind"

\* A check that acquires nothing.
Check(at, part, next) ==
  /\ pc = at
  /\ pc' = IF Broken(part) THEN "unwind" ELSE next
  /\ UNCHANGED <<cfg, held, stack, todo, interrupted>>

\* The semantic probe of the Claude CLI, before anything else.
VerifyBrain == Check("verify", "brain", "engine")

CreateEngine ==
  /\ pc = "engine"
  /\ held' = held \cup {"engine"} /\ stack' = Append(stack, "engine")
  /\ pc' = "workspace"
  /\ UNCHANGED <<cfg, todo, interrupted>>

WorkspaceGateway == Check("workspace", "workspace", "computer")

\* health() starts the driver.
StartDriver ==
  /\ pc = "computer"
  /\ IF cfg.computer THEN held' = held \cup {"driver"} /\ pc' = "health"
     ELSE pc' = "messaging" /\ UNCHANGED held
  /\ UNCHANGED <<cfg, stack, todo, interrupted>>

\* Mutant: an unhealthy driver is left as it is.
DriverHealth_Left ==
  /\ pc = "health"
  /\ IF Broken("driver") THEN Raise ELSE pc' = "gateway"
  /\ UNCHANGED <<cfg, held, stack, todo, interrupted>>

DriverHealth ==
  /\ pc = "health"
  /\ IF Broken("driver") THEN Raise /\ held' = held \ {"driver"}
     ELSE pc' = "gateway" /\ UNCHANGED held
  /\ UNCHANGED <<cfg, stack, todo, interrupted>>

\* The settings of the gateway are validated when it is built, and the driver is
\* registered once it has been.
BuildComputerGateway ==
  /\ pc = "gateway"
  /\ IF Broken("elements") THEN Raise /\ UNCHANGED stack
     ELSE pc' = "messaging" /\ stack' = Append(stack, "driver")
  /\ UNCHANGED <<cfg, held, todo, interrupted>>

\* The routes and their timeouts.
MessageGateway == Check("messaging", "routes", IF cfg.mcp THEN "names" ELSE "compose")

\* Rejects unsafe names before the first child.
ValidateConfiguredNames == Check("names", "names", "discover")

\* Mutant: only what is registered is closed.
Abandon_Registered == Raise /\ held' = held \ ToSet(stack)

\* The children build_mcp_gateway has started are closed with its error.
Abandon == Raise /\ held' = held \ ToSet(Servers)

\* A server that cannot be reached, or offers nothing that is bound, is closed
\* and kept as unavailable.
DiscoverServer ==
  /\ pc = "discover"
  /\ IF todo = <<>> THEN pc' = "bind" /\ UNCHANGED <<held, todo>>
     ELSE /\ held' \in {held, held \cup {todo[1]}}
          /\ todo' = Tail(todo)
          /\ UNCHANGED pc
  /\ UNCHANGED <<cfg, stack, interrupted>>

\* McpToolGateway refuses bindings that two servers share.
BuildMcpGateway ==
  /\ pc = "bind"
  /\ IF Broken("bindings") THEN Abandon /\ UNCHANGED stack
     ELSE pc' = "compose" /\ stack' = Append(stack, "mcp") /\ UNCHANGED held
  /\ UNCHANGED <<cfg, todo, interrupted>>

\* CompositeToolGateway refuses a name of two gateways.
NamesCollide == Broken("duplicate")

\* The Worker owns what the stack did.
TakeOver == pc' = "serving" /\ stack' = <<>>

ComposeWorker ==
  /\ pc = "compose"
  /\ IF NamesCollide THEN Raise /\ UNCHANGED stack ELSE TakeOver
  /\ UNCHANGED <<cfg, held, todo, interrupted>>

\* The handlers are not installed yet: SIGINT raises KeyboardInterrupt anywhere.
Interrupt ==
  /\ pc \in Startup
  /\ IF pc \in {"discover", "bind"} THEN Abandon ELSE Raise /\ UNCHANGED held
  /\ interrupted' = TRUE
  /\ UNCHANGED <<cfg, stack, todo>>

-----------------------------------------------------------------------------
\* What a callback releases.
Releases(c) == IF c = "mcp" THEN ToSet(Servers) ELSE {c}

\* ExitStack runs its callbacks last in, first out, though one of them raises.
Unwind ==
  /\ pc = "unwind"
  /\ IF stack = <<>> THEN pc' = "exited" /\ UNCHANGED <<held, stack>>
     ELSE held' = held \ Releases(Last(stack)) /\ stack' = Front(stack) /\ UNCHANGED pc
  /\ UNCHANGED <<cfg, todo, interrupted>>

\* A transport that failed is closed, and stays closed.
LoseServer(s) ==
  /\ pc = "serving" /\ s \in held
  /\ held' = held \ {s}
  /\ UNCHANGED <<cfg, pc, stack, todo, interrupted>>

\* A signal, or an exception that leaves serve_forever.
StopServing ==
  /\ pc = "serving"
  /\ pc' = "closing"
  /\ UNCHANGED <<cfg, held, stack, todo, interrupted>>

\* Mutant: the steps of Worker.close are not in a finally.
After_Skips(raised, next) == IF raised THEN "exited" ELSE next
After(raised, next) == next

\* Worker.close: closing may raise, after what was to be closed is gone.
Close(at, parts, next) ==
  /\ pc = at
  /\ held' = held \ parts
  /\ \E raised \in BOOLEAN : pc' = After(raised, next)
  /\ UNCHANGED <<cfg, stack, todo, interrupted>>

CloseComputer == Close("closing", {"driver"}, "closeMcp")
CloseMcp == Close("closeMcp", ToSet(Servers), "dispose")
DisposeEngine == Close("dispose", {"engine"}, "exited")

Next ==
  \/ VerifyBrain \/ CreateEngine \/ WorkspaceGateway
  \/ StartDriver \/ DriverHealth \/ BuildComputerGateway \/ MessageGateway
  \/ ValidateConfiguredNames \/ DiscoverServer \/ BuildMcpGateway \/ ComposeWorker
  \/ Interrupt \/ Unwind
  \/ (\E s \in ToSet(Servers) : LoseServer(s))
  \/ StopServing \/ CloseComputer \/ CloseMcp \/ DisposeEngine

Spec == Init /\ [][Next]_vars

-----------------------------------------------------------------------------
\* What would stop a worker with this configuration.
Fatal ==
  cfg.broken \ ((IF cfg.computer THEN {} ELSE {"driver", "elements"})
                  \cup (IF cfg.mcp THEN {} ELSE {"names", "bindings"}))

(* A worker that exits leaves no child and no pool behind, wherever it failed; only a driver whose      *)
(* gateway is refused after it was started, or that is interrupted before it is registered, stays.  The *)
(* pool outlives the children that use it, and a worker serves only with everything its configuration   *)
(* enables in order (create_worker, Worker.close; main.py: "a misconfigured environment can never claim *)
(* a Run").                                                                                              *)
NothingLeft ==
  /\ pc = "exited" => held \subseteq IF interrupted \/ Broken("elements") THEN {"driver"} ELSE {}
  /\ "engine" \notin held => held \subseteq {"driver"}
  /\ pc = "serving" => Fatal = {} /\ (cfg.computer => "driver" \in held)
=============================================================================
