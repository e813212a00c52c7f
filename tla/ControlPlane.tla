---------------------------- MODULE ControlPlane ----------------------------
(* The configuration in the agent's memory, the file, and the command line   *)
(* that edits the file on its own; the cloud credential check and the gate   *)
(* on enabling a provider; the local scan with its lock and its cache, and   *)
(* the pool rows made from both.                                             *)
(*                                                                           *)
(* A handler runs to its next await: POST config saves and applies in one    *)
(* step and then queues a forced scan; a verification and a discovery take   *)
(* what they need from the configuration before their await and write it     *)
(* after.  One cloud provider.                                               *)
EXTENDS Naturals, FiniteSets

CONSTANTS
    Urls, Ports,  \* backends; those a default port or an env hint names
    Providers, ProviderOf, ModelCount,  \* whose candidate a backend is, and how
                  \* many models it lists
    Keys, Valid, NoKey,
    Named,        \* a set-key that names a variable instead
    Operations,   \* bound on operator steps, restarts included
    Menus         \* what an operator does: sets of [patches, edits, asks,
                  \* serving, env, cliEnv], the last two the variables the
                  \* agent and the command line can read

\* What a patch and an edit carry.
IsPatch(p) ==
    /\ p.kind \in {"cloud", "pinned", "ignored", "learned", "custom", "providers", "future"}
    /\ p.kind = "cloud" => /\ p.on \in BOOLEAN /\ p.key \in Keys \cup {NoKey} /\ p.named \in BOOLEAN
                           /\ p.auth \in {"api_key", "oauth_pkce", "plan_token"}
    /\ p.kind \in {"pinned", "ignored", "learned", "custom"} => p.urls \in SUBSET Urls
    /\ p.kind = "providers" => p.ids \in SUBSET Providers
IsEdit(e) ==
    /\ e.op \in {"enable", "disable", "set-key", "verify", "ignore", "import"}
    /\ e.op = "set-key" => e.key \in Keys \cup {Named}
    /\ e.op = "ignore" => e.url \in Urls
    /\ e.op = "import" => IsPatch(e.patch)

\* What api_key_env, the registry's variable and CLAUDE_CODE_OAUTH_TOKEN hold.
Environments == [named : Keys \cup {NoKey}, default : Keys \cup {NoKey}, plan : Keys \cup {NoKey}]

\* No two backends list equally many models: which of them is the best does not
\* depend on the order they are asked in.
ASSUME ControlAssumption ==
    /\ Ports \subseteq Urls /\ Valid \subseteq Keys
    /\ ProviderOf \in [Urls -> Providers] /\ ModelCount \in [Urls -> Nat]
    /\ \A x, y \in Urls : ModelCount[x] = ModelCount[y] => x = y
    /\ NoKey \notin Keys /\ Named \notin Keys /\ Named # NoKey
    /\ Operations \in Nat
    /\ \A m \in Menus :
          /\ \A p \in m.patches : IsPatch(p)
          /\ \A e \in m.edits : IsEdit(e)
          /\ m.serving \subseteq Urls /\ m.env \in Environments /\ m.cliEnv \in Environments

VARIABLES
    mem,      \* the configuration: sections shared by cfg and service.config
    future,   \* top-level section no model knows: in cfg and in service.config
    file,     \* config.toml
    cli,      \* command line: idle, or an edit of the file as it loaded it
    probe,    \* verification in flight: the key that is checked
    answers,  \* <<key, status>> a provider ever answered
    waiting, scan, cache, fresh, rows, cloudRow,
    menu,     \* patches and edits of this operator, callers of a refresh, the
              \* backends that answer a scan
    steps

configVars == <<mem, future, file>>
scanVars == <<waiting, scan, cache, fresh, rows>>
controlVars == <<mem, future, file, cli, probe, answers, waiting, scan, cache, fresh,
                 rows, cloudRow, menu, steps>>

Conclusive == {"no_key", "unauthorized"}
Statuses == {"", "ok", "unreachable"} \cup Conclusive
Absent == [for |-> "none"]

DefaultConfig ==
    [on |-> FALSE, key |-> NoKey, named |-> FALSE, auth |-> "api_key", status |-> "", of |-> NoKey,
     pinned |-> {}, learned |-> {}, ignored |-> {}, custom |-> {}, providers |-> Providers,
     strategy |-> "own", future |-> FALSE]

---------------------------------------------------------------------------
(* The gate: a provider is enabled only on a current check of its key *)

\* resolve_api_key: the inline key, or what a variable holds in the environment
\* of the process that asks: the one the entry names, the registry's, and for
\* plan tokens their own.
Resolve(c, env) ==
    LET own == IF c.key = NoKey /\ c.named THEN env.named ELSE c.key
        key == IF own = NoKey THEN env.default ELSE own
    IN IF key = NoKey /\ c.auth = "plan_token" THEN env.plan ELSE key

\* gate_decision: an entry without a source of a key cannot serve; another is
\* unverified unless the record is of this key, where it can be seen, and no
\* proof that it fails.
HasSource(c, env) == c.key # NoKey \/ c.named \/ Resolve(c, env) # NoKey
GateForgetsKey(c, env) ==
    IF ~HasSource(c, env) THEN "demote"
    ELSE IF c.status = "" \/ c.status \in Conclusive THEN "unverified" ELSE "allow"
Gate(c, env) ==
    IF ~HasSource(c, env) THEN "demote"
    ELSE IF \/ c.status = "" \/ c.status \in Conclusive
            \/ Resolve(c, env) \notin {NoKey, c.of}
    THEN "unverified" ELSE "allow"

\* enforce_cloud_provider_verification: what was on stays on unverified.
Guarded(prev, c, env) ==
    IF c.on /\ Gate(c, env) # "allow" /\ ~(Gate(c, env) = "unverified" /\ prev.on)
    THEN [c EXCEPT !.on = FALSE] ELSE c

\* verification_state and can_enable, what a page shows of the same entry.
ShownIgnoresKey(c, env) ==
    IF Resolve(c, env) = NoKey THEN "no_key" ELSE IF c.status = "" THEN "never_checked"
    ELSE c.status
Shown(c, env) ==
    IF Resolve(c, env) = NoKey THEN "no_key"
    ELSE IF c.status = "" THEN "never_checked"
    ELSE IF c.of # Resolve(c, env) THEN "key_changed" ELSE c.status
CanEnable(status) == status \notin Conclusive \cup {"never_checked", "key_changed"}

\* probe_cloud_provider on key k: without a key nothing is asked.
Outcomes(k) == IF k = NoKey THEN {"no_key"}
               ELSE {"unreachable", IF k \in Valid THEN "ok" ELSE "unauthorized"}

\* record_verification: the fingerprint is that of the key that was checked.
Recorded(c, k, s) == [c EXCEPT !.status = s, !.of = k]

---------------------------------------------------------------------------
(* Patches: apply_config_patch, one section each *)

\* Keys are write-only: an empty one keeps the stored key, also where the patch
\* names a variable.  The lists of a section replace the stored ones.  Guards on
\* the cloud run when it is named.
Patched(c, p, env) ==
    CASE p.kind = "cloud" ->
            Guarded(c, [c EXCEPT !.on = p.on, !.auth = p.auth, !.named = p.named,
                                 !.key = IF p.key = NoKey THEN @ ELSE p.key], env)
      [] p.kind = "pinned" -> [c EXCEPT !.pinned = p.urls]
      [] p.kind = "ignored" -> [c EXCEPT !.ignored = p.urls]
      [] p.kind = "learned" -> [c EXCEPT !.learned = p.urls]
      [] p.kind = "custom" -> [c EXCEPT !.custom = p.urls]
      [] p.kind = "providers" -> [c EXCEPT !.providers = p.ids]
      [] p.kind = "future" -> [c EXCEPT !.future = TRUE]

\* save_config of the agent's cfg ("cfg") or of its service's config.
Saved(c, holder) == [c EXCEPT !.future = future[holder]]

---------------------------------------------------------------------------
(* The scan *)

Ignored(c) == c.ignored \ c.pinned

\* candidate_urls_for_provider of every provider of the roster, and what is
\* asked as itself: custom endpoints and explicit backends.
ScanUrls(c) == {x \in (Ports \cup c.learned) \ Ignored(c) : ProviderOf[x] \in c.providers}
ByName(c) == (c.custom \ Ignored(c)) \cup c.pinned

\* _probe_provider: of a provider's candidates that answer, the one with most
\* models.
Hits(c) ==
    LET online == ScanUrls(c) \cap menu.serving
    IN {x \in online : \A y \in online : ProviderOf[x] = ProviderOf[y] => ModelCount[y] <= ModelCount[x]}

\* Which rows a scan of c made while the configuration became d: what answered,
\* and a row of each explicit backend, reachable or not.
RowsFound(c, d) == Hits(c) \cup (ByName(c) \cap menu.serving) \cup d.pinned

\* merge_discovered_provider_urls: neither custom endpoints nor explicit
\* backends are learned, nor what lists no model.
Learned(c, d) ==
    LET turnedUp == (Hits(c) \cup (c.pinned \cap menu.serving)) \ d.pinned
    IN [d EXCEPT !.learned = @ \cup {x \in turnedUp : ModelCount[x] > 0}]

\* A scan that was forced, or that learns, does not take the cached rows.
ReusesAlways(for) == cache # {"none"} /\ fresh
Reuses(for) == for = "request" /\ cache # {"none"} /\ fresh

\* _materialize_cloud_provider_backends; a merge of the live row takes its key
\* and leaves its auth mode.
AuthMode(c) == IF c.auth = "plan_token" THEN "bearer" ELSE "api_key"
CloudRowOf(c) ==
    IF ~c.on \/ (Resolve(c, menu.env) = NoKey /\ c.auth # "oauth_pkce") THEN Absent
    ELSE [for |-> Resolve(c, menu.env),
          auth |-> IF cloudRow = Absent THEN AuthMode(c) ELSE cloudRow.auth]

---------------------------------------------------------------------------
(* The agent *)

Step == steps < Operations /\ steps' = steps + 1

\* POST admin/config, up to its await: the file, the sections of cfg, the
\* service's whole configuration, the cache.
PostConfig(p) ==
    /\ Step
    /\ mem' = [Patched(mem, p, menu.env) EXCEPT !.future = FALSE]
    /\ future' = [future EXCEPT !["service"] = future["cfg"] \/ p.kind = "future"]
    /\ file' = [Patched(mem, p, menu.env) EXCEPT !.future = future["cfg"] \/ p.kind = "future"]
    /\ cache' = {"none"}
    /\ waiting' = waiting \cup {"force"}
    /\ UNCHANGED <<cli, probe, answers, scan, fresh, rows, cloudRow, menu>>

\* POST cloud/providers/{id}/verify: the key the user typed, or the stored one.
BeginVerify(k) ==
    /\ Step /\ probe = Absent /\ "verify" \in menu.asks
    /\ probe' = [for |-> IF k = NoKey THEN Resolve(mem, menu.env) ELSE k]
    /\ UNCHANGED <<configVars, cli, answers, scanVars, cloudRow, menu>>

FinishVerify(s) ==
    /\ probe # Absent /\ s \in Outcomes(probe.for)
    /\ probe' = Absent
    /\ answers' = answers \cup {<<probe.for, s>>}
    /\ mem' = Recorded(mem, probe.for, s)
    /\ file' = Saved(Recorded(mem, probe.for, s), "cfg")
    /\ UNCHANGED <<future, cli, scanVars, cloudRow, menu, steps>>

\* A heartbeat of the gateway: its strategy is adopted at runtime.
FollowGateway ==
    /\ "gateway" \in menu.asks /\ mem.strategy = "own"
    /\ mem' = [mem EXCEPT !.strategy = "gateway"]
    /\ UNCHANGED <<future, file, cli, probe, answers, scanVars, cloudRow, menu, steps>>

\* refresh_local_backends for a request or a discovery: the cached rows, or
\* the lock.
Refresh(for) ==
    /\ for \in menu.asks \ waiting
    /\ for = "discover" => Step
    /\ for = "request" => UNCHANGED steps
    /\ IF Reuses(for)
       THEN rows' = cache /\ cloudRow' = CloudRowOf(mem) /\ UNCHANGED waiting
       ELSE waiting' = waiting \cup {for} /\ UNCHANGED <<rows, cloudRow>>
    /\ UNCHANGED <<configVars, cli, probe, answers, scan, cache, fresh, menu>>

\* The lock is taken; whoever waited for a scan somebody else just made uses it.
StartScan(for) ==
    /\ for \in waiting /\ scan = Absent
    /\ waiting' = waiting \ {for}
    /\ IF Reuses(for)
       THEN rows' = cache /\ cloudRow' = CloudRowOf(mem) /\ UNCHANGED scan
       ELSE scan' = [for |-> for, config |-> mem] /\ UNCHANGED <<rows, cloudRow>>
    /\ UNCHANGED <<configVars, cli, probe, answers, cache, fresh, menu, steps>>

\* The scan of the configuration it started with ends; a discovery writes
\* what it learned into the present one and saves it when that changed it.
FinishScan ==
    /\ scan # Absent
    /\ scan' = Absent
    /\ LET found == RowsFound(scan.config, mem)
           learns == scan.for = "discover"
                     /\ Learned(scan.config, mem).learned # mem.learned
       IN /\ cache' = found /\ rows' = found
          /\ mem' = IF learns THEN Learned(scan.config, mem) ELSE mem
          /\ file' = IF learns THEN Saved(Learned(scan.config, mem), "service") ELSE file
    /\ fresh' = TRUE
    /\ cloudRow' = IF scan.for = "request" THEN CloudRowOf(mem) ELSE cloudRow
    /\ UNCHANGED <<future, cli, probe, answers, waiting, menu, steps>>

\* The TTL of the cached scan runs out.
Expire ==
    /\ fresh /\ cache # {"none"} /\ fresh' = FALSE
    /\ UNCHANGED <<configVars, cli, probe, answers, waiting, scan, cache, rows, cloudRow,
                   menu, steps>>

\* The agent starts: load_config, and the first discovery of app.py.
Restart ==
    /\ Step
    /\ mem' = [file EXCEPT !.future = FALSE]
    /\ future' = [h \in {"cfg", "service"} |-> file.future]
    /\ probe' = Absent /\ waiting' = {"discover"} /\ scan' = Absent
    /\ cache' = {"none"} /\ fresh' = FALSE /\ rows' = {} /\ cloudRow' = Absent
    /\ UNCHANGED <<file, cli, answers, menu>>

---------------------------------------------------------------------------
(* The command line, a process of its own *)

CliLoad(e) ==
    /\ Step /\ cli = Absent
    /\ cli' = [for |-> e, config |-> file, stored |-> e.op # "set-key"]
    /\ UNCHANGED <<configVars, probe, answers, scanVars, cloudRow, menu>>

\* set-key saves the key, and asks the provider after.
CliStore ==
    /\ cli # Absent /\ ~cli.stored
    /\ file' = [cli.config EXCEPT !.key = IF cli.for.key = Named THEN NoKey ELSE cli.for.key,
                                  !.named = (cli.for.key = Named)]
    /\ cli' = [for |-> cli.for, config |-> file', stored |-> TRUE]
    /\ UNCHANGED <<mem, future, probe, answers, scanVars, cloudRow, menu, steps>>

\* The edit of the configuration c that was loaded, with the answer s of the
\* provider where one is asked; enable records a failed check and stays off.
Edited(e, c, s) ==
    LET checked(d) == Recorded(d, Resolve(d, menu.cliEnv), s) IN
    CASE e.op = "enable" -> IF Gate(checked(c), menu.cliEnv) = "allow"
                            THEN [checked(c) EXCEPT !.on = TRUE] ELSE checked(c)
      [] e.op = "disable" -> [c EXCEPT !.on = FALSE]
      [] e.op \in {"set-key", "verify"} -> checked(c)
      [] e.op = "ignore" -> [c EXCEPT !.ignored = @ \cup {e.url}]
      [] e.op = "import" -> Patched(c, e.patch, menu.cliEnv)

Asks(e) == e.op \in {"enable", "set-key", "verify"}
AskedKey(c) == Resolve(c, menu.cliEnv)

CliSave(s) ==
    /\ cli # Absent /\ cli.stored
    /\ s \in IF Asks(cli.for) THEN Outcomes(AskedKey(cli.config)) ELSE {""}
    /\ file' = Edited(cli.for, cli.config, s)
    /\ answers' = IF Asks(cli.for)
                  THEN answers \cup {<<AskedKey(cli.config), s>>} ELSE answers
    /\ cli' = Absent
    /\ UNCHANGED <<mem, future, probe, scanVars, cloudRow, menu, steps>>

ControlInit ==
    /\ mem = DefaultConfig /\ file = DefaultConfig
    /\ future = [h \in {"cfg", "service"} |-> FALSE]
    /\ cli = Absent /\ probe = Absent /\ answers = {}
    /\ waiting = {} /\ scan = Absent /\ cache = {"none"} /\ fresh = FALSE
    /\ rows = {} /\ cloudRow = Absent
    /\ menu \in Menus
    /\ steps = 0

ControlNext ==
    \/ \E p \in menu.patches : PostConfig(p)
    \/ \E k \in Keys \cup {NoKey} : BeginVerify(k)
    \/ \E s \in Statuses : FinishVerify(s)
    \/ CliStore \/ \E s \in Statuses : CliSave(s)
    \/ \E e \in menu.edits : CliLoad(e)
    \/ \E for \in {"request", "discover"} : Refresh(for)
    \/ \E for \in waiting : StartScan(for)
    \/ FollowGateway \/ FinishScan \/ Expire \/ Restart

ControlSpec == ControlInit /\ [][ControlNext]_controlVars

---------------------------------------------------------------------------
(* Properties *)

\* Where the agent or the command line turns a provider on that was off in the
\* configuration they hold, it has a key the provider was asked about and did
\* not refuse: no patch, no check of another key and no late answer opens the gate.
Checked(c, env, asked) ==
    Resolve(c, env) # NoKey
        => \E s \in Statuses \ Conclusive : <<Resolve(c, env), s>> \in asked
EnabledKeyWasChecked ==
    [][/\ ~mem.on /\ mem'.on /\ "force" \in waiting' => Checked(mem', menu.env, answers')
       /\ cli # Absent /\ cli' = Absent /\ ~cli.config.on /\ file'.on
            => Checked(file', menu.cliEnv, answers')]_controlVars

\* "A provider cannot be enabled until this passes": also where the file says
\* it is off.
EnabledInFileWasChecked ==
    [][~file.on /\ file'.on => Checked(file', menu.env, answers') \/ Checked(file', menu.cliEnv, answers')]_controlVars

\* What a page shows and what the gate decides agree on every entry whose key
\* the agent can see, at every point of an edit or a check.
ShownIsTheGate ==
    (mem.named => Resolve(mem, menu.env) # NoKey)
        => (CanEnable(Shown(mem, menu.env)) <=> (Gate(mem, menu.env) = "allow"))

\* Whenever no scan runs or waits, the rows of the pool and the cached scan
\* are those of the configuration as it is: a scan of an older one that ends
\* after an edit does not outlive the forced scan of that edit.
RowsFollowConfig ==
    scan = Absent /\ waiting = {} /\ cache # {"none"}
        => rows = cache /\ cache = RowsFound(mem, mem)

\* "discovery only learns what its own candidates turned up"
LearnsOnlyCandidates ==
    [][scan # Absent /\ scan' = Absent /\ mem'.learned # mem.learned
        => mem'.learned \subseteq mem.learned \cup Ports]_controlVars
\* A section of the file this build does not know survives every save.
FutureKept == [][file.future => file'.future]_controlVars
\* The gateway's strategy is adopted for this process only.
StrategyNotSaved == file.strategy = "own"
\* The cloud row carries the auth mode of the configuration it was made from.
AuthLands ==
    [][FinishScan /\ scan.for = "request" /\ cloudRow' # Absent
        => cloudRow'.auth = AuthMode(mem)]_controlVars
=============================================================================
