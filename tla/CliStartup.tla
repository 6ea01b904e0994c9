------------------------------ MODULE CliStartup ------------------------------
(***************************************************************************)
(* main of one invocation: flags, write policy, admission, the embedding   *)
(* client, the database the command works on, its work and its exit code.  *)
(* Settings are read from config.toml one by one, each time they are       *)
(* wanted, while other invocations rewrite the file; signals come at any   *)
(* time, and the reader of stdout may go away.                             *)
(*   Commands that differ in nothing main looks at are one name.           *)
(***************************************************************************)
EXTENDS Integers, Sequences, FiniteSets

CONSTANTS
  Argvs,          \* [command, db, useActive, flagsOk, knobsOk, backend, model, key]
  ConfigFiles,    \* [readable, db, backend, model, key]
  MaxConfigWrites \* bound: rewrites of config.toml during the invocation

ASSUME StartupConstants == MaxConfigWrites \in Nat

VARIABLES
  step, argv, conf,
  policy,         \* WRITE_POLICY: [installed, explicit, useActive]
  heeds,          \* whether the shutdown handler is registered
  client,         \* the embedding client: [model, backend]
  target,         \* RESOLVED_TARGET, set once: [db, source]
  opened,         \* the databases opened, "none" where that failed
  stored,         \* history: databases stored to
  fails,          \* the command's error, "none" so far
  signalled, stdout, exit,
  named, rewrites \* history: what config.toml has named as database; its rewrites

startVars == <<step, argv, conf, policy, heeds, client, target, opened, stored, fails, signalled, stdout, exit, named, rewrites>>

NoTarget == [db |-> "none", source |-> "none"]

----------------------------------------------------------------------------
(* cli/commands.rs *)

\* mutates: everything but the listed readers; of graph only recompute-degree.
Mutates(c) == c \notin {"recall", "list", "namespace-detect", "schema", "graph"}
\* may_inherit_target: init, the commands without a database, the reading subcommands.
MayInherit(c) == c \in {"init", "config", "cache", "vec-stats"}
Persists(c)   == Mutates(c) /\ ~MayInherit(c)
Heavy(c)      == c \in {"init", "remember", "recall"}
\* tolerates_missing_embedding_key
Tolerates(c)  == c \in {"init", "schema", "config", "cache", "enrich-status"}

\* What the handlers do: which resolve no database, which store into it, and how often
\* one resolves it (ingest --enrich-after runs enrich).
Unbound(c)  == c \in {"config", "schema", "namespace-detect", "none"}
Stores(c)   == c \in {"init", "remember", "ingest", "edit", "enrich", "vec-purge", "recompute-degree"}
Resolves(c) == IF Unbound(c) THEN 0 ELSE IF c = "ingest" THEN 2 ELSE 1

----------------------------------------------------------------------------
(* errors.rs *)

ExitCode(e) ==
  CASE e \in {"validation", "provider"} -> 1 [] e = "usage" -> 2 [] e = "not-found" -> 4 [] e = "io" -> 14
    [] e = "db-busy" -> 15 [] e \in {"slots-full", "job-locked"} -> 75 [] e = "low-memory" -> 77 [] e = "shutdown" -> 19
    [] e = "embedding" -> 11
WorkErrors == {"validation", "not-found", "io", "db-busy", "job-locked", "embedding", "shutdown"}

----------------------------------------------------------------------------
\* What config.toml names, "broken" when it cannot be read.
DbNamed == IF conf.readable THEN conf.db ELSE "broken"
StartInit ==
  /\ argv \in Argvs /\ conf \in ConfigFiles
  /\ step = "flags" /\ policy = [installed |-> FALSE, explicit |-> FALSE, useActive |-> FALSE] /\ heeds = FALSE
  /\ client = [model |-> "none", backend |-> "none"] /\ target = NoTarget
  /\ opened = << >> /\ stored = {} /\ fails = "none"
  /\ signalled = FALSE /\ stdout = "open" /\ exit = -1
  /\ named = {DbNamed} /\ rewrites = 0

\* Every way out flushes stdout first; a reader that is gone gives 141.
Leaves(code) == step' = "gone" /\ exit' = IF stdout = "open" THEN code ELSE 141
Quits(code) ==
  /\ Leaves(code)
  /\ UNCHANGED <<argv, conf, policy, heeds, client, target, opened, stored, fails, signalled, stdout, named, rewrites>>

\* get_setting: a file that cannot be read or parsed is a file without the key.
Setting(value) == IF conf.readable THEN value ELSE "unset"
\* runtime_config: the flag, else the setting, else the default.
Resolved(flag, value, default) ==
  IF flag # "unset" THEN flag ELSE IF Setting(value) # "unset" THEN Setting(value) ELSE default

\* Time zone and validate_flags; it installs the agent surface and the write policy.
ValidateFlags ==
  /\ step = "flags" /\ argv.flagsOk
  /\ step' = "admission"
  /\ policy' = [installed |-> TRUE, explicit |-> Persists(argv.command), useActive |-> argv.useActive]
  /\ UNCHANGED <<argv, conf, heeds, client, target, opened, stored, fails, signalled, stdout, exit, named, rewrites>>
RefuseFlags == step = "flags" /\ ~argv.flagsOk /\ Quits(2)

\* Memory guard and CLI slot (CliProcess has their inside), then the shutdown handler.
Admit ==
  /\ step = "admission" /\ step' = "client" /\ heeds' = TRUE
  /\ UNCHANGED <<argv, conf, policy, client, target, opened, stored, fails, signalled, stdout, exit, named, rewrites>>
NoMemory == step = "admission" /\ Heavy(argv.command) /\ Quits(ExitCode("low-memory"))
NoSlot   == step = "admission" /\ Quits(ExitCode("slots-full"))

\* The model is read first, then the backend, then the key: three reads of the file.
ReadModel ==
  /\ step = "client" /\ step' = "backend"
  /\ client' = [model |-> Resolved(argv.model, conf.model, "none"), backend |-> "none"]
  /\ UNCHANGED <<argv, conf, policy, heeds, target, opened, stored, fails, signalled, stdout, exit, named, rewrites>>
ReadBackend ==
  /\ step = "backend"
  /\ LET b == Resolved(argv.backend, conf.backend, "auto")
     IN  IF b = "openrouter" /\ client.model = "none" /\ ~Tolerates(argv.command)
         THEN Quits(78)
         ELSE /\ client' = [client EXCEPT !.backend = b] /\ step' = "key"
              /\ UNCHANGED <<argv, conf, policy, heeds, target, opened, stored, fails, signalled, stdout, exit, named, rewrites>>
\* resolve_api_key: the flag, else config.toml; under "auto" a missing one is no error.
ReadKey ==
  /\ step = "key"
  /\ LET key == Resolved(argv.key, conf.key, "none")
     IN  IF key = "none" /\ client.model # "none" /\ client.backend = "openrouter" /\ ~Tolerates(argv.command)
         THEN Quits(78)
         ELSE /\ client' = IF key # "none" /\ client.model # "none" THEN [client EXCEPT !.backend = "ready"] ELSE client
              /\ step' = "work"
              /\ UNCHANGED <<argv, conf, policy, heeds, target, opened, stored, fails, signalled, stdout, exit, named, rewrites>>

----------------------------------------------------------------------------
(* The command. *)

Source == IF argv.db # "unset" THEN "argv" ELSE IF Setting(conf.db) # "unset" THEN "xdg" ELSE "default"
\* AppPaths::resolve; ".." in a path is refused.
ResolvedDb == Resolved(argv.db, conf.db, "default")

\* enforce_explicit_target
Allows(source) == ~policy.installed \/ source = "argv" \/ ~policy.explicit \/ policy.useActive

\* record_target: a OnceLock.
Record(t) == IF target = NoTarget THEN t ELSE target

Errs(e) ==
  /\ fails' = e /\ step' = "report"
  /\ UNCHANGED <<argv, conf, policy, heeds, client, target, opened, stored, signalled, stdout, exit, named, rewrites>>

\* enrich_after: what fails in the second part of ingest is an event, not an error.
Swallows(k) == argv.command = "ingest" /\ k = 2
FailsPart(k, e) ==
  /\ fails' = (IF Swallows(k) THEN "none" ELSE e) /\ step' = (IF Swallows(k) THEN "work" ELSE "report")

\* A path is resolved, then directories are made and the database opened (SchemaDb).
Resolve ==
  /\ step = "work" /\ Len(opened) < Resolves(argv.command)
  /\ IF ResolvedDb = ".." \/ ~Allows(Source)
     THEN /\ FailsPart(Len(opened) + 1, IF ResolvedDb = ".." THEN "validation" ELSE "usage")
          /\ opened' = Append(opened, "none") /\ UNCHANGED target
     ELSE /\ target' = Record([db |-> ResolvedDb, source |-> Source])
          /\ opened' = Append(opened, ResolvedDb) /\ step' = "do" /\ UNCHANGED fails
  /\ UNCHANGED <<argv, conf, policy, heeds, client, stored, signalled, stdout, exit, named, rewrites>>

\* The work on the database resolved last; what fails may have stored before.
Work(e) ==
  /\ step = "do"
  /\ stored' \in {stored} \cup (IF Stores(argv.command) THEN {stored \cup {opened[Len(opened)]}} ELSE {})
  /\ e = "none" /\ Stores(argv.command) => opened[Len(opened)] \in stored'
  /\ e = "shutdown" => signalled
  /\ e = "job-locked" =>      \* taken before anything is stored
       (argv.command = "enrich" \/ Swallows(Len(opened))) /\ stored' = stored
  /\ IF e = "none" THEN fails' = "none" /\ step' = "work" ELSE FailsPart(Len(opened), e)
  /\ UNCHANGED <<argv, conf, policy, heeds, client, target, opened, signalled, stdout, exit, named, rewrites>>

\* gate.rs: flags the answer cannot honour are refused, unless the command has changed something.
Refuses == ~argv.knobsOk /\ ~Mutates(argv.command)
\* The answer is written; with SIGPIPE at its default a reader that is gone ends the process.
Emit ==
  /\ step = "work" /\ Len(opened) = Resolves(argv.command)
  /\ IF Refuses THEN Errs("usage")
     ELSE /\ IF stdout = "open" THEN step' = "report" /\ exit' = exit ELSE step' = "gone" /\ exit' = 141
          /\ UNCHANGED <<argv, conf, policy, heeds, client, target, opened, stored, fails, signalled, stdout, named, rewrites>>

\* Mutant: a signal the command did not notice is forgotten.
FinishHeedless == step = "report" /\ Quits(IF fails # "none" THEN ExitCode(fails) ELSE 0)
\* The end of main: the error's code, 141, the shutdown code or 0, in this order.
Finish ==
  /\ step = "report"
  /\ Quits(IF fails # "none" THEN ExitCode(fails) ELSE IF signalled THEN 19 ELSE 0)

----------------------------------------------------------------------------
(* Everything else. *)

\* Before the handler is there a signal has its default effect.
Signal ==
  /\ step # "gone" /\ ~signalled /\ signalled' = TRUE
  /\ IF heeds THEN step' = step /\ exit' = exit ELSE step' = "gone" /\ exit' = 130
  /\ UNCHANGED <<argv, conf, policy, heeds, client, target, opened, stored, fails, stdout, named, rewrites>>
ReaderGoes ==
  /\ step # "gone" /\ stdout = "open" /\ stdout' = "broken"
  /\ UNCHANGED <<step, argv, conf, policy, heeds, client, target, opened, stored, fails, signalled, exit, named, rewrites>>
\* `config set` and `config unset` of another invocation replace the file.
RewriteConfig ==
  /\ step # "gone" /\ rewrites < MaxConfigWrites /\ rewrites' = rewrites + 1
  /\ conf' \in ConfigFiles \ {conf} /\ named' = named \cup {DbNamed'}
  /\ UNCHANGED <<step, argv, policy, heeds, client, target, opened, stored, fails, signalled, stdout, exit>>

Main ==
  \/ ValidateFlags \/ RefuseFlags \/ Admit \/ NoMemory \/ NoSlot \/ ReadModel \/ ReadBackend \/ ReadKey
  \/ Resolve \/ (\E e \in WorkErrors \cup {"none"} : Work(e)) \/ Emit \/ Finish
StartNext == Main \/ Signal \/ ReaderGoes \/ RewriteConfig
StartSpec == StartInit /\ [][StartNext]_startVars

----------------------------------------------------------------------------
(* Properties. *)

\* The states main can be in; the policy is there before anything is admitted.
StartTypeOK ==
  /\ step \in {"flags", "admission", "client", "backend", "key", "work", "do", "report", "gone"}
  /\ (step = "gone") = (exit # -1)
  /\ step \notin {"flags", "gone"} => policy.installed
  /\ Len(opened) <= Resolves(argv.command) /\ \A d \in stored : \E i \in DOMAIN opened : opened[i] = d

\* enforce_explicit_target: whatever config.toml says meanwhile, a command stores only
\* into the database its argv names, unless --use-active was given or it is init.
StoresWhereNamed ==
  \A d \in stored : d = argv.db \/ argv.useActive \/ argv.command = "init"

\* AppPaths::resolve: a command that inherits its database stores into one that
\* config.toml named during the invocation, or into the default if it named none.
InheritsTheActive ==
  argv.db = "unset" /\ "broken" \notin named =>
    stored \subseteq (named \ {"unset"}) \cup (IF "unset" \in named THEN {"default"} ELSE {})

\* main.rs and gate.rs: an invocation that is refused (flags, target, memory, slot, key,
\* output flags) or that finds a job running has stored nothing, so it
\* may be repeated.
RefusedStoresNothing == exit \in {2, 75, 77, 78} => stored = {}

\* main.rs: 0 means that the work was done, its answer taken, and no signal seen on the
\* way; 19 that there was one.
ExitTells ==
  /\ exit = 0 => /\ fails = "none" /\ ~signalled /\ stdout = "open"
                 /\ Len(opened) = Resolves(argv.command) /\ (Stores(argv.command) => stored # {})
  /\ exit = 19 => signalled

\* main.rs: a command told to use a provider it has no key for is refused before it opens
\* a database, so nothing is stored without its vector for want of a key.
NoKeyNoWork ==
  argv.backend = "openrouter" /\ argv.key = "unset" /\ conf.key = "unset" /\ rewrites = 0 /\ ~Tolerates(argv.command)
    => opened = << >>
\* Whatever config.toml becomes and whenever a signal comes: a command stores where it was
\* told to, a refused one stores nothing, and the exit code tells which it was.
StartSound ==
  StartTypeOK /\ StoresWhereNamed /\ InheritsTheActive /\ RefusedStoresNothing /\ ExitTells /\ NoKeyNoWork
==============================================================================
