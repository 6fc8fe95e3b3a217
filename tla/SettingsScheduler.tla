-------------------------- MODULE SettingsScheduler --------------------------
(***************************************************************************)
(* The editable configuration files, the cache in front of them and the    *)
(* scheduler that registers jobs from automation.yaml: PUT /api/settings   *)
(* (api/routes/settings.py), YamlConfigLoader (core/config.py) and         *)
(* SchedulerService (scheduler/service.py).  PUT awaits nothing, so no     *)
(* other handler runs inside it; a write may fail or the process may die   *)
(* in it after any section.                                                *)
(***************************************************************************)
EXTENDS Naturals, Sequences

CONSTANTS
  Sections,     \* _EDITABLE_SECTIONS
  Rank,         \* the order in which PUT writes them: that of SettingsUpdate
  Automations,  \* what automation.yaml may say of the scheduler
  Texts,        \* what the other files may say, in words of their own
  Literals,     \* the words of any file ...
  Placeholder,  \* ... and ${VAR}
  Environments, \* the literals VAR may stand for
  Truthy,       \* the literals that switch the scheduler on,
  Zones,        \* that name a time zone,
  Hours,        \* an hour,
  Crontabs,     \* a cron expression
  Empty,        \* a truncated file: safe_load gives nothing, load takes {}
  Broken,       \* a file safe_load rejects
  Unread,       \* not in the cache
  Null          \* "schedules: null"

ASSUME SectionsAssumption ==
  /\ "automation" \in Sections
  /\ Rank \in [Sections -> Nat]
  /\ \A s \in Sections \ {"automation"} : Rank["automation"] < Rank[s]

(* Mutant of Resolve: interpolation leaves placeholders alone.             *)
Verbatim(c, env) == c

(* A scalar with its placeholder filled in.                                *)
In(v, env) == IF v = Placeholder THEN env ELSE v

(* _interpolate_env of what safe_load returned, automation.yaml's too.     *)
Resolve(c, env) ==
  IF c \in Automations
  THEN [c EXCEPT !.enabled = In(@, env), !.zone = In(@, env), !.hour = In(@, env),
                 !.schedules = IF @ = Null THEN Null
                               ELSE [i \in DOMAIN @ |-> In(@[i], env)]]
  ELSE In(c, env)

ASSUME ContentsAssumption ==
  /\ Environments \subseteq Literals /\ Texts \subseteq Literals
  /\ \A c \in Automations :
       LET V == Literals \cup {Placeholder}
       IN  /\ c \in [enabled : V, zone : V, hour : V, schedules : {c.schedules}]
           /\ c.schedules = Null \/ c.schedules \in Seq(V \cup {"interval"})
  /\ \A c \in Automations, env \in Environments : Resolve(c, env) \notin {Empty, Broken, Unread}
  /\ {Empty, Broken, Unread, Placeholder} \cap (Automations \cup Literals) = {}
  /\ Empty \notin {Broken, Unread, Placeholder}
  /\ Broken \notin {Unread, Placeholder} /\ Unread # Placeholder

VARIABLES
  file,         \* [Sections -> what is on disk]
  environment,  \* the value of the variable Placeholder names, fixed at start
  up,           \* the process serves
  cache,        \* [Sections -> what load returned, or Unread]
  jobs,         \* ids of the registered jobs
  running,      \* ids of the jobs whose coroutine runs
  reload,       \* history, read by no step: what became of the last save or
                \* start-up that took automation.yaml: "none" yet, "done",
                \* "raised", "abandoned" by a failed write of a later section,
                \* "interrupted" by a crash
  edited        \* history, too: the sections edited by hand that the process
                \* has neither read nor written since

vars == <<file, environment, up, cache, jobs, running, reload, edited>>

Contents(s) == IF s = "automation" THEN Automations ELSE Texts \cup {Placeholder}

Summary      == <<"daily-summary">>
Discovery(i) == <<"discovery-run", i>>

(* Every section an update names, with its new content.                    *)
Updates == {u \in UNION {[S -> Automations \cup Texts \cup {Placeholder}] :
                           S \in (SUBSET Sections) \ {{}}} :
              \A s \in DOMAIN u : u[s] \in Contents(s)}

-----------------------------------------------------------------------------
(* Reading *)

(* load: what is cached, else the file; a rejected file raises.            *)
Loadable(s) == cache[s] # Unread \/ file[s] # Broken

Load(s) ==
  /\ up /\ cache[s] = Unread /\ file[s] # Broken
  /\ cache' = [cache EXCEPT ![s] = Resolve(file[s], environment)]
  /\ edited' = edited \ {s}
  /\ UNCHANGED <<file, environment, up, jobs, running, reload>>

(* The response of GET and PUT loads the sections in their order and stops *)
(* at one that raises.                                                     *)
LoadAll(f, c) ==
  [s \in Sections |->
     IF c[s] = Unread /\ \A t \in Sections :
                            Rank[t] <= Rank[s] => c[t] # Unread \/ f[t] # Broken
     THEN Resolve(f[s], environment) ELSE c[s]]

(* The sections a step that leaves c in the cache has loaded.              *)
JustRead(c) == {s \in Sections : cache[s] = Unread /\ c[s] # Unread}

GetSettings ==
  /\ up
  /\ cache' = LoadAll(file, cache)
  /\ edited' = edited \ JustRead(cache')
  /\ UNCHANGED <<file, environment, up, jobs, running, reload>>

-----------------------------------------------------------------------------
(* SchedulerService *)

Enabled(c) == c # Empty /\ c.enabled \in Truthy

(* A schedule that cannot be built is logged and skipped; only cron        *)
(* triggers take the time zone.                                            *)
Builds(c, schedule) ==
  schedule = "interval" \/ (schedule \in Crontabs /\ c.zone \in Zones)

DiscoveryJobs(c) ==
  IF c.schedules = Null THEN {}
  ELSE {Discovery(i) : i \in {k \in DOMAIN c.schedules : Builds(c, c.schedules[k])}}

(* "schedules: null", an unknown zone and an hour that is none raise.      *)
Raises(c) ==
  Enabled(c) /\ (c.schedules = Null \/ c.zone \notin Zones \/ c.hour \notin Hours)

(* The jobs a configuration asks for.                                      *)
JobsOf(c) == IF Enabled(c) THEN DiscoveryJobs(c) \cup {Summary} ELSE {}

(* What load may return of automation.yaml.                                *)
Settings == {Resolve(c, env) : c \in Automations, env \in Environments} \cup {Empty}

JobIds == UNION {JobsOf(c) : c \in Settings}

(* Mutant of Reload: jobs are replaced by id and never removed.            *)
ReloadKeepingJobs(c) ==
  jobs \cup IF Raises(c) THEN DiscoveryJobs(c) ELSE JobsOf(c)

(* Mutant of Reload: the check of "enabled" comes before the removal.      *)
ReloadIfEnabled(c) ==
  IF Raises(c) THEN DiscoveryJobs(c) ELSE IF Enabled(c) THEN JobsOf(c) ELSE jobs

(* reload: the old jobs are removed first, the summary is added last.      *)
Reload(c) == IF Raises(c) THEN DiscoveryJobs(c) ELSE JobsOf(c)

(* start in lifespan: a reload that raises ends the start-up, so Boot has  *)
(* no step.  Nothing is cached and no job runs in a new process.           *)
Bootable(c, env) == c # Broken /\ ~Raises(Resolve(c, env))

Boot(env) ==
  LET automation == Resolve(file["automation"], env) IN
  /\ ~up /\ Bootable(file["automation"], env)
  /\ up' = TRUE
  /\ environment' = env
  /\ cache' = [s \in Sections |-> IF s = "automation" THEN automation ELSE Unread]
  /\ jobs' = Reload(automation)
  /\ reload' = "done"
  /\ edited' = edited \ {"automation"}
  /\ UNCHANGED <<file, running>>

(* The scheduler runs a coroutine on the loop, one of each id at a time    *)
(* (APScheduler, max_instances = 1); reload cancels none.                  *)
Fire(j) ==
  /\ up /\ j \in jobs \ running
  /\ running' = running \cup {j}
  /\ UNCHANGED <<file, environment, up, cache, jobs, reload, edited>>

(* It returns, or its error is logged by _on_job_error.                    *)
Finish(j) ==
  /\ j \in running
  /\ running' = running \ {j}
  /\ UNCHANGED <<file, environment, up, cache, jobs, reload, edited>>

-----------------------------------------------------------------------------
(* PUT /api/settings *)

(* The sections written before s.                                          *)
Before(u, s) == {t \in DOMAIN u : Rank[t] < Rank[s]}

Written(u, W) == [t \in Sections |-> IF t \in W THEN u[t] ELSE file[t]]

(* Mutant of Cached: a section is written without loader.reload.           *)
CachedBefore(u, W) == cache

Cached(u, W) == [t \in Sections |-> IF t \in W THEN Resolve(u[t], environment) ELSE cache[t]]

(* Mutant of PutAll: the scheduler reloads before the sections are written. *)
PutReloadsFirst(u) ==
  /\ up
  /\ file' = Written(u, DOMAIN u)
  /\ IF "automation" \in DOMAIN u
     THEN /\ jobs' = Reload(cache["automation"])
          /\ reload' = "done"
     ELSE UNCHANGED <<jobs, reload>>
  /\ cache' = LoadAll(file', Cached(u, DOMAIN u))
  /\ edited' = edited \ (DOMAIN u \cup JustRead(cache'))
  /\ UNCHANGED <<environment, up, running>>

(* Every section is written and read back, then the scheduler reloads; a   *)
(* reload that raises leaves the response unbuilt.                         *)
PutAll(u) ==
  LET all  == Cached(u, DOMAIN u)
      told == "automation" \in DOMAIN u
  IN
  /\ up
  /\ file' = Written(u, DOMAIN u)
  /\ IF told
     THEN /\ jobs' = Reload(all["automation"])
          /\ reload' = IF Raises(all["automation"]) THEN "raised" ELSE "done"
     ELSE UNCHANGED <<jobs, reload>>
  /\ cache' = IF told /\ Raises(all["automation"]) THEN all ELSE LoadAll(file', all)
  /\ edited' = edited \ (DOMAIN u \cup JustRead(cache'))
  /\ UNCHANGED <<environment, up, running>>

(* Section s cannot be opened, or is truncated and cannot be written: the  *)
(* sections before it are in force, the scheduler is not told.             *)
PutFails(u, s, truncated) ==
  /\ up
  /\ file' = [Written(u, Before(u, s)) EXCEPT ![s] = IF truncated THEN Empty ELSE @]
  /\ cache' = Cached(u, Before(u, s))
  /\ reload' = IF "automation" \in Before(u, s) THEN "abandoned" ELSE reload
  /\ edited' = edited \ Before(u, s)
  /\ UNCHANGED <<environment, up, jobs, running>>

Stopped == /\ up' = FALSE /\ running' = {} /\ jobs' = {}
           /\ cache' = [s \in Sections |-> Unread]
           /\ UNCHANGED environment

(* The process dies in a PUT, section s truncated ...                      *)
CrashInSection(u, s) ==
  /\ up /\ Stopped
  /\ file' = [Written(u, Before(u, s)) EXCEPT ![s] = Empty]
  /\ reload' = IF "automation" \in Before(u, s) THEN "interrupted" ELSE reload
  /\ edited' = edited \ Before(u, s)

(* ... or with every section written and the scheduler not yet reloaded.   *)
CrashBeforeReload(u) ==
  /\ up /\ Stopped
  /\ file' = Written(u, DOMAIN u)
  /\ reload' = IF "automation" \in DOMAIN u THEN "interrupted" ELSE reload
  /\ edited' = edited \ DOMAIN u

(* The process ends: shutdown does not wait for the jobs.                  *)
Stop == up /\ Stopped /\ UNCHANGED <<file, reload, edited>>

(* A file is edited by hand, while the service runs (core/config.py:8-11)  *)
(* or is down: no step of it notices.                                      *)
HandEdit(s, c) ==
  /\ file' = [file EXCEPT ![s] = c]
  /\ edited' = edited \cup {s}
  /\ UNCHANGED <<environment, up, cache, jobs, running, reload>>

Init ==
  /\ file \in [Sections -> Automations \cup Texts \cup {Placeholder}]
  /\ \A s \in Sections : file[s] \in Contents(s)
  /\ environment \in Environments
  /\ up = FALSE
  /\ cache = [s \in Sections |-> Unread]
  /\ jobs = {} /\ running = {}
  /\ reload = "none" /\ edited = Sections

Next ==
  \/ \E s \in Sections : Load(s)
  \/ GetSettings
  \/ \E env \in Environments : Boot(env)
  \/ \E j \in jobs : Fire(j)
  \/ \E j \in running : Finish(j)
  \/ \E u \in Updates :
       \/ PutAll(u)
       \/ CrashBeforeReload(u)
       \/ \E s \in DOMAIN u : \/ \E truncated \in BOOLEAN : PutFails(u, s, truncated)
                              \/ CrashInSection(u, s)
  \/ Stop
  \/ \E s \in Sections : \E c \in Contents(s) \cup {Broken} : HandEdit(s, c)

Spec == Init /\ [][Next]_vars

-----------------------------------------------------------------------------
(* Properties *)

TypeOK ==
  /\ file \in [Sections -> Automations \cup Texts \cup {Placeholder, Empty, Broken}]
  /\ \A s \in Sections : file[s] \in Contents(s) \cup {Empty, Broken}
  /\ environment \in Environments
  /\ up \in BOOLEAN
  /\ cache \in [Sections -> Settings \cup Literals \cup {Unread}]
  /\ up => cache["automation"] \in Settings
  /\ jobs \subseteq JobIds /\ running \subseteq JobIds
  /\ reload \in {"none", "done", "raised", "abandoned", "interrupted"}
  /\ edited \subseteq Sections

(* What the service goes by is what a restart in the same environment will *)
(* go by: a cached section is the file with its placeholders filled in,    *)
(* unless a failed write has emptied the file or it was edited by hand     *)
(* since it was read.  Readers fill the cache at any time, and saves may   *)
(* stop half way (config.py:109-127, routes/settings.py:61-65).            *)
InForceIsOnDisk ==
  \A s \in Sections \ edited :
    cache[s] # Unread => cache[s] = Resolve(file[s], environment) \/ file[s] = Empty

(* Once a reload went through, the registered jobs are those of the        *)
(* settings the service answers GET with, and still are after any number   *)
(* of saves that failed before they reached automation.yaml and of edits   *)
(* by hand (scheduler/service.py:10-15, "replaces every registered job").  *)
ScheduleInForce ==
  up /\ reload = "done" => jobs = JobsOf(cache["automation"])

(* A job that starts is one the settings in force ask for, also after a    *)
(* reload that raised half way: a disabled scheduler fires nothing.  Only  *)
(* a save of several sections that failed after automation.yaml leaves the *)
(* jobs of the settings before it (scheduler/service.py:86-112).           *)
FiredAsServed ==
  [][\A j \in running' \ running : reload = "abandoned" \/ j \in JobsOf(cache["automation"])]_vars

(* Settings PUT accepted do not keep the service from starting again in    *)
(* the environment that accepted them: what raises at start-up has already *)
(* raised in the save, and no later save, failed write or crash changes    *)
(* that, short of an edit by hand (main.py:44-45, routes/settings.py:67-70). *)
(* In another environment a time zone "${VAR}" may raise (config.py:93).   *)
AcceptedSettingsBoot ==
  reload = "done" /\ "automation" \notin edited => Bootable(file["automation"], environment)
=============================================================================
