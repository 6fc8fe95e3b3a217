----------------------- MODULE SettingsSchedulerProofs -----------------------
(* Proofs about saves, the cache and the scheduler, for any sections, any   *)
(* contents and any interruption of a save.                                 *)
EXTENDS SettingsScheduler, TLAPS

(* The jobs never exceed what the settings in force ask for, unless a save  *)
(* was abandoned between the two; a stopped process remembers nothing.      *)
JobsServed == up /\ reload # "abandoned" => jobs \subseteq JobsOf(cache["automation"])
NothingLeft == ~up => jobs = {} /\ running = {} /\ \A s \in Sections : cache[s] = Unread

Files  == [Sections -> Automations \cup Texts \cup {Placeholder, Empty, Broken}]
Caches == [Sections -> Settings \cup Literals \cup {Unread}]

(* Sections E aside, cache c holds what files f say in env.                 *)
Agree(c, f, env, E) ==
  \A s \in Sections \ E : c[s] # Unread => c[s] = Resolve(f[s], env) \/ f[s] = Empty

IInv == /\ TypeOK /\ InForceIsOnDisk /\ ScheduleInForce /\ AcceptedSettingsBoot
        /\ JobsServed /\ NothingLeft

-----------------------------------------------------------------------------
(* Operators *)

LEMMA UpdateFacts ==
  ASSUME NEW u \in Updates
  PROVE  DOMAIN u \subseteq Sections /\ \A s \in DOMAIN u : u[s] \in Contents(s)
BY DEF Updates

(* A save that has reached a section after automation.yaml has written it.  *)
LEMMA AutomationFirst ==
  ASSUME NEW u \in Updates, NEW s \in DOMAIN u, "automation" \in DOMAIN u, s # "automation"
  PROVE  "automation" \in Before(u, s)
BY UpdateFacts, SectionsAssumption DEF Before

(* What a reload registers is what was asked for, or part of it.            *)
LEMMA ReloadFacts ==
  ASSUME NEW c
  PROVE  /\ Reload(c) \subseteq JobsOf(c) \cup DiscoveryJobs(c)
         /\ Raises(c) => Reload(c) \subseteq JobsOf(c)
         /\ ~Raises(c) => Reload(c) = JobsOf(c)
BY DEF Reload, JobsOf, Raises

LEMMA JobsOfEmpty == JobsOf(Empty) = {} /\ ~Raises(Empty)
BY DEF JobsOf, Raises, Enabled

(* The marks of a file or a cache are no content.                           *)
LEMMA Marks ==
  /\ Empty \notin Automations /\ Empty \notin Literals /\ Empty # Placeholder
  /\ Empty # Unread /\ Empty # Broken /\ Broken # Unread /\ Placeholder # Unread
  /\ \A c \in Automations : c # Broken /\ c # Unread
  /\ \A c \in Literals : c # Broken /\ c # Unread
  /\ Texts \subseteq Literals /\ Environments \subseteq Literals
  /\ \A c \in Automations, env \in Environments : Resolve(c, env) \notin {Broken, Unread}
BY Zenon, ContentsAssumption

(* Filling in placeholders: what the settings in force may be.              *)
LEMMA ResolveFacts ==
  ASSUME NEW s \in Sections, NEW c \in Contents(s) \cup {Empty}, NEW env \in Environments
  PROVE  /\ Resolve(c, env) \in Settings \cup Literals
         /\ s = "automation" => Resolve(c, env) \in Settings
         /\ Resolve(c, env) # Unread
<1>1. Resolve(Empty, env) = Empty /\ Empty \in Settings /\ Empty # Unread
  <2>1. Resolve(Empty, env) = Empty
    BY Zenon, Marks DEF Resolve, In
  <2>2. QED
    BY <2>1, Marks DEF Settings
<1>2. CASE c \in Automations
  BY <1>2, Marks DEF Settings
<1>3. CASE c \in Texts \cup {Placeholder} /\ c \notin Automations /\ s # "automation"
  BY <1>3, Marks DEF Resolve, In
<1>4. QED
  BY <1>1, <1>2, <1>3 DEF Contents

LEMMA SettingsFacts ==
  /\ Settings \cap {Broken, Unread} = {}
  /\ Bootable(Empty, environment)
<1>1. Resolve(Empty, environment) = Empty
  BY Marks DEF Resolve, In
<1>2. Bootable(Empty, environment)
  BY <1>1, Marks, JobsOfEmpty DEF Bootable
<1>3. QED
  BY <1>2, Marks DEF Settings

-----------------------------------------------------------------------------
(* The state a partial or complete save leaves in files and cache *)

(* Files and cache of the sections W of an update, written and read back.   *)
LEMMA WrittenAndCached ==
  ASSUME IInv, NEW u \in Updates, NEW W \in SUBSET DOMAIN u
  PROVE  /\ Written(u, W) \in Files
         /\ \A s \in Sections : Written(u, W)[s] \in Contents(s) \cup {Empty, Broken}
         /\ Cached(u, W) \in Caches
         /\ Agree(Cached(u, W), Written(u, W), environment, edited \ W)
         /\ up => Cached(u, W)["automation"] \in Settings
         /\ "automation" \in W =>
              /\ Written(u, W)["automation"] \in Automations
              /\ Cached(u, W)["automation"] = Resolve(Written(u, W)["automation"], environment)
         /\ "automation" \notin W => /\ Cached(u, W)["automation"] = cache["automation"]
                                     /\ Written(u, W)["automation"] = file["automation"]
<1>1. \A s \in W : s \in Sections /\ u[s] \in Contents(s)
  BY UpdateFacts
<1>2. environment \in Environments
  BY DEF IInv, TypeOK
<1>3. \A s \in W : /\ Resolve(u[s], environment) \in Settings \cup Literals
                   /\ s = "automation" => /\ Resolve(u[s], environment) \in Settings
                                          /\ u[s] \in Automations
  BY <1>1, <1>2, ResolveFacts DEF Contents
<1>4. \A s \in Sections : Contents(s) \subseteq Automations \cup Texts \cup {Placeholder}
  BY DEF Contents
<1>5. Written(u, W) \in Files /\ Cached(u, W) \in Caches
  BY <1>1, <1>3, <1>4 DEF IInv, TypeOK, Written, Cached, Files, Caches
<1>6. Agree(Cached(u, W), Written(u, W), environment, edited \ W)
  BY DEF IInv, InForceIsOnDisk, Agree, Written, Cached
<1>7. \A s \in Sections : Written(u, W)[s] \in Contents(s) \cup {Empty, Broken}
  BY <1>1 DEF IInv, TypeOK, Written
<1>8. QED
  BY <1>3, <1>5, <1>6, <1>7, SectionsAssumption DEF IInv, TypeOK, Written, Cached

(* Loading the sections nobody has read yet disturbs no other.              *)
LEMMA LoadAllFacts ==
  ASSUME NEW f \in Files, NEW c \in Caches, NEW E,
         \A s \in Sections : f[s] \in Contents(s) \cup {Empty, Broken},
         Agree(c, f, environment, E),
         environment \in Environments,
         c["automation"] \in Settings
  PROVE  /\ LoadAll(f, c) \in Caches
         /\ \A s \in Sections : c[s] # Unread => LoadAll(f, c)[s] = c[s]
         /\ \A s \in Sections : c[s] = Unread /\ LoadAll(f, c)[s] # Unread =>
              LoadAll(f, c)[s] = Resolve(f[s], environment)
         /\ Agree(LoadAll(f, c), f, environment, E)
         /\ LoadAll(f, c)["automation"] = c["automation"]
<1>1. c["automation"] # Unread
  BY SettingsFacts
<1>2. \A s \in Sections : f[s] # Broken =>
        Resolve(f[s], environment) \in Settings \cup Literals
  BY ResolveFacts
<1>3. ASSUME NEW s \in Sections, c[s] = Unread,
             \A t \in Sections : Rank[t] <= Rank[s] => c[t] # Unread \/ f[t] # Broken
      PROVE  f[s] # Broken
  BY <1>3, SectionsAssumption
<1>4. LoadAll(f, c) \in Caches
  BY <1>2, <1>3 DEF LoadAll, Caches
<1>5. /\ \A s \in Sections : c[s] # Unread => LoadAll(f, c)[s] = c[s]
      /\ \A s \in Sections : c[s] = Unread /\ LoadAll(f, c)[s] # Unread =>
              LoadAll(f, c)[s] = Resolve(f[s], environment)
  BY DEF LoadAll
<1>6. QED
  BY <1>1, <1>4, <1>5, SectionsAssumption DEF Agree

-----------------------------------------------------------------------------
(* Steps *)

LEMMA InitHolds == Init => IInv
<1> SUFFICES ASSUME Init PROVE IInv
  OBVIOUS
<1> QED
  BY SectionsAssumption DEF Init, IInv, TypeOK, InForceIsOnDisk, ScheduleInForce,
     AcceptedSettingsBoot, JobsServed, NothingLeft

LEMMA LoadHolds == ASSUME IInv, NEW s \in Sections, Load(s) PROVE IInv'
<1>1. s # "automation"
  BY SettingsFacts DEF Load, IInv, TypeOK
<1>2. Resolve(file[s], environment) \in Settings \cup Literals
  BY ResolveFacts DEF Load, IInv, TypeOK
<1>3. TypeOK' /\ InForceIsOnDisk'
  BY <1>1, <1>2 DEF Load, IInv, TypeOK, InForceIsOnDisk
<1>4. QED
  BY <1>1, <1>3, SectionsAssumption DEF Load, IInv, TypeOK, ScheduleInForce,
     AcceptedSettingsBoot, JobsServed, NothingLeft

LEMMA GetHolds == ASSUME IInv, GetSettings PROVE IInv'
<1> DEFINE c1 == LoadAll(file, cache)
<1>1. /\ c1 \in Caches
      /\ \A s \in Sections : cache[s] # Unread => c1[s] = cache[s]
      /\ \A s \in Sections : cache[s] = Unread /\ c1[s] # Unread =>
           c1[s] = Resolve(file[s], environment)
      /\ c1["automation"] = cache["automation"]
  BY LoadAllFacts DEF GetSettings, IInv, TypeOK, InForceIsOnDisk, Agree, Files, Caches
<1>2. cache' = c1 /\ edited' = edited \ JustRead(c1)
  BY DEF GetSettings
<1>3. "automation" \notin JustRead(c1)
  BY SettingsFacts DEF JustRead, GetSettings, IInv, TypeOK
<1> HIDE DEF c1
<1>4. InForceIsOnDisk'
  BY <1>1, <1>2 DEF GetSettings, JustRead, IInv, InForceIsOnDisk
<1>5. TypeOK'
  BY <1>1, <1>2 DEF GetSettings, IInv, TypeOK, Caches
<1>6. QED
  BY <1>1, <1>2, <1>3, <1>4, <1>5 DEF GetSettings, IInv, ScheduleInForce,
     AcceptedSettingsBoot, JobsServed, NothingLeft

LEMMA BootHolds == ASSUME IInv, NEW env \in Environments, Boot(env) PROVE IInv'
<1> DEFINE c == Resolve(file["automation"], env)
<1>1. file["automation"] \in Contents("automation") \cup {Empty}
  BY SectionsAssumption DEF Boot, Bootable, IInv, TypeOK
<1>2. c \in Settings
  BY <1>1, ResolveFacts, SectionsAssumption
<1>3. Reload(c) = JobsOf(c) /\ JobsOf(c) \subseteq JobIds
  BY <1>2, ReloadFacts DEF Boot, Bootable, JobIds
<1>4. /\ cache'["automation"] = c
      /\ \A s \in Sections \ {"automation"} : cache'[s] = Unread
      /\ jobs' = Reload(c)
  BY SectionsAssumption DEF Boot
<1>5. TypeOK'
  BY <1>2, <1>3, <1>4, SectionsAssumption DEF Boot, IInv, TypeOK
<1>6. InForceIsOnDisk'
  BY <1>4 DEF Boot, InForceIsOnDisk
<1>7. ScheduleInForce' /\ JobsServed' /\ NothingLeft'
  BY <1>3, <1>4 DEF Boot, ScheduleInForce, JobsServed, NothingLeft
<1>8. AcceptedSettingsBoot'
  BY DEF Boot, AcceptedSettingsBoot
<1>9. QED
  BY <1>5, <1>6, <1>7, <1>8 DEF IInv

LEMMA JobStepsHold ==
  ASSUME IInv, NEW j, Fire(j) \/ Finish(j) PROVE IInv'
BY DEF Fire, Finish, IInv, TypeOK, InForceIsOnDisk, ScheduleInForce,
   AcceptedSettingsBoot, JobsServed, NothingLeft

LEMMA PutAllHolds == ASSUME IInv, NEW u \in Updates, PutAll(u) PROVE IInv'
<1> DEFINE A  == "automation"
           W  == DOMAIN u
           c1 == Cached(u, W)
           f1 == Written(u, W)
<1>1. /\ f1 \in Files
      /\ \A s \in Sections : f1[s] \in Contents(s) \cup {Empty, Broken}
      /\ c1 \in Caches
      /\ Agree(c1, f1, environment, edited \ W)
      /\ c1[A] \in Settings
      /\ A \in W => f1[A] \in Automations /\ c1[A] = Resolve(f1[A], environment)
      /\ A \notin W => c1[A] = cache[A] /\ f1[A] = file[A]
  BY WrittenAndCached DEF PutAll
<1>2. /\ \A s \in Sections : c1[s] = Unread => cache[s] = Unread
      /\ W \subseteq Sections
  <2>1. W \subseteq Sections /\ \A s \in W : u[s] \in Contents(s)
    BY UpdateFacts
  <2>2. \A s \in W : Resolve(u[s], environment) # Unread
    BY <2>1, ResolveFacts DEF IInv, TypeOK
  <2>3. QED
    BY <2>1, <2>2 DEF Cached
<1>3. /\ file' = f1 /\ (cache' = c1 \/ cache' = LoadAll(f1, c1))
      /\ up /\ up' /\ environment' = environment
      /\ edited' = edited \ (W \cup JustRead(cache'))
  BY DEF PutAll, IInv, TypeOK
<1>4. /\ A \in W => /\ jobs' = Reload(c1[A])
                    /\ reload' = IF Raises(c1[A]) THEN "raised" ELSE "done"
      /\ A \notin W => UNCHANGED <<jobs, reload>>
  BY DEF PutAll
<1> HIDE DEF c1, f1
<1>5. /\ LoadAll(f1, c1) \in Caches
      /\ \A s \in Sections : c1[s] # Unread => LoadAll(f1, c1)[s] = c1[s]
      /\ \A s \in Sections : c1[s] = Unread /\ LoadAll(f1, c1)[s] # Unread =>
           LoadAll(f1, c1)[s] = Resolve(f1[s], environment)
      /\ LoadAll(f1, c1)[A] = c1[A]
  BY <1>1, LoadAllFacts DEF IInv, TypeOK
<1>6. /\ cache' \in Caches
      /\ \A s \in Sections : c1[s] # Unread => cache'[s] = c1[s]
      /\ \A s \in Sections : c1[s] = Unread /\ cache'[s] # Unread =>
           cache'[s] = Resolve(f1[s], environment)
      /\ cache'[A] = c1[A]
  BY <1>1, <1>3, <1>5
<1>7. InForceIsOnDisk'
  <2> SUFFICES ASSUME NEW s \in Sections \ edited', cache'[s] # Unread
               PROVE  cache'[s] = Resolve(f1[s], environment) \/ f1[s] = Empty
    BY <1>3 DEF InForceIsOnDisk
  <2>1. CASE c1[s] = Unread
    BY <1>6, <2>1
  <2>2. CASE c1[s] # Unread
    <3>1. cache'[s] = c1[s]
      BY <1>6, <2>2
    <3>2. CASE s \in edited \ W
      <4>1. s \in JustRead(cache')
        BY <1>3, <3>2
      <4>2. cache[s] = Unread /\ s \notin W
        BY <3>2, <4>1 DEF JustRead
      <4>3. c1[s] = cache[s]
        BY <4>2 DEF c1, Cached
      <4>4. QED
        BY <2>2, <4>2, <4>3
    <3>3. CASE s \notin edited \ W
      BY <1>1, <2>2, <3>1, <3>3 DEF Agree
    <3>4. QED
      BY <3>2, <3>3
  <2>3. QED
    BY <2>1, <2>2
<1>8. CASE A \in W
  <2>1. f1[A] # Broken /\ cache'[A] = Resolve(f1[A], environment)
    BY <1>1, <1>6, <1>8, Marks
  <2>2. jobs' \subseteq JobsOf(c1[A]) /\ (~Raises(c1[A]) => jobs' = JobsOf(c1[A]))
    BY <1>4, <1>8, ReloadFacts
  <2>3. jobs' \subseteq JobIds
    BY <1>1, <2>2 DEF JobIds
  <2>4. TypeOK'
    BY <1>1, <1>3, <1>4, <1>6, <1>8, <2>3 DEF PutAll, IInv, TypeOK, Files, Caches
  <2>5. ScheduleInForce' /\ JobsServed' /\ NothingLeft'
    BY <1>3, <1>4, <1>6, <1>8, <2>2 DEF ScheduleInForce, JobsServed, NothingLeft
  <2>6. AcceptedSettingsBoot'
    BY <1>1, <1>3, <1>4, <1>8, <2>1 DEF AcceptedSettingsBoot, Bootable
  <2>7. QED
    BY <1>7, <2>4, <2>5, <2>6 DEF IInv
<1>9. CASE A \notin W
  <2>1. UNCHANGED <<jobs, reload>> /\ cache'[A] = cache[A] /\ file'[A] = file[A]
    BY <1>1, <1>3, <1>4, <1>6, <1>9
  <2>2. TypeOK'
    BY <1>1, <1>3, <1>6, <2>1 DEF PutAll, IInv, TypeOK, Files, Caches
  <2>3. A \in edited => A \in edited'
    BY <1>1, <1>3, <1>9, SettingsFacts DEF JustRead, IInv, TypeOK
  <2>4. ScheduleInForce' /\ JobsServed' /\ NothingLeft' /\ AcceptedSettingsBoot'
    BY <1>3, <2>1, <2>3 DEF IInv, ScheduleInForce, AcceptedSettingsBoot, JobsServed, NothingLeft
  <2>5. QED
    BY <1>7, <2>2, <2>4 DEF IInv
<1>10. QED
  BY <1>8, <1>9

LEMMA PutFailsHolds ==
  ASSUME IInv, NEW u \in Updates, NEW s \in DOMAIN u, NEW truncated \in BOOLEAN,
         PutFails(u, s, truncated)
  PROVE  IInv'
<1> DEFINE A == "automation"
           W == Before(u, s)
<1>1. W \subseteq DOMAIN u /\ s \notin W /\ s \in Sections
  <2>1. s \in Sections
    BY UpdateFacts
  <2>2. QED
    BY <2>1, SectionsAssumption DEF Before
<1>2. /\ Written(u, W) \in Files
      /\ \A t \in Sections : Written(u, W)[t] \in Contents(t) \cup {Empty, Broken}
      /\ cache' \in Caches
      /\ Agree(cache', Written(u, W), environment, edited')
      /\ cache'[A] \in Settings
      /\ A \notin W => cache'[A] = cache[A] /\ Written(u, W)[A] = file[A]
  BY <1>1, WrittenAndCached DEF PutFails
<1>3. /\ file' \in Files
      /\ \A t \in Sections : file'[t] = Written(u, W)[t] \/ file'[t] = Empty
  BY <1>1, <1>2 DEF PutFails, Files
<1>4. TypeOK' /\ InForceIsOnDisk'
  BY <1>2, <1>3 DEF PutFails, IInv, TypeOK, InForceIsOnDisk, Agree, Files, Caches
<1>5. CASE A \in W
  BY <1>4, <1>5 DEF PutFails, IInv, ScheduleInForce, AcceptedSettingsBoot, JobsServed, NothingLeft
<1>6. CASE A \notin W
  <2>1. /\ reload' = reload /\ cache'[A] = cache[A] /\ (file'[A] = file[A] \/ file'[A] = Empty)
        /\ A \in edited => A \in edited'
    BY <1>2, <1>3, <1>6, SectionsAssumption DEF PutFails
  <2>2. Bootable(Empty, environment)
    BY SettingsFacts
  <2>3. QED
    BY <1>4, <2>1, <2>2 DEF PutFails, IInv, ScheduleInForce, AcceptedSettingsBoot,
       JobsServed, NothingLeft
<1>7. QED
  BY <1>5, <1>6

(* A process that ends leaves files that are as typed and as bootable.      *)
LEMMA StoppedHolds ==
  ASSUME IInv, Stopped, AcceptedSettingsBoot', file' \in Files,
         \A s \in Sections : file'[s] \in Contents(s) \cup {Empty, Broken},
         reload' \in {"none", "done", "raised", "abandoned", "interrupted"},
         edited' \subseteq Sections
  PROVE  IInv'
BY DEF Stopped, IInv, TypeOK, InForceIsOnDisk, ScheduleInForce, JobsServed, NothingLeft, Files

LEMMA CrashInSectionHolds ==
  ASSUME IInv, NEW u \in Updates, NEW s \in DOMAIN u, CrashInSection(u, s)
  PROVE  IInv'
<1> DEFINE A == "automation"
           W == Before(u, s)
<1>1. W \subseteq DOMAIN u /\ s \in Sections
  BY UpdateFacts DEF Before
<1>2. /\ Written(u, W) \in Files
      /\ \A t \in Sections : Written(u, W)[t] \in Contents(t) \cup {Empty, Broken}
      /\ A \notin W => Written(u, W)[A] = file[A]
  BY <1>1, WrittenAndCached
<1>3. /\ file' \in Files
      /\ \A t \in Sections : file'[t] = Written(u, W)[t] \/ file'[t] = Empty
  BY <1>1, <1>2 DEF CrashInSection, Files
<1>4. AcceptedSettingsBoot'
  <2>1. Bootable(Empty, environment) /\ environment' = environment
    BY SettingsFacts DEF CrashInSection, Stopped
  <2>2. A \notin W => /\ file'[A] = file[A] \/ file'[A] = Empty
                     /\ (A \in edited => A \in edited')
    BY <1>2, <1>3, SectionsAssumption DEF CrashInSection
  <2>3. QED
    BY <2>1, <2>2 DEF CrashInSection, IInv, AcceptedSettingsBoot
<1>5. QED
  BY <1>2, <1>3, <1>4, StoppedHolds DEF CrashInSection, IInv, TypeOK

LEMMA CrashBeforeReloadHolds ==
  ASSUME IInv, NEW u \in Updates, CrashBeforeReload(u)
  PROVE  IInv'
<1>1. /\ file' \in Files
      /\ \A t \in Sections : file'[t] \in Contents(t) \cup {Empty, Broken}
      /\ "automation" \notin DOMAIN u => file'["automation"] = file["automation"]
  BY WrittenAndCached DEF CrashBeforeReload
<1>2. AcceptedSettingsBoot'
  BY <1>1 DEF CrashBeforeReload, Stopped, IInv, AcceptedSettingsBoot
<1>3. QED
  BY <1>1, <1>2, StoppedHolds DEF CrashBeforeReload, IInv, TypeOK

LEMMA StopHolds == ASSUME IInv, Stop PROVE IInv'
<1>1. AcceptedSettingsBoot' /\ file' \in Files
  BY DEF Stop, Stopped, IInv, TypeOK, AcceptedSettingsBoot, Files
<1>2. QED
  BY <1>1, StoppedHolds DEF Stop, IInv, TypeOK

LEMMA HandEditHolds ==
  ASSUME IInv, NEW s \in Sections, NEW c \in Contents(s) \cup {Broken}, HandEdit(s, c)
  PROVE  IInv'
<1>1. c \in Automations \cup Texts \cup {Placeholder, Broken}
  BY DEF Contents
<1>2. QED
  BY <1>1, SectionsAssumption DEF HandEdit, IInv, TypeOK, InForceIsOnDisk, ScheduleInForce,
     AcceptedSettingsBoot, JobsServed, NothingLeft

(* The inductive invariant.                                                 *)
THEOREM ServiceInvariant == Spec => []IInv
<1>1. IInv /\ [Next]_vars => IInv'
  <2> SUFFICES ASSUME IInv, [Next]_vars PROVE IInv'
    OBVIOUS
  <2>1. CASE UNCHANGED vars
    BY <2>1 DEF vars, IInv, TypeOK, InForceIsOnDisk, ScheduleInForce, AcceptedSettingsBoot,
       JobsServed, NothingLeft
  <2>2. CASE Next
    BY <2>2, LoadHolds, GetHolds, BootHolds, JobStepsHold, PutAllHolds, PutFailsHolds,
       CrashInSectionHolds, CrashBeforeReloadHolds, StopHolds, HandEditHolds DEF Next
  <2>3. QED
    BY <2>1, <2>2
<1>2. QED
  BY <1>1, InitHolds, PTL DEF Spec

(* Every variable keeps its type, whatever is saved, fails or crashes.      *)
THEOREM TypeCorrect == Spec => []TypeOK
BY ServiceInvariant, PTL DEF IInv

(* YamlConfigLoader and PUT: the cache never disagrees with the files, but  *)
(* for one that a failed write has emptied (routes/settings.py:61-65) or an *)
(* edit by hand has changed since it was read.                              *)
THEOREM InForceIsOnDiskHolds == Spec => []InForceIsOnDisk
BY ServiceInvariant, PTL DEF IInv

(* SchedulerService.reload: the registered jobs are those of the settings.  *)
THEOREM ScheduleInForceHolds == Spec => []ScheduleInForce
BY ServiceInvariant, PTL DEF IInv

(* lifespan: settings that were accepted let the service start again in the *)
(* environment that accepted them, with any placeholders (config.py:86-99). *)
THEOREM AcceptedSettingsBootHolds == Spec => []AcceptedSettingsBoot
BY ServiceInvariant, PTL DEF IInv

(* No job starts that the settings in force do not ask for, unless a save   *)
(* was abandoned before it reached the scheduler (scheduler/service.py).    *)
THEOREM FiredAsServedHolds == Spec => FiredAsServed
<1> DEFINE Asked == \A j \in running' \ running :
                      reload = "abandoned" \/ j \in JobsOf(cache["automation"])
<1>1. IInv /\ [Next]_vars => [Asked]_vars
  <2> SUFFICES ASSUME IInv, Next PROVE Asked
    OBVIOUS
  <2>1. ASSUME NEW i \in jobs, Fire(i) PROVE Asked
    BY <2>1 DEF Fire, IInv, JobsServed
  <2>2. ASSUME running' \subseteq running PROVE Asked
    BY <2>2
  <2>3. (\E i \in jobs : Fire(i)) \/ running' \subseteq running
    BY DEF Next, Load, GetSettings, Boot, Finish, PutAll, PutFails, CrashInSection,
       CrashBeforeReload, Stop, Stopped, HandEdit
  <2>4. QED
    BY <2>1, <2>2, <2>3
<1>2. QED
  BY <1>1, ServiceInvariant, PTL DEF Spec, FiredAsServed
=============================================================================
