---------------------------- MODULE NativeLoader ----------------------------
(***************************************************************************)
(* Choosing, vetting and caching the compiled extension (runtime.py).      *)
(* An installed package comes first; a developer build needs three         *)
(* environment variables.  Either must be the build its fingerprint names, *)
(* built against the locked RayD.  The caches (lru_cache) hold no lock     *)
(* while they compute and keep only successes, so threads race through the *)
(* steps below; the interpreter's module table keeps what was imported,    *)
(* vetted or not.  A build is what its build_info tells apart.             *)
(***************************************************************************)
EXTENDS Naturals, FiniteSets

CONSTANTS
  Threads,   \* callers
  Builds,    \* compiled extensions: [print, rayd, genuine]
  MaxEdits   \* bound: edits of the files and the environment while it runs

\* A fingerprint is a SHA-256 of an identity that names the RayD built against,
\* so it settles that of every build whose fingerprint is its own.
BuildsAssumption ==
  /\ Builds \subseteq [print : STRING, rayd : STRING, genuine : BOOLEAN]
  /\ \A b \in Builds : b.print \notin {"none", "unset", "partial"}
  /\ \A b, c \in Builds : b.genuine /\ c.genuine /\ b.print = c.print => b.rayd = c.rayd
  /\ MaxEdits \in Nat

VARIABLES
  disk,    \* installed package, its fingerprint file, RayD lock, developer build
  env,     \* developer variables: "unset", "partial", or the print they expect
  build,   \* [registers: importing a developer file enters it in the module
           \*  table, shipped: a package was there from the start]
  loaded,  \* the module table's entry for the extension
  cache,   \* what the four caches hold
  call,    \* each thread's call
  vouched, \* history: <<who, what>> a file or the environment ever vouched for
  right,   \* history: the call began in a right world and nothing was edited since
  edits

vars == <<disk, env, build, loaded, cache, call, vouched, right, edits>>

Prints == {b.print : b \in Builds}
Locks == {b.rayd : b \in Builds}
AtMostOne(S) == {{}} \cup {{x} : x \in S}
Modules == [build : Builds, home : {"package", "developer"}]

Idle == [pc |-> "idle", want |-> "none", branch |-> "none", module |-> {}, expect |-> "none"]

Vouching(d, e) ==
  {<<"package", d.sidecar>>, <<"lock", d.lock>>} \cup
    {<<"developer", p>> : p \in {e} \cap Prints}

Init ==
  /\ disk \in [package : AtMostOne(Builds), sidecar : Prints \cup {"none"},
               lock : Locks, developer : AtMostOne(Builds)]
  /\ env \in {"unset", "partial"} \cup Prints
  /\ build \in [registers : BOOLEAN, shipped : {disk.package # {}}]
  /\ loaded = {}
  /\ cache = [package |-> {}, developer |-> {}, extension |-> {}, info |-> {}]
  /\ call = [t \in Threads |-> Idle]
  /\ vouched = Vouching(disk, env)
  /\ right = [t \in Threads |-> FALSE]
  /\ edits = 0

-----------------------------------------------------------------------------
Goes(t, changes) == call' = [call EXCEPT ![t] = changes]
At(t, pc) == call[t].pc = pc
Refuse(t) == Goes(t, [call[t] EXCEPT !.pc = "refused"])

\* lru_cache: the first result stored stays; a racing second is only returned.
Stored(old, new) == IF old = {} THEN new ELSE old

\* A build the loader should take, and nothing in its way: for the history only.
Takes(b) == b.genuine /\ b.rayd = disk.lock
RightWorld ==
  /\ ~build.registers \/ disk.developer = {}
  /\ \A m \in cache.extension : m.build.rayd = disk.lock
  /\ \/ \E b \in disk.package : /\ Takes(b) /\ disk.sidecar = b.print
                                /\ loaded \subseteq {[build |-> b, home |-> "package"]}
     \/ /\ disk.package = {} /\ loaded = {}
        /\ \E b \in disk.developer : Takes(b) /\ env = b.print

\* native_extension(), or build_info(), which asks for the extension first.
Ask(t, want) ==
  /\ At(t, "idle")
  /\ LET known == IF want = "info" /\ cache.info # {} THEN cache.info ELSE cache.extension
     IN Goes(t, [Idle EXCEPT !.want = want, !.module = known,
                   !.pc = IF known = {} THEN "find"
                          ELSE IF want = "info" /\ cache.info = {} THEN "describe"
                          ELSE "answered"])
  /\ right' = [right EXCEPT ![t] = RightWorld]
  /\ UNCHANGED <<disk, env, build, loaded, cache, vouched, edits>>

\* Mutant of PackageIsFound: a module already in the table counts as foreign.
PackageOnDisk == disk.package # {} /\ loaded = {}

\* Mutant of PackageIsFound: the developer variables come first.
PackageUnlessOverridden == (loaded # {} \/ disk.package # {}) /\ env \notin Prints

\* find_spec: the package is found in the module table or on disk.
PackageIsFound == loaded # {} \/ disk.package # {}

Find(t) ==
  /\ At(t, "find")
  /\ IF PackageIsFound
     THEN Goes(t, [call[t] EXCEPT !.branch = "package", !.module = cache.package,
                     !.pc = IF cache.package = {} THEN "import" ELSE "keep"])
     ELSE IF env \in Prints /\ disk.developer # {}
     THEN LET hit == {e.module : e \in {x \in cache.developer : x.expect = env}}
          IN Goes(t, [call[t] EXCEPT !.branch = "developer", !.module = hit,
                        !.expect = env, !.pc = IF hit = {} THEN "import" ELSE "keep"])
     ELSE Refuse(t)
  /\ UNCHANGED <<disk, env, build, loaded, cache, vouched, right, edits>>

\* importlib: what the table has, else the installed file.
ImportPackage(t) ==
  /\ At(t, "import") /\ call[t].branch = "package"
  /\ loaded' = IF loaded # {} THEN loaded
               ELSE {[build |-> b, home |-> "package"] : b \in disk.package}
  /\ Goes(t, [call[t] EXCEPT !.pc = "sidecar", !.module = loaded'])
  /\ UNCHANGED <<disk, env, build, cache, vouched, right, edits>>

\* The developer file is executed; one that registers is executed once.
ImportDeveloper(t) ==
  /\ At(t, "import") /\ call[t].branch = "developer"
  /\ LET fresh == {[build |-> b, home |-> "developer"] : b \in disk.developer}
         mine == {m \in loaded : build.registers /\ m.home = "developer"}
     IN /\ Goes(t, [call[t] EXCEPT !.pc = "validate",
                      !.module = IF mine = {} THEN fresh ELSE mine])
        /\ loaded' = IF ~build.registers THEN loaded ELSE call'[t].module
  /\ UNCHANGED <<disk, env, build, cache, vouched, right, edits>>

\* The fingerprint file is read after the import.
ReadSidecar(t) ==
  /\ At(t, "sidecar")
  /\ IF disk.sidecar = "none" THEN Refuse(t)
     ELSE Goes(t, [call[t] EXCEPT !.pc = "validate", !.expect = disk.sidecar])
  /\ UNCHANGED <<disk, env, build, loaded, cache, vouched, right, edits>>

\* Mutant of Valid: the fingerprint a build claims is not compared.
ValidUnnamed(c, m) ==
  /\ c.branch = "package" => m.home = "package"
  /\ m.build.genuine /\ m.build.rayd = disk.lock

\* Mutant of Valid: where the module came from is not looked at.
ValidAnywhere(c, m) ==
  m.build.genuine /\ m.build.rayd = disk.lock /\ m.build.print = c.expect

\* Origin, bootstrap symbol, identity fields, RayD lock, Torch runtime and
\* fingerprint (a genuine build passes all but lock and expectation).
Valid(c, m) ==
  /\ c.branch = "package" => m.home = "package"
  /\ m.build.genuine /\ m.build.rayd = disk.lock /\ m.build.print = c.expect

Validate(t) ==
  /\ At(t, "validate")
  /\ LET c == call[t] IN
     IF \E m \in c.module : Valid(c, m)
     THEN /\ Goes(t, [c EXCEPT !.pc = "keep"])
          /\ cache' = IF c.branch = "package"
                      THEN [cache EXCEPT !.package = Stored(@, c.module)]
                      ELSE [cache EXCEPT !.developer =
                              IF \E e \in @ : e.expect = c.expect THEN @
                              ELSE {[expect |-> c.expect, module |-> m] : m \in c.module}]
     ELSE Refuse(t) /\ UNCHANGED cache
  /\ UNCHANGED <<disk, env, build, loaded, vouched, right, edits>>

\* The extension's own cache, around the other two.
Keep(t) ==
  /\ At(t, "keep")
  /\ cache' = [cache EXCEPT !.extension = Stored(@, call[t].module)]
  /\ Goes(t, [call[t] EXCEPT !.pc = IF call[t].want = "info" THEN "describe" ELSE "answered"])
  /\ UNCHANGED <<disk, env, build, loaded, vouched, right, edits>>

\* build_info() asks the module again and validates again, with today's lock.
Describe(t) ==
  /\ At(t, "describe")
  /\ IF \A m \in call[t].module : m.build.genuine /\ m.build.rayd = disk.lock
     THEN /\ cache' = [cache EXCEPT !.info = Stored(@, call[t].module)]
          /\ Goes(t, [call[t] EXCEPT !.pc = "answered"])
     ELSE Refuse(t) /\ UNCHANGED cache
  /\ UNCHANGED <<disk, env, build, loaded, vouched, right, edits>>

\* The caller takes the extension, or the error.
Return(t) ==
  /\ At(t, "answered") \/ At(t, "refused")
  /\ Goes(t, Idle)
  /\ right' = [right EXCEPT ![t] = FALSE]
  /\ UNCHANGED <<disk, env, build, loaded, cache, vouched, edits>>

\* Files and variables change under the process: an install or a rebuild, a
\* repaired fingerprint or lock, variables set or cleared.  Nothing is removed.
Edit ==
  /\ edits < MaxEdits
  /\ \/ /\ \/ \E b \in Builds : disk' = [disk EXCEPT !.package = {b}]
           \/ \E b \in Builds : disk' = [disk EXCEPT !.developer = {b}]
           \/ \E p \in Prints \cup {"none"} : disk' = [disk EXCEPT !.sidecar = p]
           \/ \E r \in Locks : disk' = [disk EXCEPT !.lock = r]
        /\ UNCHANGED env
     \/ env' \in {"unset", "partial"} \cup Prints /\ UNCHANGED disk
  /\ edits' = edits + 1
  /\ vouched' = vouched \cup Vouching(disk', env')
  /\ right' = [t \in Threads |-> FALSE]
  /\ UNCHANGED <<build, loaded, cache, call>>

Step(t) ==
  \/ Find(t) \/ ImportPackage(t) \/ ImportDeveloper(t) \/ ReadSidecar(t)
  \/ Validate(t) \/ Keep(t) \/ Describe(t)

Next ==
  \/ Edit
  \/ \E t \in Threads : (\E want \in {"extension", "info"} : Ask(t, want)) \/ Step(t) \/ Return(t)

Spec == Init /\ [][Next]_vars

-----------------------------------------------------------------------------
TypeOK ==
  /\ loaded \subseteq Modules /\ Cardinality(loaded) <= 1
  /\ \A c \in {cache.package, cache.extension, cache.info} :
       c \subseteq Modules /\ Cardinality(c) <= 1
  /\ \A e \in cache.developer : e.expect \in Prints /\ e.module \in Modules
  /\ Cardinality(cache.developer) <= 1
  /\ env \in {"unset", "partial"} \cup Prints
  /\ \A t \in Threads : call[t].module \subseteq Modules

HandedOut == UNION {call[t].module : t \in {u \in Threads : At(u, "answered")}}

(* What a caller is handed, or a cache keeps, is a genuine build whose      *)
(* fingerprint the file beside the package, or the variables for a          *)
(* developer build, named, and whose RayD a lock named - whatever was       *)
(* edited, imported or refused in between and whichever thread came first.  *)
OnlyVouchedBuilds ==
  \A m \in HandedOut \cup cache.package \cup cache.extension \cup cache.info :
    /\ m.build.genuine
    /\ <<m.home, m.build.print>> \in vouched
    /\ <<"lock", m.build.rayd>> \in vouched

(* Where a package was installed no developer build is ever handed out or  *)
(* described, whatever the variables say (_load_native_extension).         *)
PackageShadowsDeveloper ==
  build.shipped => \A m \in HandedOut \cup cache.extension \cup cache.info : m.home = "package"

(* A developer file that put itself in the module table, vetted or not, is  *)
(* never taken for the installed package (_assert_packaged_origin).         *)
PackageIsOfThePackage == \A m \in cache.package : m.home = "package"

(* Errors are not remembered: a call that begins in a world that is right   *)
(* and stays so is not refused, however many calls were refused before and  *)
(* whatever other threads are in the middle of.                             *)
RightWorldIsAccepted == \A t \in Threads : right[t] => ~At(t, "refused")

(* The build handed out or cached is a genuine one that was vouched for, the *)
(* package's where one was installed, and refusals are not remembered.       *)
RightBuildIsLoaded ==
  /\ OnlyVouchedBuilds
  /\ PackageShadowsDeveloper
  /\ PackageIsOfThePackage
  /\ RightWorldIsAccepted
=============================================================================
