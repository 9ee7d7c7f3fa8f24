-------------------------- MODULE CapacityProofs --------------------------
(***************************************************************************)
(* Theorems about CapacityTransaction, for every finite set of rows and    *)
(* every set of routes.                                                    *)
(*                                                                         *)
(* What the device has done is a prefix of the route's program, so each    *)
(* conjunct of the invariant says what holds once a kernel has completed,  *)
(* or while it runs.  The lemmas about OrderAt are the only facts about    *)
(* the programs the proof uses.                                            *)
(***************************************************************************)
EXTENDS CapacityTransaction, FiniteSetTheorems, TLAPS

(* Which kernel comes before which, in the program of every route.         *)
\* Kernel k is among the first n of route r.
Before(r, n, k) == \E i \in 1..n : Program[r][i] = k
AllOf(r, n, S) == \A k \in S : Before(r, n, k)
NoneOf(r, n, S) == \A k \in S : ~Before(r, n, k)
Closing == {"sanitize", "vector_sanitize", "recompact", "convert", "publish", "terminal"}

OrderAt(r, n, k) ==
  /\ k = "zero" =>
       NoneOf(r, n, {"penetrate", "init", "preflight", "pack", "walls", "block_sanitize",
                     "gather", "scatter"} \cup Closing)
  /\ k = "discover" => NoneOf(r, n, {"gather", "scatter"} \cup Closing)
  /\ k = "penetrate" =>
       /\ AllOf(r, n, {"zero"})
       /\ NoneOf(r, n, {"penetrate", "init", "preflight", "pack", "walls", "block_sanitize",
                        "gather", "scatter"} \cup Closing)
  /\ k = "init" =>
       /\ AllOf(r, n, {"zero", "penetrate"})
       /\ NoneOf(r, n, {"preflight", "pack", "walls", "block_sanitize", "gather"} \cup Closing)
  /\ k = "preflight" =>
       /\ n > 0 /\ Program[r][n] = "init"
       /\ AllOf(r, n, {"zero", "penetrate", "init"})
       /\ NoneOf(r, n, {"pack", "walls", "block_sanitize", "gather"} \cup Closing)
  /\ k = "pack" =>
       /\ n > 0 /\ Program[r][n] = "preflight"
       /\ AllOf(r, n, {"zero", "penetrate", "init", "preflight"})
       /\ NoneOf(r, n, {"pack", "walls", "block_sanitize", "gather"} \cup Closing)
  /\ k = "walls" =>
       /\ n > 0 /\ Program[r][n] = "init"
       /\ AllOf(r, n, {"zero", "penetrate", "init"})
       /\ NoneOf(r, n, {"preflight", "pack", "walls", "block_sanitize", "gather"} \cup Closing)
  /\ k = "block_sanitize" => Before(r, n, "pack") \/ Before(r, n, "walls")
  /\ k = "gather" =>
       /\ Before(r, n, "pack") \/ Before(r, n, "walls")
       /\ NoneOf(r, n, {"gather", "scatter"} \cup Closing)
  /\ k = "scatter" => NoneOf(r, n, Closing)
  /\ k = "sanitize" => AllOf(r, n, {"gather"}) /\ NoneOf(r, n, Closing)
  /\ k = "vector_sanitize" =>
       AllOf(r, n, {"gather", "sanitize"}) /\ NoneOf(r, n, {"recompact", "convert", "publish"})
  /\ k = "recompact" => NoneOf(r, n, {"convert", "publish"})
  /\ k = "convert" => Before(r, n, "zero") /\ (r = "path" \/ Before(r, n, "recompact"))
  /\ k = "terminal" =>
       /\ AllOf(r, n, {"zero", "block_sanitize", "sanitize"})
       /\ r = "basic" \/ Before(r, n, "vector_sanitize")
       /\ r = "consumer" \/ Before(r, n, "convert") \/ Before(r, n, "publish")

\* The kernels of a whole program.
Whole(r, n) ==
  /\ AllOf(r, n, {"zero", "gather", "block_sanitize", "terminal"})
  /\ Before(r, n, "preflight") \/ Before(r, n, "walls")
  /\ Before(r, n, "publish") \/ Before(r, n, "convert")

OrderOf(r, n) ==
  /\ n < Len(Program[r]) => OrderAt(r, n, Program[r][n + 1])
  /\ n = Len(Program[r]) => Whole(r, n)

----------------------------------------------------------------------------
LEMMA OracleOrder ==
  ASSUME NEW n \in Nat, n <= Len(Program["oracle"])
  PROVE  OrderOf("oracle", n)
<1> DEFINE P == <<"zero", "discover", "penetrate", "init", "preflight", "pack",
                "block_sanitize", "gather", "sanitize", "vector_sanitize", "publish", "terminal">>
<1>1. Program["oracle"] = P BY DEF Program, KnownRoutes
<1>2. n \in 0..12 /\ Len(Program["oracle"]) = 12 BY <1>1
<1>3. /\ P[1] = "zero" /\ P[2] = "discover" /\ P[3] = "penetrate"
      /\ P[4] = "init" /\ P[5] = "preflight" /\ P[6] = "pack"
      /\ P[7] = "block_sanitize" /\ P[8] = "gather" /\ P[9] = "sanitize"
      /\ P[10] = "vector_sanitize" /\ P[11] = "publish" /\ P[12] = "terminal"
  OBVIOUS
<1> HIDE DEF P
<1>4. ASSUME NEW k
      PROVE  Before("oracle", n, k) <=>
               \/ (k = "zero" /\ n >= 1) \/ (k = "discover" /\ n >= 2)
               \/ (k = "penetrate" /\ n >= 3) \/ (k = "init" /\ n >= 4)
               \/ (k = "preflight" /\ n >= 5) \/ (k = "pack" /\ n >= 6)
               \/ (k = "block_sanitize" /\ n >= 7) \/ (k = "gather" /\ n >= 8)
               \/ (k = "sanitize" /\ n >= 9) \/ (k = "vector_sanitize" /\ n >= 10)
               \/ (k = "publish" /\ n >= 11) \/ (k = "terminal" /\ n >= 12)
  <2>1. ASSUME NEW i \in 1..n
        PROVE  \/ i = 1 \/ i = 2 \/ i = 3 \/ i = 4 \/ i = 5 \/ i = 6 \/ i = 7
             \/ i = 8 \/ i = 9 \/ i = 10 \/ i = 11 \/ i = 12
    BY <1>2
  <2>2. \A i \in 1..n : P[i] = k <=> Program["oracle"][i] = k BY <1>1
  <2> QED BY <2>1, <2>2, <1>2, <1>3, SMTT(20) DEF Before
<1>5. \/ (n = 0 /\ P[n + 1] = "zero") \/ (n = 1 /\ P[n + 1] = "discover")
      \/ (n = 2 /\ P[n + 1] = "penetrate") \/ (n = 3 /\ P[n + 1] = "init")
      \/ (n = 4 /\ P[n + 1] = "preflight") \/ (n = 5 /\ P[n + 1] = "pack")
      \/ (n = 6 /\ P[n + 1] = "block_sanitize") \/ (n = 7 /\ P[n + 1] = "gather")
      \/ (n = 8 /\ P[n + 1] = "sanitize") \/ (n = 9 /\ P[n + 1] = "vector_sanitize")
      \/ (n = 10 /\ P[n + 1] = "publish") \/ (n = 11 /\ P[n + 1] = "terminal")
      \/ n = 12
  BY <1>2, <1>3
<1>6. /\ Before("oracle", n, "zero") <=> n >= 1
      /\ Before("oracle", n, "discover") <=> n >= 2
      /\ Before("oracle", n, "penetrate") <=> n >= 3
      /\ Before("oracle", n, "init") <=> n >= 4
      /\ Before("oracle", n, "preflight") <=> n >= 5
      /\ Before("oracle", n, "pack") <=> n >= 6
      /\ Before("oracle", n, "block_sanitize") <=> n >= 7
      /\ Before("oracle", n, "gather") <=> n >= 8
      /\ ~Before("oracle", n, "walls")
      /\ ~Before("oracle", n, "scatter")
      /\ Before("oracle", n, "sanitize") <=> n >= 9
      /\ Before("oracle", n, "vector_sanitize") <=> n >= 10
      /\ ~Before("oracle", n, "recompact")
      /\ ~Before("oracle", n, "convert")
      /\ Before("oracle", n, "publish") <=> n >= 11
      /\ Before("oracle", n, "terminal") <=> n >= 12
  BY <1>4
<1>7. n < 12 => OrderAt("oracle", n, Program["oracle"][n + 1])
  BY <1>1, <1>3, <1>5, <1>6, SMTT(30) DEF OrderAt, AllOf, NoneOf, Closing
<1>8. n = 12 => Whole("oracle", n)
  BY <1>6 DEF Whole, AllOf
<1> QED BY <1>2, <1>7, <1>8 DEF OrderOf

LEMMA PathOrder ==
  ASSUME NEW n \in Nat, n <= Len(Program["path"])
  PROVE  OrderOf("path", n)
<1> DEFINE P == <<"zero", "discover", "penetrate", "init", "preflight", "pack",
                "block_sanitize", "gather", "sanitize", "vector_sanitize", "convert", "terminal">>
<1>1. Program["path"] = P BY DEF Program, KnownRoutes
<1>2. n \in 0..12 /\ Len(Program["path"]) = 12 BY <1>1
<1>3. /\ P[1] = "zero" /\ P[2] = "discover" /\ P[3] = "penetrate"
      /\ P[4] = "init" /\ P[5] = "preflight" /\ P[6] = "pack"
      /\ P[7] = "block_sanitize" /\ P[8] = "gather" /\ P[9] = "sanitize"
      /\ P[10] = "vector_sanitize" /\ P[11] = "convert" /\ P[12] = "terminal"
  OBVIOUS
<1> HIDE DEF P
<1>4. ASSUME NEW k
      PROVE  Before("path", n, k) <=>
               \/ (k = "zero" /\ n >= 1) \/ (k = "discover" /\ n >= 2)
               \/ (k = "penetrate" /\ n >= 3) \/ (k = "init" /\ n >= 4)
               \/ (k = "preflight" /\ n >= 5) \/ (k = "pack" /\ n >= 6)
               \/ (k = "block_sanitize" /\ n >= 7) \/ (k = "gather" /\ n >= 8)
               \/ (k = "sanitize" /\ n >= 9) \/ (k = "vector_sanitize" /\ n >= 10)
               \/ (k = "convert" /\ n >= 11) \/ (k = "terminal" /\ n >= 12)
  <2>1. ASSUME NEW i \in 1..n
        PROVE  \/ i = 1 \/ i = 2 \/ i = 3 \/ i = 4 \/ i = 5 \/ i = 6 \/ i = 7
             \/ i = 8 \/ i = 9 \/ i = 10 \/ i = 11 \/ i = 12
    BY <1>2
  <2>2. \A i \in 1..n : P[i] = k <=> Program["path"][i] = k BY <1>1
  <2> QED BY <2>1, <2>2, <1>2, <1>3, SMTT(20) DEF Before
<1>5. \/ (n = 0 /\ P[n + 1] = "zero") \/ (n = 1 /\ P[n + 1] = "discover")
      \/ (n = 2 /\ P[n + 1] = "penetrate") \/ (n = 3 /\ P[n + 1] = "init")
      \/ (n = 4 /\ P[n + 1] = "preflight") \/ (n = 5 /\ P[n + 1] = "pack")
      \/ (n = 6 /\ P[n + 1] = "block_sanitize") \/ (n = 7 /\ P[n + 1] = "gather")
      \/ (n = 8 /\ P[n + 1] = "sanitize") \/ (n = 9 /\ P[n + 1] = "vector_sanitize")
      \/ (n = 10 /\ P[n + 1] = "convert") \/ (n = 11 /\ P[n + 1] = "terminal")
      \/ n = 12
  BY <1>2, <1>3
<1>6. /\ Before("path", n, "zero") <=> n >= 1
      /\ Before("path", n, "discover") <=> n >= 2
      /\ Before("path", n, "penetrate") <=> n >= 3
      /\ Before("path", n, "init") <=> n >= 4
      /\ Before("path", n, "preflight") <=> n >= 5
      /\ Before("path", n, "pack") <=> n >= 6
      /\ Before("path", n, "block_sanitize") <=> n >= 7
      /\ Before("path", n, "gather") <=> n >= 8
      /\ ~Before("path", n, "walls")
      /\ ~Before("path", n, "scatter")
      /\ Before("path", n, "sanitize") <=> n >= 9
      /\ Before("path", n, "vector_sanitize") <=> n >= 10
      /\ ~Before("path", n, "recompact")
      /\ Before("path", n, "convert") <=> n >= 11
      /\ ~Before("path", n, "publish")
      /\ Before("path", n, "terminal") <=> n >= 12
  BY <1>4
<1>7. n < 12 => OrderAt("path", n, Program["path"][n + 1])
  BY <1>1, <1>3, <1>5, <1>6, SMTT(30) DEF OrderAt, AllOf, NoneOf, Closing
<1>8. n = 12 => Whole("path", n)
  BY <1>6 DEF Whole, AllOf
<1> QED BY <1>2, <1>7, <1>8 DEF OrderOf

LEMMA PathScatteringOrder ==
  ASSUME NEW n \in Nat, n <= Len(Program["path_scattering"])
  PROVE  OrderOf("path_scattering", n)
<1> DEFINE P == <<"zero", "discover", "penetrate", "init", "preflight", "pack",
                "block_sanitize", "gather", "scatter", "sanitize", "vector_sanitize", "recompact",
                "convert", "terminal">>
<1>1. Program["path_scattering"] = P BY DEF Program, KnownRoutes
<1>2. n \in 0..14 /\ Len(Program["path_scattering"]) = 14 BY <1>1
<1>3. /\ P[1] = "zero" /\ P[2] = "discover" /\ P[3] = "penetrate"
      /\ P[4] = "init" /\ P[5] = "preflight" /\ P[6] = "pack"
      /\ P[7] = "block_sanitize" /\ P[8] = "gather" /\ P[9] = "scatter"
      /\ P[10] = "sanitize" /\ P[11] = "vector_sanitize" /\ P[12] = "recompact"
      /\ P[13] = "convert" /\ P[14] = "terminal"
  OBVIOUS
<1> HIDE DEF P
<1>4. ASSUME NEW k
      PROVE  Before("path_scattering", n, k) <=>
               \/ (k = "zero" /\ n >= 1) \/ (k = "discover" /\ n >= 2)
               \/ (k = "penetrate" /\ n >= 3) \/ (k = "init" /\ n >= 4)
               \/ (k = "preflight" /\ n >= 5) \/ (k = "pack" /\ n >= 6)
               \/ (k = "block_sanitize" /\ n >= 7) \/ (k = "gather" /\ n >= 8)
               \/ (k = "scatter" /\ n >= 9) \/ (k = "sanitize" /\ n >= 10)
               \/ (k = "vector_sanitize" /\ n >= 11) \/ (k = "recompact" /\ n >= 12)
               \/ (k = "convert" /\ n >= 13) \/ (k = "terminal" /\ n >= 14)
  <2>1. ASSUME NEW i \in 1..n
        PROVE  \/ i = 1 \/ i = 2 \/ i = 3 \/ i = 4 \/ i = 5 \/ i = 6 \/ i = 7
             \/ i = 8 \/ i = 9 \/ i = 10 \/ i = 11 \/ i = 12 \/ i = 13 \/ i = 14
    BY <1>2
  <2>2. \A i \in 1..n : P[i] = k <=> Program["path_scattering"][i] = k BY <1>1
  <2> QED BY <2>1, <2>2, <1>2, <1>3, SMTT(20) DEF Before
<1>5. \/ (n = 0 /\ P[n + 1] = "zero") \/ (n = 1 /\ P[n + 1] = "discover")
      \/ (n = 2 /\ P[n + 1] = "penetrate") \/ (n = 3 /\ P[n + 1] = "init")
      \/ (n = 4 /\ P[n + 1] = "preflight") \/ (n = 5 /\ P[n + 1] = "pack")
      \/ (n = 6 /\ P[n + 1] = "block_sanitize") \/ (n = 7 /\ P[n + 1] = "gather")
      \/ (n = 8 /\ P[n + 1] = "scatter") \/ (n = 9 /\ P[n + 1] = "sanitize")
      \/ (n = 10 /\ P[n + 1] = "vector_sanitize") \/ (n = 11 /\ P[n + 1] = "recompact")
      \/ (n = 12 /\ P[n + 1] = "convert") \/ (n = 13 /\ P[n + 1] = "terminal")
      \/ n = 14
  BY <1>2, <1>3
<1>6. /\ Before("path_scattering", n, "zero") <=> n >= 1
      /\ Before("path_scattering", n, "discover") <=> n >= 2
      /\ Before("path_scattering", n, "penetrate") <=> n >= 3
      /\ Before("path_scattering", n, "init") <=> n >= 4
      /\ Before("path_scattering", n, "preflight") <=> n >= 5
      /\ Before("path_scattering", n, "pack") <=> n >= 6
      /\ Before("path_scattering", n, "block_sanitize") <=> n >= 7
      /\ Before("path_scattering", n, "gather") <=> n >= 8
      /\ ~Before("path_scattering", n, "walls")
      /\ Before("path_scattering", n, "scatter") <=> n >= 9
      /\ Before("path_scattering", n, "sanitize") <=> n >= 10
      /\ Before("path_scattering", n, "vector_sanitize") <=> n >= 11
      /\ Before("path_scattering", n, "recompact") <=> n >= 12
      /\ Before("path_scattering", n, "convert") <=> n >= 13
      /\ ~Before("path_scattering", n, "publish")
      /\ Before("path_scattering", n, "terminal") <=> n >= 14
  BY <1>4
<1>7. n < 14 => OrderAt("path_scattering", n, Program["path_scattering"][n + 1])
  BY <1>1, <1>3, <1>5, <1>6, SMTT(30) DEF OrderAt, AllOf, NoneOf, Closing
<1>8. n = 14 => Whole("path_scattering", n)
  BY <1>6 DEF Whole, AllOf
<1> QED BY <1>2, <1>7, <1>8 DEF OrderOf

LEMMA DeterministicOrder ==
  ASSUME NEW n \in Nat, n <= Len(Program["deterministic"])
  PROVE  OrderOf("deterministic", n)
<1> DEFINE P == <<"zero", "discover", "penetrate", "init", "preflight", "pack",
                "block_sanitize", "gather", "scatter", "sanitize", "vector_sanitize", "publish",
                "terminal">>
<1>1. Program["deterministic"] = P BY DEF Program, KnownRoutes
<1>2. n \in 0..13 /\ Len(Program["deterministic"]) = 13 BY <1>1
<1>3. /\ P[1] = "zero" /\ P[2] = "discover" /\ P[3] = "penetrate"
      /\ P[4] = "init" /\ P[5] = "preflight" /\ P[6] = "pack"
      /\ P[7] = "block_sanitize" /\ P[8] = "gather" /\ P[9] = "scatter"
      /\ P[10] = "sanitize" /\ P[11] = "vector_sanitize" /\ P[12] = "publish"
      /\ P[13] = "terminal"
  OBVIOUS
<1> HIDE DEF P
<1>4. ASSUME NEW k
      PROVE  Before("deterministic", n, k) <=>
               \/ (k = "zero" /\ n >= 1) \/ (k = "discover" /\ n >= 2)
               \/ (k = "penetrate" /\ n >= 3) \/ (k = "init" /\ n >= 4)
               \/ (k = "preflight" /\ n >= 5) \/ (k = "pack" /\ n >= 6)
               \/ (k = "block_sanitize" /\ n >= 7) \/ (k = "gather" /\ n >= 8)
               \/ (k = "scatter" /\ n >= 9) \/ (k = "sanitize" /\ n >= 10)
               \/ (k = "vector_sanitize" /\ n >= 11) \/ (k = "publish" /\ n >= 12)
               \/ (k = "terminal" /\ n >= 13)
  <2>1. ASSUME NEW i \in 1..n
        PROVE  \/ i = 1 \/ i = 2 \/ i = 3 \/ i = 4 \/ i = 5 \/ i = 6 \/ i = 7
             \/ i = 8 \/ i = 9 \/ i = 10 \/ i = 11 \/ i = 12 \/ i = 13
    BY <1>2
  <2>2. \A i \in 1..n : P[i] = k <=> Program["deterministic"][i] = k BY <1>1
  <2> QED BY <2>1, <2>2, <1>2, <1>3, SMTT(20) DEF Before
<1>5. \/ (n = 0 /\ P[n + 1] = "zero") \/ (n = 1 /\ P[n + 1] = "discover")
      \/ (n = 2 /\ P[n + 1] = "penetrate") \/ (n = 3 /\ P[n + 1] = "init")
      \/ (n = 4 /\ P[n + 1] = "preflight") \/ (n = 5 /\ P[n + 1] = "pack")
      \/ (n = 6 /\ P[n + 1] = "block_sanitize") \/ (n = 7 /\ P[n + 1] = "gather")
      \/ (n = 8 /\ P[n + 1] = "scatter") \/ (n = 9 /\ P[n + 1] = "sanitize")
      \/ (n = 10 /\ P[n + 1] = "vector_sanitize") \/ (n = 11 /\ P[n + 1] = "publish")
      \/ (n = 12 /\ P[n + 1] = "terminal")
      \/ n = 13
  BY <1>2, <1>3
<1>6. /\ Before("deterministic", n, "zero") <=> n >= 1
      /\ Before("deterministic", n, "discover") <=> n >= 2
      /\ Before("deterministic", n, "penetrate") <=> n >= 3
      /\ Before("deterministic", n, "init") <=> n >= 4
      /\ Before("deterministic", n, "preflight") <=> n >= 5
      /\ Before("deterministic", n, "pack") <=> n >= 6
      /\ Before("deterministic", n, "block_sanitize") <=> n >= 7
      /\ Before("deterministic", n, "gather") <=> n >= 8
      /\ ~Before("deterministic", n, "walls")
      /\ Before("deterministic", n, "scatter") <=> n >= 9
      /\ Before("deterministic", n, "sanitize") <=> n >= 10
      /\ Before("deterministic", n, "vector_sanitize") <=> n >= 11
      /\ ~Before("deterministic", n, "recompact")
      /\ ~Before("deterministic", n, "convert")
      /\ Before("deterministic", n, "publish") <=> n >= 12
      /\ Before("deterministic", n, "terminal") <=> n >= 13
  BY <1>4
<1>7. n < 13 => OrderAt("deterministic", n, Program["deterministic"][n + 1])
  BY <1>1, <1>3, <1>5, <1>6, SMTT(30) DEF OrderAt, AllOf, NoneOf, Closing
<1>8. n = 13 => Whole("deterministic", n)
  BY <1>6 DEF Whole, AllOf
<1> QED BY <1>2, <1>7, <1>8 DEF OrderOf

LEMMA ConsumerOrder ==
  ASSUME NEW n \in Nat, n <= Len(Program["consumer"])
  PROVE  OrderOf("consumer", n)
<1> DEFINE P == <<"zero", "discover", "penetrate", "init", "preflight", "pack",
                "block_sanitize", "gather", "sanitize", "vector_sanitize", "terminal", "publish">>
<1>1. Program["consumer"] = P BY DEF Program, KnownRoutes
<1>2. n \in 0..12 /\ Len(Program["consumer"]) = 12 BY <1>1
<1>3. /\ P[1] = "zero" /\ P[2] = "discover" /\ P[3] = "penetrate"
      /\ P[4] = "init" /\ P[5] = "preflight" /\ P[6] = "pack"
      /\ P[7] = "block_sanitize" /\ P[8] = "gather" /\ P[9] = "sanitize"
      /\ P[10] = "vector_sanitize" /\ P[11] = "terminal" /\ P[12] = "publish"
  OBVIOUS
<1> HIDE DEF P
<1>4. ASSUME NEW k
      PROVE  Before("consumer", n, k) <=>
               \/ (k = "zero" /\ n >= 1) \/ (k = "discover" /\ n >= 2)
               \/ (k = "penetrate" /\ n >= 3) \/ (k = "init" /\ n >= 4)
               \/ (k = "preflight" /\ n >= 5) \/ (k = "pack" /\ n >= 6)
               \/ (k = "block_sanitize" /\ n >= 7) \/ (k = "gather" /\ n >= 8)
               \/ (k = "sanitize" /\ n >= 9) \/ (k = "vector_sanitize" /\ n >= 10)
               \/ (k = "terminal" /\ n >= 11) \/ (k = "publish" /\ n >= 12)
  <2>1. ASSUME NEW i \in 1..n
        PROVE  \/ i = 1 \/ i = 2 \/ i = 3 \/ i = 4 \/ i = 5 \/ i = 6 \/ i = 7
             \/ i = 8 \/ i = 9 \/ i = 10 \/ i = 11 \/ i = 12
    BY <1>2
  <2>2. \A i \in 1..n : P[i] = k <=> Program["consumer"][i] = k BY <1>1
  <2> QED BY <2>1, <2>2, <1>2, <1>3, SMTT(20) DEF Before
<1>5. \/ (n = 0 /\ P[n + 1] = "zero") \/ (n = 1 /\ P[n + 1] = "discover")
      \/ (n = 2 /\ P[n + 1] = "penetrate") \/ (n = 3 /\ P[n + 1] = "init")
      \/ (n = 4 /\ P[n + 1] = "preflight") \/ (n = 5 /\ P[n + 1] = "pack")
      \/ (n = 6 /\ P[n + 1] = "block_sanitize") \/ (n = 7 /\ P[n + 1] = "gather")
      \/ (n = 8 /\ P[n + 1] = "sanitize") \/ (n = 9 /\ P[n + 1] = "vector_sanitize")
      \/ (n = 10 /\ P[n + 1] = "terminal") \/ (n = 11 /\ P[n + 1] = "publish")
      \/ n = 12
  BY <1>2, <1>3
<1>6. /\ Before("consumer", n, "zero") <=> n >= 1
      /\ Before("consumer", n, "discover") <=> n >= 2
      /\ Before("consumer", n, "penetrate") <=> n >= 3
      /\ Before("consumer", n, "init") <=> n >= 4
      /\ Before("consumer", n, "preflight") <=> n >= 5
      /\ Before("consumer", n, "pack") <=> n >= 6
      /\ Before("consumer", n, "block_sanitize") <=> n >= 7
      /\ Before("consumer", n, "gather") <=> n >= 8
      /\ ~Before("consumer", n, "walls")
      /\ ~Before("consumer", n, "scatter")
      /\ Before("consumer", n, "sanitize") <=> n >= 9
      /\ Before("consumer", n, "vector_sanitize") <=> n >= 10
      /\ ~Before("consumer", n, "recompact")
      /\ ~Before("consumer", n, "convert")
      /\ Before("consumer", n, "publish") <=> n >= 12
      /\ Before("consumer", n, "terminal") <=> n >= 11
  BY <1>4
<1>7. n < 12 => OrderAt("consumer", n, Program["consumer"][n + 1])
  BY <1>1, <1>3, <1>5, <1>6, SMTT(30) DEF OrderAt, AllOf, NoneOf, Closing
<1>8. n = 12 => Whole("consumer", n)
  BY <1>6 DEF Whole, AllOf
<1> QED BY <1>2, <1>7, <1>8 DEF OrderOf

LEMMA BasicOrder ==
  ASSUME NEW n \in Nat, n <= Len(Program["basic"])
  PROVE  OrderOf("basic", n)
<1> DEFINE P == <<"discover", "zero", "penetrate", "init", "walls", "block_sanitize",
                "gather", "scatter", "sanitize", "publish", "terminal">>
<1>1. Program["basic"] = P BY DEF Program, KnownRoutes
<1>2. n \in 0..11 /\ Len(Program["basic"]) = 11 BY <1>1
<1>3. /\ P[1] = "discover" /\ P[2] = "zero" /\ P[3] = "penetrate"
      /\ P[4] = "init" /\ P[5] = "walls" /\ P[6] = "block_sanitize"
      /\ P[7] = "gather" /\ P[8] = "scatter" /\ P[9] = "sanitize"
      /\ P[10] = "publish" /\ P[11] = "terminal"
  OBVIOUS
<1> HIDE DEF P
<1>4. ASSUME NEW k
      PROVE  Before("basic", n, k) <=>
               \/ (k = "discover" /\ n >= 1) \/ (k = "zero" /\ n >= 2)
               \/ (k = "penetrate" /\ n >= 3) \/ (k = "init" /\ n >= 4)
               \/ (k = "walls" /\ n >= 5) \/ (k = "block_sanitize" /\ n >= 6)
               \/ (k = "gather" /\ n >= 7) \/ (k = "scatter" /\ n >= 8)
               \/ (k = "sanitize" /\ n >= 9) \/ (k = "publish" /\ n >= 10)
               \/ (k = "terminal" /\ n >= 11)
  <2>1. ASSUME NEW i \in 1..n
        PROVE  \/ i = 1 \/ i = 2 \/ i = 3 \/ i = 4 \/ i = 5 \/ i = 6 \/ i = 7
             \/ i = 8 \/ i = 9 \/ i = 10 \/ i = 11
    BY <1>2
  <2>2. \A i \in 1..n : P[i] = k <=> Program["basic"][i] = k BY <1>1
  <2> QED BY <2>1, <2>2, <1>2, <1>3, SMTT(20) DEF Before
<1>5. \/ (n = 0 /\ P[n + 1] = "discover") \/ (n = 1 /\ P[n + 1] = "zero")
      \/ (n = 2 /\ P[n + 1] = "penetrate") \/ (n = 3 /\ P[n + 1] = "init")
      \/ (n = 4 /\ P[n + 1] = "walls") \/ (n = 5 /\ P[n + 1] = "block_sanitize")
      \/ (n = 6 /\ P[n + 1] = "gather") \/ (n = 7 /\ P[n + 1] = "scatter")
      \/ (n = 8 /\ P[n + 1] = "sanitize") \/ (n = 9 /\ P[n + 1] = "publish")
      \/ (n = 10 /\ P[n + 1] = "terminal")
      \/ n = 11
  BY <1>2, <1>3
<1>6. /\ Before("basic", n, "zero") <=> n >= 2
      /\ Before("basic", n, "discover") <=> n >= 1
      /\ Before("basic", n, "penetrate") <=> n >= 3
      /\ Before("basic", n, "init") <=> n >= 4
      /\ ~Before("basic", n, "preflight")
      /\ ~Before("basic", n, "pack")
      /\ Before("basic", n, "block_sanitize") <=> n >= 6
      /\ Before("basic", n, "gather") <=> n >= 7
      /\ Before("basic", n, "walls") <=> n >= 5
      /\ Before("basic", n, "scatter") <=> n >= 8
      /\ Before("basic", n, "sanitize") <=> n >= 9
      /\ ~Before("basic", n, "vector_sanitize")
      /\ ~Before("basic", n, "recompact")
      /\ ~Before("basic", n, "convert")
      /\ Before("basic", n, "publish") <=> n >= 10
      /\ Before("basic", n, "terminal") <=> n >= 11
  BY <1>4
<1>7. n < 11 => OrderAt("basic", n, Program["basic"][n + 1])
  BY <1>1, <1>3, <1>5, <1>6, SMTT(30) DEF OrderAt, AllOf, NoneOf, Closing
<1>8. n = 11 => Whole("basic", n)
  BY <1>6 DEF Whole, AllOf
<1> QED BY <1>2, <1>7, <1>8 DEF OrderOf

\* The same for whichever route a solve takes.
LEMMA Order ==
  ASSUME NEW r \in KnownRoutes, NEW n \in Nat, n <= Len(Program[r])
  PROVE  OrderOf(r, n)
  BY OracleOrder, PathOrder, PathScatteringOrder, DeterministicOrder, ConsumerOrder, BasicOrder
     DEF KnownRoutes

LEMMA Lengths ==
  \A r \in KnownRoutes : Len(Program[r]) \in Nat
<1>1. /\ Len(Program["oracle"]) \in Nat /\ Len(Program["path"]) \in Nat
      /\ Len(Program["path_scattering"]) \in Nat /\ Len(Program["deterministic"]) \in Nat
      /\ Len(Program["consumer"]) \in Nat /\ Len(Program["basic"]) \in Nat
  BY DEF Program, KnownRoutes
<1> QED BY <1>1 DEF KnownRoutes

-----------------------------------------------------------------------------

\* Kernel k has completed, is being executed or comes next.
Done(k) == Before(route, retired, k)
At(k) == retired < Len(Program[route]) /\ Program[route][retired + 1] = k

\* The word: set only by a fault, and by every fault some thread has handled.
WordInv ==
  /\ boundary => failed
  /\ Done("zero") /\ failed => Faulty # {}
  /\ ~Done("penetrate") => Faulty = {}
  /\ Done("penetrate") => \A r \in Rows : hits[r] = "overflow" => failed
  /\ At("preflight") \/ At("walls") => \A r \in Faulty \ pending : failed
  /\ Done("preflight") \/ Done("walls") => (Faulty # {} => failed)

\* The block: exact while the word is clear, inert after the sanitizer.
BlockInv ==
  /\ Done("init") => block \subseteq Penetrated
  /\ At("preflight") => block = {}
  /\ At("pack") /\ ~failed => block = Penetrated \ pending
  /\ At("walls") /\ ~failed => Penetrated \ pending \subseteq block
  /\ (Done("pack") \/ Done("walls")) /\ ~failed => block = Penetrated
  /\ Done("block_sanitize") => Done("pack") \/ Done("walls")
  /\ Done("block_sanitize") /\ failed => block = {}

\* The counts, likewise.
CountInv ==
  /\ At("preflight") => candidates = 0 /\ guardrails = 0
  /\ At("pack") /\ ~failed => /\ candidates = Cardinality((Penetrated \cup Opaque) \ pending)
                              /\ guardrails = Cardinality(Opaque \ pending)
  /\ Done("pack") /\ ~failed => /\ candidates = Cardinality(Penetrated \cup Opaque)
                                /\ guardrails = Cardinality(Opaque)
  /\ Done("block_sanitize") /\ failed => candidates = 0 /\ guardrails = 0

\* The evaluated paths and what is published from them.
PathInv ==
  /\ route = "basic" => Vector \notin live
  /\ ~Done("gather") => live = found
  /\ Done("gather") /\ ~failed => live = found \cup Penetrated
  /\ ~failed \/ ~Done("sanitize") => slots = live \ {Vector}
  /\ Done("sanitize") /\ failed => live \subseteq {Vector}
  /\ Done("vector_sanitize") /\ failed => Vector \notin live
  /\ Done("recompact") => slots \subseteq live
  /\ Done("publish") \/ Done("convert") => result = live

\* The trap, and what the host and the caller may conclude.
TrapInv ==
  /\ trapped => failed /\ (At("terminal") \/ (At("convert") /\ route = "path"))
  /\ Done("terminal") => ~failed
  /\ status = "returned" => launched = Len(Program[route])
  /\ answer = "result" => ~trapped /\ status = "returned" /\ retired = Len(Program[route])
  /\ answer = "error" => trapped \/ status = "raised"

IInv == TypeOK /\ WordInv /\ BlockInv /\ CountInv /\ PathInv /\ TrapInv
----------------------------------------------------------------------------
\* The routes of a solve have a program of finite length.
LEMMA RouteKnown ==
  ASSUME TypeOK
  PROVE  /\ route \in KnownRoutes
         /\ Len(Program[route]) \in Nat
         /\ retired \in Nat /\ launched \in Nat /\ retired <= Len(Program[route])
  BY RoutesAssumption, Lengths DEF TypeOK

\* What a kernel finds when it runs.
LEMMA Reached ==
  ASSUME TypeOK, NEW k, Running(k)
  PROVE  /\ At(k) /\ ~trapped /\ retired < launched
         /\ OrderAt(route, retired, k)
  BY RouteKnown, Order DEF Running, At, OrderOf, TypeOK

\* A completed kernel joins those before it; the next one, if its data depend
\* on its immediate predecessor, follows that one.
LEMMA Advance ==
  ASSUME TypeOK, NEW k, Running(k), Retire, route' = route
  PROVE  /\ \A x : Before(route', retired', x) <=> Before(route, retired, x) \/ x = k
         /\ retired' \in 0..launched /\ pending' = Rows /\ boundary' = failed'
         /\ At("preflight")' => k = "init"
         /\ At("walls")' => k = "init"
         /\ At("pack")' => k = "preflight"
<1>1. /\ route \in KnownRoutes /\ retired \in Nat /\ Len(Program[route]) \in Nat
      /\ retired < launched /\ launched <= Len(Program[route]) /\ launched \in Nat
      /\ Program[route][retired + 1] = k
  BY RouteKnown DEF Running, TypeOK
<1>2. retired' = retired + 1 BY DEF Retire
<1>3. \A x : Before(route', retired', x) <=> Before(route, retired, x) \/ x = k
  <2>1. \A i : i \in 1..(retired + 1) <=> i \in 1..retired \/ i = retired + 1
    BY <1>1
  <2> QED BY <1>1, <1>2, <2>1 DEF Before
<1>4. retired + 1 < Len(Program[route]) =>
        OrderAt(route, retired + 1, Program[route][(retired + 1) + 1])
  BY <1>1, Order DEF OrderOf
<1>5. /\ At("preflight")' => k = "init"
      /\ At("walls")' => k = "init"
      /\ At("pack")' => k = "preflight"
  BY <1>1, <1>2, <1>4 DEF At, OrderAt
<1> QED BY <1>1, <1>2, <1>3, <1>5 DEF Retire

----------------------------------------------------------------------------
\* Counting one more row of S, or none.
LEMMA CountOne ==
  ASSUME NEW S \in SUBSET Rows, NEW P \in SUBSET Rows, NEW r \in P
  PROVE  /\ Cardinality(S \ P) \in 0..Cardinality(Rows)
         /\ Cardinality(S \ (P \ {r})) \in 0..Cardinality(Rows)
         /\ Cardinality(S \ (P \ {r})) = Cardinality(S \ P) + (IF r \in S THEN 1 ELSE 0)
<1>1. \A T \in SUBSET Rows : IsFiniteSet(T) /\ Cardinality(T) \in 0..Cardinality(Rows)
  BY RowsAssumption, FS_Subset, FS_CardinalityType
<1>2. S \ P \in SUBSET Rows /\ S \ (P \ {r}) \in SUBSET Rows OBVIOUS
<1>3. /\ IsFiniteSet(S \ P)
      /\ Cardinality(S \ P) \in 0..Cardinality(Rows)
      /\ Cardinality(S \ (P \ {r})) \in 0..Cardinality(Rows)
  BY <1>1, <1>2
<1>4. CASE r \in S
  <2>1. S \ (P \ {r}) = (S \ P) \cup {r} /\ r \notin S \ P BY <1>4
  <2>2. Cardinality((S \ P) \cup {r}) = Cardinality(S \ P) + 1 BY <1>3, <2>1, FS_AddElement
  <2> QED BY <1>3, <1>4, <2>1, <2>2
<1>5. CASE r \notin S
  <2>1. S \ (P \ {r}) = S \ P BY <1>5
  <2> QED BY <1>3, <1>5, <2>1
<1> QED BY <1>4, <1>5

\* What PackRow adds to the counts.
LEMMA PackCounts ==
  ASSUME TypeOK, CountInv, PackRow, ~failed
  PROVE  /\ candidates' \in 0..Cardinality(Rows) /\ guardrails' \in 0..Cardinality(Rows)
         /\ candidates' = Cardinality((Penetrated \cup Opaque) \ pending')
         /\ guardrails' = Cardinality(Opaque \ pending')
<1>1. At("pack") BY Reached DEF PackRow
<1>2. Opaque \in SUBSET Rows /\ Penetrated \cup Opaque \in SUBSET Rows /\ pending \in SUBSET Rows
  BY DEF Penetrated, Opaque, TypeOK
<1>3. PICK r \in pending :
        /\ pending' = pending \ {r}
        /\ candidates' = candidates + (IF r \in Penetrated \cup Opaque THEN 1 ELSE 0)
        /\ guardrails' = guardrails + (IF r \in Opaque THEN 1 ELSE 0)
  BY DEF PackRow
<1>4. /\ candidates = Cardinality((Penetrated \cup Opaque) \ pending)
      /\ guardrails = Cardinality(Opaque \ pending)
  BY <1>1 DEF CountInv
<1>5. /\ Cardinality((Penetrated \cup Opaque) \ (pending \ {r})) \in 0..Cardinality(Rows)
      /\ Cardinality((Penetrated \cup Opaque) \ (pending \ {r})) =
           Cardinality((Penetrated \cup Opaque) \ pending)
             + (IF r \in Penetrated \cup Opaque THEN 1 ELSE 0)
  BY <1>2, CountOne
<1>6. /\ Cardinality(Opaque \ (pending \ {r})) \in 0..Cardinality(Rows)
      /\ Cardinality(Opaque \ (pending \ {r})) =
           Cardinality(Opaque \ pending) + (IF r \in Opaque THEN 1 ELSE 0)
  BY <1>2, CountOne
<1> QED BY <1>3, <1>4, <1>5, <1>6

\* Everything a step leaves alone keeps its type; the counts are the case that
\* needs CountInv.
LEMMA TypeStep ==
  ASSUME TypeOK, CountInv, [Next]_vars
  PROVE  TypeOK'
<1> USE DEF hostVars, wordVars, blockVars, pathVars
<1>1. CASE HostLaunch BY <1>1, RouteKnown DEF HostLaunch, TypeOK
<1>2. CASE HostHears \/ HostFails \/ HostReturns
  BY <1>2 DEF HostHears, HostFails, HostReturns, TypeOK
<1>3. CASE CallerReads BY <1>3 DEF CallerReads, TypeOK
<1>4. CASE Zero BY <1>4, Advance DEF Zero, ZeroWord, TypeOK
<1>5. CASE Discover
  <2>1. found' \subseteq Payload /\ live' \subseteq Payload /\ slots' \subseteq Payload
    BY <1>5 DEF Discover, Payload, OtherRows
  <2> QED BY <1>5, <2>1, Advance DEF Discover, TypeOK
<1>6. CASE Penetrate
  <2>1. failed' \in BOOLEAN BY <1>6 DEF Penetrate, TypeOK
  <2> QED BY <1>6, <2>1, Advance DEF Penetrate, TypeOK
<1>7. CASE Blank
  <2>1. 0 \in 0..Cardinality(Rows) BY RowsAssumption, FS_CardinalityType
  <2> QED BY <1>7, <2>1, Advance DEF Blank, BlankBlock, TypeOK
<1>8. CASE PreflightRow
  <2>1. failed' \in BOOLEAN BY <1>8 DEF PreflightRow, MayStop, Reported, TypeOK
  <2> QED BY <1>8, <2>1 DEF PreflightRow, TypeOK
<1>9. CASE PackRow
  <2>1. /\ candidates' \in 0..Cardinality(Rows) /\ guardrails' \in 0..Cardinality(Rows)
        /\ block' \subseteq Rows /\ pending' \subseteq Rows
    <3>1. CASE failed BY <1>9, <3>1 DEF PackRow, TypeOK
    <3>2. CASE ~failed BY <1>9, <3>2, PackCounts DEF PackRow, TypeOK
    <3> QED BY <3>1, <3>2
  <2> QED BY <1>9, <2>1 DEF PackRow, TypeOK
<1>10. CASE WallRow
  <2>1. failed' \in BOOLEAN /\ block' \subseteq Rows BY <1>10 DEF WallRow, TypeOK
  <2> QED BY <1>10, <2>1 DEF WallRow, TypeOK
<1>11. CASE RowsHandled BY <1>11, Advance DEF RowsHandled, TypeOK
<1>12. CASE BlockSanitize
  <2>1. 0 \in 0..Cardinality(Rows) BY RowsAssumption, FS_CardinalityType
  <2> QED BY <1>12, <2>1, Advance DEF BlockSanitize, SanitizeBlock, BlankBlock, TypeOK
<1>13. CASE Gather
  <2>1. block \subseteq Payload BY DEF TypeOK, Payload
  <2> QED BY <1>13, <2>1, Advance DEF Gather, TypeOK
<1>14. CASE Scatter
  <2>1. found' \subseteq Payload /\ live' \subseteq Payload /\ slots' \subseteq Payload
    BY <1>14 DEF Scatter, TypeOK, Payload, OtherRows
  <2> QED BY <1>14, <2>1, Advance DEF Scatter, TypeOK
<1>15. CASE Sanitize BY <1>15, Advance DEF Sanitize, Sanitized, TypeOK
<1>16. CASE VectorSanitize BY <1>16, Advance DEF VectorSanitize, Sanitized, TypeOK
<1>17. CASE Recompact BY <1>17, Advance DEF Recompact, Compacted, TypeOK
<1>18. CASE Convert BY <1>18, Advance DEF Convert, TypeOK
<1>19. CASE Publish BY <1>19, Advance DEF Publish, TypeOK
<1>20. CASE Terminal BY <1>20, Advance DEF Terminal, TypeOK
<1>21. CASE UNCHANGED vars BY <1>21 DEF vars, TypeOK
<1> QED
  BY <1>1, <1>2, <1>3, <1>4, <1>5, <1>6, <1>7, <1>8, <1>9, <1>10, <1>11, <1>12, <1>13, <1>14,
     <1>15, <1>16, <1>17, <1>18, <1>19, <1>20, <1>21
     DEF Next, Host, Device, Idle

----------------------------------------------------------------------------
\* A kernel that leaves the word and what it judges alone keeps WordInv.
LEMMA WordRetire ==
  ASSUME TypeOK, WordInv, NEW k, Running(k), Retire,
         UNCHANGED <<route, hits, failed>>, k \notin {"zero", "penetrate"},
         k \in {"preflight", "walls"} => pending = {}
  PROVE  WordInv'
<1>1. /\ \A x : Before(route', retired', x) <=> Before(route, retired, x) \/ x = k
      /\ pending' = Rows /\ boundary' = failed'
  BY Advance
<1>2. Faulty' = Faulty /\ Faulty \subseteq Rows BY DEF Faulty
<1>3. At(k) BY Reached
<1>4. (Done("preflight") \/ Done("walls") => (Faulty # {} => failed))'
  BY <1>1, <1>2, <1>3 DEF WordInv, Done
<1> QED BY <1>1, <1>2, <1>4 DEF WordInv, Done

LEMMA WordStep ==
  ASSUME TypeOK, WordInv, [Next]_vars
  PROVE  WordInv'
<1> USE DEF hostVars, wordVars, blockVars, pathVars
<1>1. CASE Zero
  <2>1. Running("zero") /\ Retire /\ UNCHANGED <<route, hits>> /\ ~failed'
    BY <1>1 DEF Zero, ZeroWord
  <2>2. /\ \A x : Before(route', retired', x) <=> Before(route, retired, x) \/ x = "zero"
        /\ pending' = Rows /\ boundary' = failed'
    BY <2>1, Advance
  <2>3. ~Done("penetrate") /\ ~Done("preflight") /\ ~Done("walls")
    BY <2>1, Reached DEF OrderAt, NoneOf, Done
  <2>4. Faulty' = Faulty /\ Faulty \subseteq Rows BY <2>1 DEF Faulty
  <2> QED BY <2>1, <2>2, <2>3, <2>4 DEF WordInv, Done
<1>2. CASE Penetrate
  <2>1. Running("penetrate") /\ Retire /\ route' = route BY <1>2 DEF Penetrate
  <2>2. /\ \A x : Before(route', retired', x) <=> Before(route, retired, x) \/ x = "penetrate"
        /\ pending' = Rows /\ boundary' = failed'
    BY <2>1, Advance
  <2>3. Done("zero") /\ ~Done("penetrate") /\ ~Done("preflight") /\ ~Done("walls")
    BY <2>1, Reached DEF OrderAt, AllOf, NoneOf, Done
  <2>4. ~failed BY <2>3 DEF WordInv
  <2>5. failed' = \E r \in Rows : hits'[r] = "overflow" BY <1>2, <2>4 DEF Penetrate
  <2>6. Faulty' = {r \in Rows : hits'[r] \in Faults} BY DEF Faulty
  <2>7. (failed => Faulty # {})' BY <2>5, <2>6 DEF Faults
  <2>8. (\A r \in Rows : hits[r] = "overflow" => failed)' BY <2>5
  <2>9. Faulty' \ pending' = {} BY <2>2, <2>6
  <2> QED BY <2>2, <2>3, <2>7, <2>8, <2>9 DEF WordInv, Done
<1>3. CASE PreflightRow
  <2>1. Running("preflight") /\ UNCHANGED <<route, retired, boundary, hits>>
    BY <1>3 DEF PreflightRow
  <2>2. Done("zero") /\ Done("penetrate") /\ At("preflight")
    BY <2>1, Reached DEF OrderAt, AllOf, Done
  <2>3. PICK r \in pending :
          /\ pending' = pending \ {r}
          /\ \/ failed /\ failed' = failed
             \/ failed' = (failed \/ Reported(r))
    BY <1>3 DEF PreflightRow, MayStop
  <2>4. r \in Rows /\ (Reported(r) <=> r \in Faulty) BY <2>3 DEF Reported, Faulty, TypeOK
  <2>5. Faulty' = Faulty BY <2>1 DEF Faulty
  <2>6. failed => failed' BY <2>3
  <2>7. failed' => Faulty # {} BY <2>2, <2>3, <2>4 DEF WordInv
  <2>8. \A q \in Faulty' \ pending' : failed' BY <2>2, <2>3, <2>4, <2>5 DEF WordInv
  <2> QED BY <2>1, <2>2, <2>5, <2>6, <2>7, <2>8 DEF WordInv, Done
<1>4. CASE WallRow
  <2>1. Running("walls") /\ UNCHANGED <<route, retired, boundary, hits>>
    BY <1>4 DEF WallRow
  <2>2. Done("zero") /\ Done("penetrate") /\ At("walls")
    BY <2>1, Reached DEF OrderAt, AllOf, Done
  <2>3. PICK r \in pending :
          /\ pending' = pending \ {r}
          /\ \/ failed /\ failed' = failed
             \/ failed' = (failed \/ hits[r] \in {"malformed", "stray"})
    BY <1>4 DEF WallRow, MayStop
  <2>4. r \in Rows /\ (hits[r] \in {"malformed", "stray"} => r \in Faulty)
    BY <2>3 DEF Faulty, Faults, TypeOK
  <2>5. r \in Faulty => failed \/ hits[r] \in {"malformed", "stray"}
    BY <2>2 DEF Faulty, Faults, WordInv
  <2>6. Faulty' = Faulty BY <2>1 DEF Faulty
  <2>7. failed => failed' BY <2>3
  <2>8. failed' => Faulty # {} BY <2>2, <2>3, <2>4 DEF WordInv
  <2>9. \A q \in Faulty' \ pending' : failed' BY <2>2, <2>3, <2>5, <2>6 DEF WordInv
  <2> QED BY <2>1, <2>2, <2>6, <2>7, <2>8, <2>9 DEF WordInv, Done
<1>5. CASE PackRow
  <2>1. At("pack") /\ UNCHANGED <<route, retired, boundary, hits, failed>>
    BY <1>5, Reached DEF PackRow
  <2>2. ~At("preflight")' /\ ~At("walls")' BY <2>1 DEF At
  <2>3. Faulty' = Faulty BY <2>1 DEF Faulty
  <2> QED BY <2>1, <2>2, <2>3 DEF WordInv, Done
<1>6. CASE RowsHandled
  <2>1. PICK k \in {"preflight", "pack", "walls"} : Running(k) BY <1>6 DEF RowsHandled
  <2> QED BY <1>6, <2>1, WordRetire DEF RowsHandled
<1>7. CASE Discover BY <1>7, WordRetire DEF Discover
<1>8. CASE Blank BY <1>8, WordRetire DEF Blank, BlankBlock
<1>9. CASE BlockSanitize BY <1>9, WordRetire DEF BlockSanitize
<1>10. CASE Gather BY <1>10, WordRetire DEF Gather
<1>11. CASE Scatter BY <1>11, WordRetire DEF Scatter
<1>12. CASE Sanitize BY <1>12, WordRetire DEF Sanitize
<1>13. CASE VectorSanitize BY <1>13, WordRetire DEF VectorSanitize
<1>14. CASE Recompact BY <1>14, WordRetire DEF Recompact
<1>15. CASE Publish BY <1>15, WordRetire DEF Publish
<1>16. CASE UNCHANGED <<route, retired, pending, boundary, failed, hits>>
  BY <1>16 DEF WordInv, Done, At, Faulty
<1>17. CASE Convert
  <2>1. CASE Retire BY <1>17, <2>1, WordRetire DEF Convert
  <2>2. CASE ~Retire BY <1>17, <2>2, <1>16 DEF Convert
  <2> QED BY <2>1, <2>2
<1>18. CASE Terminal
  <2>1. CASE Retire BY <1>18, <2>1, WordRetire DEF Terminal
  <2>2. CASE ~Retire BY <1>18, <2>2, <1>16 DEF Terminal
  <2> QED BY <2>1, <2>2
<1>19. CASE Host \/ HostFails \/ CallerReads \/ UNCHANGED vars
  BY <1>16, <1>19 DEF Host, HostLaunch, HostHears, HostFails, HostReturns, CallerReads, vars
<1> QED
  BY <1>1, <1>2, <1>3, <1>4, <1>5, <1>6, <1>7, <1>8, <1>9, <1>10, <1>11, <1>12, <1>13, <1>14,
     <1>15, <1>17, <1>18, <1>19
     DEF Next, Device, Idle

----------------------------------------------------------------------------
\* A kernel that is not part of the topology pack keeps BlockInv.
LEMMA BlockRetire ==
  ASSUME TypeOK, BlockInv, NEW k, Running(k), Retire, UNCHANGED <<route, hits, failed, block>>,
         k \notin {"init", "preflight", "pack", "walls", "block_sanitize"}
  PROVE  BlockInv'
<1>1. \A x : Before(route', retired', x) <=> Before(route, retired, x) \/ x = k
  BY Advance
<1>2. ~At("preflight")' /\ ~At("pack")' /\ ~At("walls")' BY Advance
<1>3. Penetrated' = Penetrated BY DEF Penetrated
<1> QED BY <1>1, <1>2, <1>3 DEF BlockInv, Done

\* Before the rows are initialized there is nothing to say.
LEMMA BlockEarly ==
  ASSUME TypeOK, NEW k \in {"zero", "penetrate"}, Running(k), Retire, route' = route
  PROVE  BlockInv' /\ CountInv'
<1>1. \A x : Before(route', retired', x) <=> Before(route, retired, x) \/ x = k
  BY Advance
<1>2. ~At("preflight")' /\ ~At("pack")' /\ ~At("walls")' BY Advance
<1>3. ~Done("init") /\ ~Done("pack") /\ ~Done("walls") /\ ~Done("block_sanitize")
  BY Reached DEF OrderAt, NoneOf, Done
<1> QED BY <1>1, <1>2, <1>3 DEF BlockInv, CountInv, Done

LEMMA BlockStep ==
  ASSUME TypeOK, BlockInv, [Next]_vars
  PROVE  BlockInv'
<1> USE DEF hostVars, wordVars, blockVars, pathVars
<1>1. CASE Zero BY <1>1, BlockEarly DEF Zero
<1>2. CASE Penetrate BY <1>2, BlockEarly DEF Penetrate
<1>3. CASE Blank
  <2>1. Running("init") /\ Retire /\ route' = route /\ block' = {}
    BY <1>3 DEF Blank, BlankBlock
  <2>2. /\ \A x : Before(route', retired', x) <=> Before(route, retired, x) \/ x = "init"
        /\ pending' = Rows /\ ~At("pack")'
    BY <2>1, Advance
  <2>3. ~Done("pack") /\ ~Done("walls") /\ ~Done("block_sanitize")
    BY <2>1, Reached DEF OrderAt, NoneOf, Done
  <2>4. (Penetrated \ pending)' = {} BY <2>2 DEF Penetrated
  <2> QED BY <2>1, <2>2, <2>3, <2>4 DEF BlockInv, Done
<1>4. CASE PreflightRow
  <2>1. Running("preflight") /\ UNCHANGED <<route, retired, hits, block>>
    BY <1>4 DEF PreflightRow
  <2>2. /\ At("preflight") /\ ~Done("pack") /\ ~Done("walls") /\ ~Done("block_sanitize")
    BY <2>1, Reached DEF OrderAt, NoneOf, Done
  <2>3. ~At("pack")' /\ ~At("walls")' /\ (At("preflight")' <=> At("preflight"))
    BY <2>1, <2>2 DEF At
  <2>4. Penetrated' = Penetrated BY <2>1 DEF Penetrated
  <2> QED BY <2>1, <2>2, <2>3, <2>4 DEF BlockInv, Done
<1>5. CASE PackRow
  <2>1. Running("pack") /\ UNCHANGED <<route, retired, hits, failed>> BY <1>5 DEF PackRow
  <2>2. At("pack") /\ Done("init") /\ ~Done("pack") /\ ~Done("walls") /\ ~Done("block_sanitize")
    BY <2>1, Reached DEF OrderAt, AllOf, NoneOf, Done
  <2>3. ~At("preflight")' /\ ~At("walls")' BY <2>1, <2>2 DEF At
  <2>4. Penetrated' = Penetrated BY <2>1 DEF Penetrated
  <2>5. PICK r \in pending :
          /\ pending' = pending \ {r}
          /\ block' = IF failed THEN block ELSE block \cup ({r} \cap Penetrated)
    BY <1>5 DEF PackRow
  <2>6. block' \subseteq Penetrated BY <2>2, <2>5 DEF BlockInv
  <2>7. ~failed => block' = Penetrated \ pending' BY <2>2, <2>5 DEF BlockInv
  <2> QED BY <2>1, <2>2, <2>3, <2>4, <2>6, <2>7 DEF BlockInv, Done
<1>6. CASE WallRow
  <2>1. Running("walls") /\ UNCHANGED <<route, retired, hits>> BY <1>6 DEF WallRow
  <2>2. At("walls") /\ Done("init") /\ ~Done("pack") /\ ~Done("walls") /\ ~Done("block_sanitize")
    BY <2>1, Reached DEF OrderAt, AllOf, NoneOf, Done
  <2>3. ~At("preflight")' /\ ~At("pack")' BY <2>1, <2>2 DEF At
  <2>4. Penetrated' = Penetrated BY <2>1 DEF Penetrated
  <2>5. PICK r \in pending :
          /\ pending' = pending \ {r}
          /\ \/ failed /\ UNCHANGED <<failed, block>>
             \/ /\ failed => failed'
                /\ block' = block \cup ({r} \cap Penetrated)
    BY <1>6 DEF WallRow, MayStop
  <2>6. block' \subseteq Penetrated BY <2>2, <2>5 DEF BlockInv
  <2>7. ~failed' => Penetrated \ pending' \subseteq block' BY <2>2, <2>5 DEF BlockInv
  <2> QED BY <2>1, <2>2, <2>3, <2>4, <2>6, <2>7 DEF BlockInv, Done
<1>7. CASE RowsHandled
  <2>1. PICK k \in {"preflight", "pack", "walls"} : Running(k) BY <1>7 DEF RowsHandled
  <2>2. Retire /\ UNCHANGED <<route, hits, failed, block>> /\ pending = {}
    BY <1>7 DEF RowsHandled
  <2>3. /\ \A x : Before(route', retired', x) <=> Before(route, retired, x) \/ x = k
        /\ pending' = Rows /\ ~At("preflight")' /\ ~At("walls")'
        /\ At("pack")' => k = "preflight"
    BY <2>1, <2>2, Advance
  <2>4. At(k) /\ Done("init") /\ ~Done("block_sanitize") /\ ~Done("pack") /\ ~Done("walls")
    BY <2>1, Reached DEF OrderAt, AllOf, NoneOf, Done
  <2>5. Penetrated' = Penetrated /\ Penetrated \subseteq Rows BY <2>2 DEF Penetrated
  <2>6. k \in {"pack", "walls"} /\ ~failed => block = Penetrated
    BY <2>2, <2>4 DEF BlockInv
  <2>7. k = "preflight" => block = {} BY <2>4 DEF BlockInv
  <2> QED BY <2>1, <2>2, <2>3, <2>4, <2>5, <2>6, <2>7 DEF BlockInv, Done
<1>8. CASE BlockSanitize
  <2>1. /\ Running("block_sanitize") /\ Retire /\ UNCHANGED <<route, hits, failed>>
        /\ block' = IF failed THEN {} ELSE block
    BY <1>8 DEF BlockSanitize, SanitizeBlock, BlankBlock
  <2>2. /\ \A x : Before(route', retired', x) <=> Before(route, retired, x) \/ x = "block_sanitize"
        /\ ~At("preflight")' /\ ~At("walls")' /\ ~At("pack")'
    BY <2>1, Advance
  <2>3. Done("pack") \/ Done("walls") BY <2>1, Reached DEF OrderAt, Done
  <2>4. Penetrated' = Penetrated BY <2>1 DEF Penetrated
  <2> QED BY <2>1, <2>2, <2>3, <2>4 DEF BlockInv, Done
<1>9. CASE Discover BY <1>9, BlockRetire DEF Discover
<1>10. CASE Gather BY <1>10, BlockRetire DEF Gather
<1>11. CASE Scatter BY <1>11, BlockRetire DEF Scatter
<1>12. CASE Sanitize BY <1>12, BlockRetire DEF Sanitize
<1>13. CASE VectorSanitize BY <1>13, BlockRetire DEF VectorSanitize
<1>14. CASE Recompact BY <1>14, BlockRetire DEF Recompact
<1>15. CASE Publish BY <1>15, BlockRetire DEF Publish
<1>16. CASE UNCHANGED <<route, retired, pending, failed, hits, block>>
  BY <1>16 DEF BlockInv, Done, At, Penetrated
<1>17. CASE Convert
  <2>1. CASE Retire BY <1>17, <2>1, BlockRetire DEF Convert
  <2>2. CASE ~Retire BY <1>17, <2>2, <1>16 DEF Convert
  <2> QED BY <2>1, <2>2
<1>18. CASE Terminal
  <2>1. CASE Retire BY <1>18, <2>1, BlockRetire DEF Terminal
  <2>2. CASE ~Retire BY <1>18, <2>2, <1>16 DEF Terminal
  <2> QED BY <2>1, <2>2
<1>19. CASE Host \/ HostFails \/ CallerReads \/ UNCHANGED vars
  BY <1>16, <1>19 DEF Host, HostLaunch, HostHears, HostFails, HostReturns, CallerReads, vars
<1> QED
  BY <1>1, <1>2, <1>3, <1>4, <1>5, <1>6, <1>7, <1>8, <1>9, <1>10, <1>11, <1>12, <1>13, <1>14,
     <1>15, <1>17, <1>18, <1>19
     DEF Next, Device, Idle


----------------------------------------------------------------------------
\* A kernel that neither counts nor resets the counts keeps CountInv.
LEMMA CountRetire ==
  ASSUME TypeOK, CountInv, NEW k, Running(k), Retire,
         UNCHANGED <<route, hits, failed, candidates, guardrails>>,
         k \notin {"init", "preflight", "pack", "block_sanitize"}
  PROVE  CountInv'
<1>1. \A x : Before(route', retired', x) <=> Before(route, retired, x) \/ x = k
  BY Advance
<1>2. ~At("preflight")' /\ ~At("pack")' BY Advance
<1>3. Penetrated' = Penetrated /\ Opaque' = Opaque BY DEF Penetrated, Opaque
<1> QED BY <1>1, <1>2, <1>3 DEF CountInv, Done

LEMMA CountStep ==
  ASSUME TypeOK, CountInv, [Next]_vars
  PROVE  CountInv'
<1> USE DEF hostVars, wordVars, blockVars, pathVars
<1>1. CASE Zero BY <1>1, BlockEarly DEF Zero
<1>2. CASE Penetrate BY <1>2, BlockEarly DEF Penetrate
<1>3. CASE Blank
  <2>1. Running("init") /\ Retire /\ route' = route /\ candidates' = 0 /\ guardrails' = 0
    BY <1>3 DEF Blank, BlankBlock
  <2>2. /\ \A x : Before(route', retired', x) <=> Before(route, retired, x) \/ x = "init"
        /\ ~At("pack")'
    BY <2>1, Advance
  <2>3. ~Done("pack") /\ ~Done("block_sanitize")
    BY <2>1, Reached DEF OrderAt, NoneOf, Done
  <2> QED BY <2>1, <2>2, <2>3 DEF CountInv, Done
<1>4. CASE PreflightRow
  <2>1. Running("preflight") /\ UNCHANGED <<route, retired, candidates, guardrails>>
    BY <1>4 DEF PreflightRow
  <2>2. At("preflight") /\ ~Done("pack") /\ ~Done("block_sanitize")
    BY <2>1, Reached DEF OrderAt, NoneOf, Done
  <2>3. ~At("pack")' BY <2>1, <2>2 DEF At
  <2> QED BY <2>1, <2>2, <2>3 DEF CountInv, Done
<1>5. CASE PackRow
  <2>1. Running("pack") /\ UNCHANGED <<route, retired, hits, failed>> BY <1>5 DEF PackRow
  <2>2. At("pack") /\ ~Done("pack") /\ ~Done("block_sanitize")
    BY <2>1, Reached DEF OrderAt, NoneOf, Done
  <2>3. ~At("preflight")' BY <2>1, <2>2 DEF At
  <2>4. Penetrated' = Penetrated /\ Opaque' = Opaque BY <2>1 DEF Penetrated, Opaque
  <2>5. ~failed' => /\ candidates' = Cardinality((Penetrated \cup Opaque) \ pending')
                    /\ guardrails' = Cardinality(Opaque \ pending')
    BY <1>5, <2>1, PackCounts
  <2> QED BY <2>1, <2>2, <2>3, <2>4, <2>5 DEF CountInv, Done
<1>6. CASE WallRow
  <2>1. Running("walls") /\ UNCHANGED <<route, retired>> BY <1>6 DEF WallRow
  <2>2. At("walls") /\ ~Done("pack") /\ ~Done("block_sanitize")
    BY <2>1, Reached DEF OrderAt, NoneOf, Done
  <2>3. ~At("preflight")' /\ ~At("pack")' BY <2>1, <2>2 DEF At
  <2> QED BY <2>1, <2>2, <2>3 DEF CountInv, Done
<1>7. CASE RowsHandled
  <2>1. PICK k \in {"preflight", "pack", "walls"} : Running(k) BY <1>7 DEF RowsHandled
  <2>2. Retire /\ UNCHANGED <<route, hits, failed, candidates, guardrails>> /\ pending = {}
    BY <1>7 DEF RowsHandled
  <2>3. /\ \A x : Before(route', retired', x) <=> Before(route, retired, x) \/ x = k
        /\ pending' = Rows /\ ~At("preflight")'
        /\ At("pack")' => k = "preflight"
    BY <2>1, <2>2, Advance
  <2>4. At(k) /\ ~Done("block_sanitize") /\ ~Done("pack")
    BY <2>1, Reached DEF OrderAt, NoneOf, Done
  <2>5. /\ Penetrated' = Penetrated /\ Opaque' = Opaque
        /\ Penetrated \subseteq Rows /\ Opaque \subseteq Rows
    BY <2>2 DEF Penetrated, Opaque
  <2>6. k = "pack" /\ ~failed => /\ candidates = Cardinality(Penetrated \cup Opaque)
                                 /\ guardrails = Cardinality(Opaque)
    <3>1. (Penetrated \cup Opaque) \ {} = Penetrated \cup Opaque /\ Opaque \ {} = Opaque
      OBVIOUS
    <3> QED BY <2>2, <2>4, <3>1 DEF CountInv
  <2>7. k = "preflight" => candidates = 0 /\ guardrails = 0 BY <2>4 DEF CountInv
  <2>8. At("pack")' => /\ candidates' = Cardinality((Penetrated' \cup Opaque') \ pending')
                       /\ guardrails' = Cardinality(Opaque' \ pending')
    <3>1. (Penetrated' \cup Opaque') \ pending' = {} /\ Opaque' \ pending' = {}
      BY <2>3, <2>5
    <3>2. Cardinality({}) = 0 BY FS_EmptySet
    <3> QED BY <2>2, <2>3, <2>7, <3>1, <3>2
  <2> QED BY <2>1, <2>2, <2>3, <2>4, <2>5, <2>6, <2>8 DEF CountInv, Done
<1>8. CASE BlockSanitize
  <2>1. /\ Running("block_sanitize") /\ Retire /\ UNCHANGED <<route, hits, failed>>
        /\ IF failed THEN candidates' = 0 /\ guardrails' = 0
                     ELSE UNCHANGED <<candidates, guardrails>>
    BY <1>8 DEF BlockSanitize, SanitizeBlock, BlankBlock
  <2>2. /\ \A x : Before(route', retired', x) <=> Before(route, retired, x) \/ x = "block_sanitize"
        /\ ~At("preflight")' /\ ~At("pack")'
    BY <2>1, Advance
  <2>3. Penetrated' = Penetrated /\ Opaque' = Opaque BY <2>1 DEF Penetrated, Opaque
  <2> QED BY <2>1, <2>2, <2>3 DEF CountInv, Done
<1>9. CASE Discover BY <1>9, CountRetire DEF Discover
<1>10. CASE Gather BY <1>10, CountRetire DEF Gather
<1>11. CASE Scatter BY <1>11, CountRetire DEF Scatter
<1>12. CASE Sanitize BY <1>12, CountRetire DEF Sanitize
<1>13. CASE VectorSanitize BY <1>13, CountRetire DEF VectorSanitize
<1>14. CASE Recompact BY <1>14, CountRetire DEF Recompact
<1>15. CASE Publish BY <1>15, CountRetire DEF Publish
<1>16. CASE UNCHANGED <<route, retired, pending, failed, hits, candidates, guardrails>>
  BY <1>16 DEF CountInv, Done, At, Penetrated, Opaque
<1>17. CASE Convert
  <2>1. CASE Retire BY <1>17, <2>1, CountRetire DEF Convert
  <2>2. CASE ~Retire BY <1>17, <2>2, <1>16 DEF Convert
  <2> QED BY <2>1, <2>2
<1>18. CASE Terminal
  <2>1. CASE Retire BY <1>18, <2>1, CountRetire DEF Terminal
  <2>2. CASE ~Retire BY <1>18, <2>2, <1>16 DEF Terminal
  <2> QED BY <2>1, <2>2
<1>19. CASE Host \/ HostFails \/ CallerReads \/ UNCHANGED vars
  BY <1>16, <1>19 DEF Host, HostLaunch, HostHears, HostFails, HostReturns, CallerReads, vars
<1> QED
  BY <1>1, <1>2, <1>3, <1>4, <1>5, <1>6, <1>7, <1>8, <1>9, <1>10, <1>11, <1>12, <1>13, <1>14,
     <1>15, <1>17, <1>18, <1>19
     DEF Next, Device, Idle

----------------------------------------------------------------------------
\* A payload that the sanitizers treat apart from rows is none of them.
LEMMA VectorApart == Vector \notin Rows /\ Vector \notin OtherRows
  BY RowsAssumption DEF Vector, OtherRows

\* A kernel that touches neither the paths nor the word keeps PathInv.
LEMMA PathRetire ==
  ASSUME TypeOK, PathInv, NEW k, Running(k), Retire,
         UNCHANGED <<route, hits, failed, found, slots, live, result>>,
         k \notin {"gather", "sanitize", "vector_sanitize", "recompact", "publish", "convert"}
  PROVE  PathInv'
<1>1. \A x : Before(route', retired', x) <=> Before(route, retired, x) \/ x = k
  BY Advance
<1>2. Penetrated' = Penetrated BY DEF Penetrated
<1> QED BY <1>1, <1>2 DEF PathInv, Done

\* Before the gather the word and the hits may change: they say nothing yet.
LEMMA PathEarly ==
  ASSUME PathInv, UNCHANGED <<route, found, slots, live, result>>,
         NoneOf(route, retired, {"gather"} \cup Closing),
         NoneOf(route', retired', {"gather"} \cup Closing)
  PROVE  PathInv'
  BY DEF PathInv, Done, NoneOf, Closing

LEMMA PathStep ==
  ASSUME TypeOK, BlockInv, PathInv, [Next]_vars
  PROVE  PathInv'
<1> USE DEF hostVars, wordVars, blockVars, pathVars
<1>1. ASSUME NEW k \in {"zero", "penetrate"}, Running(k), Retire,
             UNCHANGED <<route, found, slots, live, result>>
      PROVE  PathInv'
  <2>1. \A x : Before(route', retired', x) <=> Before(route, retired, x) \/ x = k
    BY <1>1, Advance
  <2>2. NoneOf(route, retired, {"gather"} \cup Closing)
    BY <1>1, Reached DEF OrderAt, NoneOf
  <2>3. NoneOf(route', retired', {"gather"} \cup Closing)
    BY <2>1, <2>2 DEF NoneOf, Closing
  <2> QED BY <1>1, <2>2, <2>3, PathEarly
<1>2. ASSUME NEW k \in {"preflight", "walls"}, Running(k),
             UNCHANGED <<route, retired, found, slots, live, result>>
      PROVE  PathInv'
  <2>1. NoneOf(route, retired, {"gather"} \cup Closing)
    BY <1>2, Reached DEF OrderAt, NoneOf
  <2> QED BY <1>2, <2>1, PathEarly
<1>3. CASE Discover
  <2>1. Running("discover") /\ Retire /\ UNCHANGED <<route, failed, result>>
    BY <1>3 DEF Discover
  <2>2. \A x : Before(route', retired', x) <=> Before(route, retired, x) \/ x = "discover"
    BY <2>1, Advance
  <2>3. /\ ~Done("gather") /\ ~Done("sanitize") /\ ~Done("vector_sanitize")
        /\ ~Done("recompact") /\ ~Done("publish") /\ ~Done("convert")
    BY <2>1, Reached DEF OrderAt, NoneOf, Closing, Done
  <2>4. /\ found' = live' /\ slots' = live' \ {Vector}
        /\ route = "basic" => live' \subseteq {"direct"}
    BY <1>3 DEF Discover
  <2>5. route = "basic" => Vector \notin live' BY <2>4 DEF Vector
  <2> QED BY <2>1, <2>2, <2>3, <2>4, <2>5 DEF PathInv, Done
<1>4. CASE Gather
  <2>1. /\ Running("gather") /\ Retire /\ UNCHANGED <<route, hits, failed, found, result>>
        /\ slots' = slots \cup block /\ live' = live \cup block
    BY <1>4 DEF Gather
  <2>2. \A x : Before(route', retired', x) <=> Before(route, retired, x) \/ x = "gather"
    BY <2>1, Advance
  <2>3. /\ ~Done("gather") /\ ~Done("sanitize") /\ ~Done("vector_sanitize")
        /\ ~Done("recompact") /\ ~Done("publish") /\ ~Done("convert")
        /\ Done("pack") \/ Done("walls")
    BY <2>1, Reached DEF OrderAt, NoneOf, Closing, Done
  <2>4. ~failed => block = Penetrated BY <2>3 DEF BlockInv
  <2>5. Vector \notin block BY VectorApart DEF TypeOK
  <2>6. live = found /\ slots = live \ {Vector} BY <2>3 DEF PathInv
  <2>7. Penetrated' = Penetrated BY <2>1 DEF Penetrated
  <2>8. slots' = live' \ {Vector} BY <2>1, <2>5, <2>6
  <2>9. ~failed => live' = found \cup Penetrated BY <2>1, <2>4, <2>6
  <2>10. route = "basic" => Vector \notin live' BY <2>1, <2>5 DEF PathInv
  <2> QED BY <2>1, <2>2, <2>3, <2>7, <2>8, <2>9, <2>10 DEF PathInv, Done
<1>5. CASE Scatter
  <2>1. Running("scatter") /\ Retire /\ UNCHANGED <<route, hits, failed, result>>
    BY <1>5 DEF Scatter
  <2>2. PICK s \in SUBSET {"scatter"} :
          found' = found \cup s /\ live' = live \cup s /\ slots' = slots \cup s
    BY <1>5 DEF Scatter
  <2>3. \A x : Before(route', retired', x) <=> Before(route, retired, x) \/ x = "scatter"
    BY <2>1, Advance
  <2>4. /\ ~Done("sanitize") /\ ~Done("vector_sanitize")
        /\ ~Done("recompact") /\ ~Done("publish") /\ ~Done("convert")
    BY <2>1, Reached DEF OrderAt, NoneOf, Closing, Done
  <2>5. Vector \notin s BY DEF Vector
  <2>6. Penetrated' = Penetrated BY <2>1 DEF Penetrated
  <2>7. slots' = live' \ {Vector} BY <2>2, <2>4, <2>5 DEF PathInv
  <2>8. ~Done("gather") => live' = found' BY <2>2 DEF PathInv
  <2>9. Done("gather") /\ ~failed => live' = found' \cup Penetrated BY <2>2 DEF PathInv
  <2>10. route = "basic" => Vector \notin live' BY <2>2, <2>5 DEF PathInv
  <2> QED BY <2>1, <2>3, <2>4, <2>6, <2>7, <2>8, <2>9, <2>10 DEF PathInv, Done
<1>6. CASE Sanitize
  <2>1. /\ Running("sanitize") /\ Retire
        /\ UNCHANGED <<route, hits, failed, found, slots, result>>
        /\ live' = IF failed THEN live \ (Rows \cup OtherRows) ELSE live
    BY <1>6 DEF Sanitize, Sanitized
  <2>2. \A x : Before(route', retired', x) <=> Before(route, retired, x) \/ x = "sanitize"
    BY <2>1, Advance
  <2>3. /\ Done("gather") /\ ~Done("sanitize") /\ ~Done("vector_sanitize")
        /\ ~Done("recompact") /\ ~Done("publish") /\ ~Done("convert")
    BY <2>1, Reached DEF OrderAt, AllOf, NoneOf, Closing, Done
  <2>4. Penetrated' = Penetrated BY <2>1 DEF Penetrated
  <2>5. failed => live' \subseteq {Vector} BY <2>1 DEF TypeOK, Payload
  <2> QED BY <2>1, <2>2, <2>3, <2>4, <2>5 DEF PathInv, Done
<1>7. CASE VectorSanitize
  <2>1. /\ Running("vector_sanitize") /\ Retire
        /\ UNCHANGED <<route, hits, failed, found, slots, result>>
        /\ live' = IF failed THEN live \ {Vector} ELSE live
    BY <1>7 DEF VectorSanitize, Sanitized
  <2>2. \A x : Before(route', retired', x) <=> Before(route, retired, x) \/ x = "vector_sanitize"
    BY <2>1, Advance
  <2>3. /\ Done("gather") /\ Done("sanitize")
        /\ ~Done("recompact") /\ ~Done("publish") /\ ~Done("convert")
    BY <2>1, Reached DEF OrderAt, AllOf, NoneOf, Done
  <2>4. Penetrated' = Penetrated BY <2>1 DEF Penetrated
  <2> QED BY <2>1, <2>2, <2>3, <2>4 DEF PathInv, Done
<1>8. CASE Recompact
  <2>1. /\ Running("recompact") /\ Retire
        /\ UNCHANGED <<route, hits, failed, found, live, result>>
        /\ slots' = slots \cap live
    BY <1>8 DEF Recompact, Compacted
  <2>2. \A x : Before(route', retired', x) <=> Before(route, retired, x) \/ x = "recompact"
    BY <2>1, Advance
  <2>3. ~Done("publish") /\ ~Done("convert")
    BY <2>1, Reached DEF OrderAt, NoneOf, Done
  <2>4. Penetrated' = Penetrated BY <2>1 DEF Penetrated
  <2>5. ~failed \/ ~Done("sanitize") => slots' = live \ {Vector} BY <2>1 DEF PathInv
  <2> QED BY <2>1, <2>2, <2>3, <2>4, <2>5 DEF PathInv, Done
<1>9. ASSUME NEW k \in {"publish", "convert"}, Running(k), Retire,
             UNCHANGED <<route, hits, failed, found, slots, live>>, result' = live
      PROVE  PathInv'
  <2>1. \A x : Before(route', retired', x) <=> Before(route, retired, x) \/ x = k
    BY <1>9, Advance
  <2>2. Penetrated' = Penetrated BY <1>9 DEF Penetrated
  <2> QED BY <1>9, <2>1, <2>2 DEF PathInv, Done
<1>10. CASE UNCHANGED <<route, retired, failed, hits, found, slots, live, result>>
  BY <1>10 DEF PathInv, Done, Penetrated
<1>11. CASE Zero BY <1>11, <1>1 DEF Zero
<1>12. CASE Penetrate BY <1>12, <1>1 DEF Penetrate
<1>13. CASE PreflightRow BY <1>13, <1>2 DEF PreflightRow
<1>14. CASE WallRow BY <1>14, <1>2 DEF WallRow
<1>15. CASE PackRow BY <1>15, <1>10 DEF PackRow
<1>16. CASE RowsHandled
  <2>1. PICK k \in {"preflight", "pack", "walls"} : Running(k) BY <1>16 DEF RowsHandled
  <2> QED BY <1>16, <2>1, PathRetire DEF RowsHandled
<1>17. CASE Blank BY <1>17, PathRetire DEF Blank
<1>18. CASE BlockSanitize BY <1>18, PathRetire DEF BlockSanitize
<1>19. CASE Convert
  <2>1. CASE slots \subseteq live BY <1>19, <2>1, <1>9 DEF Convert
  <2>2. CASE ~(slots \subseteq live) BY <1>19, <2>2, <1>10 DEF Convert
  <2> QED BY <2>1, <2>2
<1>20. CASE Publish BY <1>20, <1>9 DEF Publish
<1>21. CASE Terminal
  <2>1. CASE Retire BY <1>21, <2>1, PathRetire DEF Terminal
  <2>2. CASE ~Retire BY <1>21, <2>2, <1>10 DEF Terminal
  <2> QED BY <2>1, <2>2
<1>22. CASE Host \/ HostFails \/ CallerReads \/ UNCHANGED vars
  BY <1>10, <1>22 DEF Host, HostLaunch, HostHears, HostFails, HostReturns, CallerReads, vars
<1> QED
  BY <1>3, <1>4, <1>5, <1>6, <1>7, <1>8, <1>11, <1>12, <1>13, <1>14, <1>15, <1>16, <1>17,
     <1>18, <1>19, <1>20, <1>21, <1>22
     DEF Next, Device, Idle

----------------------------------------------------------------------------
\* A kernel that is not the terminal one, and does not trap, keeps TrapInv.
LEMMA TrapRetire ==
  ASSUME TypeOK, TrapInv, NEW k, Running(k), Retire,
         UNCHANGED <<route, status, launched, answer, trapped>>,
         k # "terminal", (failed' <=> failed) \/ ~Done("terminal")
  PROVE  TrapInv'
<1>1. \A x : Before(route', retired', x) <=> Before(route, retired, x) \/ x = k
  BY Advance
<1>2. ~trapped /\ retired < launched BY Reached
<1>3. answer # "result" BY <1>2, RouteKnown DEF TrapInv, TypeOK
<1>4. (Done("terminal") => ~failed)' BY <1>1 DEF TrapInv, Done
<1> QED BY <1>2, <1>3, <1>4 DEF TrapInv

\* Nor does a step of one row of a kernel before the terminal one.
LEMMA TrapRow ==
  ASSUME TypeOK, TrapInv, NEW k, Running(k), ~Done("terminal"),
         UNCHANGED <<route, status, launched, retired, answer, trapped>>
  PROVE  TrapInv'
<1>1. ~trapped /\ retired < launched BY Reached
<1>2. answer # "result" BY <1>1, RouteKnown DEF TrapInv, TypeOK
<1> QED BY <1>1, <1>2 DEF TrapInv, Done

\* The path conversion traps only on the inert rows of a failed solve, and
\* only on the route that does not compact first.
LEMMA ConvertTraps ==
  ASSUME TypeOK, PathInv, Running("convert"), ~(slots \subseteq live)
  PROVE  failed /\ route = "path" /\ At("convert")
<1>1. At("convert") /\ (route = "path" \/ Done("recompact"))
  BY Reached DEF OrderAt, Done
<1> QED BY <1>1 DEF PathInv

LEMMA TrapStep ==
  ASSUME TypeOK, PathInv, TrapInv, [Next]_vars
  PROVE  TrapInv'
<1> USE DEF hostVars, wordVars, blockVars, pathVars
<1>1. ASSUME NEW k, Running(k), k \in {"zero", "penetrate", "preflight", "pack", "walls"}
      PROVE  ~Done("terminal")
  BY <1>1, Reached DEF OrderAt, NoneOf, Closing, Done
<1>2. CASE Zero BY <1>2, <1>1, TrapRetire DEF Zero
<1>3. CASE Penetrate BY <1>3, <1>1, TrapRetire DEF Penetrate
<1>4. CASE PreflightRow BY <1>4, <1>1, TrapRow DEF PreflightRow
<1>5. CASE PackRow BY <1>5, <1>1, TrapRow DEF PackRow
<1>6. CASE WallRow BY <1>6, <1>1, TrapRow DEF WallRow
<1>7. CASE RowsHandled
  <2>1. PICK k \in {"preflight", "pack", "walls"} : Running(k) BY <1>7 DEF RowsHandled
  <2> QED BY <1>7, <2>1, TrapRetire DEF RowsHandled
<1>8. CASE Discover BY <1>8, TrapRetire DEF Discover
<1>9. CASE Blank BY <1>9, TrapRetire DEF Blank
<1>10. CASE BlockSanitize BY <1>10, TrapRetire DEF BlockSanitize
<1>11. CASE Gather BY <1>11, TrapRetire DEF Gather
<1>12. CASE Scatter BY <1>12, TrapRetire DEF Scatter
<1>13. CASE Sanitize BY <1>13, TrapRetire DEF Sanitize
<1>14. CASE VectorSanitize BY <1>14, TrapRetire DEF VectorSanitize
<1>15. CASE Recompact BY <1>15, TrapRetire DEF Recompact
<1>16. CASE Publish BY <1>16, TrapRetire DEF Publish
<1>17. ASSUME trapped', retired < launched, TrapInv, ~trapped, failed',
              At("terminal")' \/ (At("convert")' /\ route' = "path"),
              UNCHANGED <<route, status, launched, retired, answer, failed>>
       PROVE  TrapInv'
  <2>1. answer # "result" BY <1>17, RouteKnown DEF TrapInv, TypeOK
  <2> QED BY <1>17, <2>1 DEF TrapInv, Done
<1>18. CASE Convert
  <2>1. CASE slots \subseteq live BY <1>18, <2>1, TrapRetire DEF Convert
  <2>2. CASE ~(slots \subseteq live)
    <3>1. /\ Running("convert") /\ trapped'
          /\ UNCHANGED <<route, status, launched, retired, answer, failed>>
      BY <1>18, <2>2 DEF Convert
    <3>2. failed /\ route = "path" /\ At("convert") /\ ~trapped /\ retired < launched
      BY <2>2, <3>1, ConvertTraps, Reached
    <3>3. At("convert")' BY <3>1, <3>2 DEF At
    <3> QED BY <3>1, <3>2, <3>3, <1>17
  <2> QED BY <2>1, <2>2
<1>19. CASE Terminal
  <2>1. Running("terminal") /\ UNCHANGED <<route, status, launched, answer, failed>>
    BY <1>19 DEF Terminal
  <2>2. At("terminal") /\ ~trapped /\ retired < launched BY <2>1, Reached
  <2>3. CASE failed
    <3>1. trapped' /\ UNCHANGED retired BY <1>19, <2>3 DEF Terminal
    <3>2. At("terminal")' BY <2>1, <2>2, <3>1 DEF At
    <3> QED BY <2>1, <2>2, <2>3, <3>1, <3>2, <1>17
  <2>4. CASE ~failed
    <3>1. ~trapped' /\ answer # "result"
      BY <1>19, <2>2, <2>4, RouteKnown DEF Terminal, TrapInv, TypeOK
    <3> QED BY <2>1, <2>4, <3>1 DEF TrapInv
  <2> QED BY <2>3, <2>4
<1>20. CASE HostLaunch BY <1>20 DEF HostLaunch, TrapInv, Done, At
<1>21. CASE HostHears BY <1>21 DEF HostHears, TrapInv, Done, At
<1>22. CASE HostFails BY <1>22 DEF HostFails, TrapInv, Done, At
<1>23. CASE HostReturns BY <1>23 DEF HostReturns, TrapInv, Done, At
<1>24. CASE CallerReads
  <2>1. UNCHANGED <<route, status, launched, retired, failed, trapped>>
    BY <1>24 DEF CallerReads
  <2>2. answer' = "result" => ~trapped /\ status = "returned" /\ retired = Len(Program[route])
    BY <1>24 DEF CallerReads, Settled, TrapInv
  <2>3. answer' = "error" => trapped \/ status = "raised" BY <1>24 DEF CallerReads
  <2> QED BY <2>1, <2>2, <2>3 DEF TrapInv, Done, At
<1>25. CASE UNCHANGED vars BY <1>25 DEF vars, TrapInv, Done, At
<1> QED
  BY <1>2, <1>3, <1>4, <1>5, <1>6, <1>7, <1>8, <1>9, <1>10, <1>11, <1>12, <1>13, <1>14, <1>15,
     <1>16, <1>18, <1>19, <1>20, <1>21, <1>22, <1>23, <1>24, <1>25
     DEF Next, Host, Device, Idle

----------------------------------------------------------------------------
\* No kernel has completed, and none whose order matters comes first.
LEMMA InitInv ==
  ASSUME Init
  PROVE  IInv
<1>1. TypeOK
  <2>1. route \in KnownRoutes /\ Len(Program[route]) \in Nat
    BY RoutesAssumption, Lengths DEF Init
  <2>2. hits \in [Rows -> Kinds] BY DEF Init, Kinds
  <2>3. failed \in BOOLEAN /\ boundary \in BOOLEAN /\ trapped \in BOOLEAN
    BY Zenon DEF Init
  <2>4. launched \in 0..Len(Program[route]) /\ retired \in 0..launched
    BY <2>1 DEF Init
  <2> QED BY <2>2, <2>3, <2>4 DEF Init, TypeOK
<1>2. \A k : ~Done(k) BY DEF Init, Done, Before
<1>3. ~At("preflight") /\ ~At("pack") /\ ~At("walls")
  <2>1. retired = 0 /\ OrderOf(route, retired) BY <1>1, RouteKnown, Order DEF Init
  <2> QED BY <2>1 DEF At, OrderOf, OrderAt
<1>4. Faulty = {} BY DEF Init, Faulty, Faults
<1>5. WordInv BY <1>2, <1>3, <1>4 DEF Init, WordInv
<1>6. BlockInv BY <1>2, <1>3 DEF BlockInv
<1>7. CountInv BY <1>2, <1>3 DEF CountInv
<1>8. PathInv BY <1>2 DEF Init, PathInv
<1>9. TrapInv BY <1>2 DEF Init, TrapInv
<1> QED BY <1>1, <1>5, <1>6, <1>7, <1>8, <1>9 DEF IInv

\* The inductive invariant: the word has exactly the faults handled so far, the
\* block and its counts are exact or blank, the paths are what was found plus
\* the block, and a trap means a failed word.
THEOREM Inductive == Spec => []IInv
<1>1. Init => IInv BY InitInv
<1>2. IInv /\ [Next]_vars => IInv'
  <2> SUFFICES ASSUME IInv, [Next]_vars PROVE IInv'
    OBVIOUS
  <2>1. TypeOK /\ WordInv /\ BlockInv /\ CountInv /\ PathInv /\ TrapInv BY DEF IInv
  <2>2. TypeOK' BY <2>1, TypeStep
  <2>3. WordInv' BY <2>1, WordStep
  <2>4. BlockInv' BY <2>1, BlockStep
  <2>5. CountInv' BY <2>1, CountStep
  <2>6. PathInv' BY <2>1, PathStep
  <2>7. TrapInv' BY <2>1, TrapStep
  <2> QED BY <2>2, <2>3, <2>4, <2>5, <2>6, <2>7 DEF IInv
<1> QED BY <1>1, <1>2, PTL DEF Spec

\* Every variable of a solve keeps its type; in particular the atomic counts of
\* pack never exceed the rows, whatever at::empty left in them.
THEOREM TypeCorrect == Spec => []TypeOK
<1>1. IInv => TypeOK BY DEF IInv
<1> QED BY <1>1, Inductive, PTL

\* The kernel that indexes the face table without checking the primitive only
\* does so in a solve where preflight found every row sound.
THEOREM TableReadsInBounds == Spec => []InBounds
<1>1. IInv => InBounds
  <2> SUFFICES ASSUME IInv, Running("pack"), ~failed PROVE Faulty = {}
    BY DEF InBounds
  <2>1. TypeOK /\ WordInv BY DEF IInv
  <2>2. Done("preflight") BY <2>1, Reached DEF OrderAt, AllOf, Done
  <2> QED BY <2>1, <2>2 DEF WordInv
<1> QED BY <1>1, Inductive, PTL

\* After its sanitizer the transmission block is whole, with exact counts, or
\* blank: no solve goes on with some of its penetrated rows.
THEOREM BlockIsNotTruncated == Spec => []NothingTruncated
<1>1. IInv => NothingTruncated
  <2> SUFFICES ASSUME IInv, Completed("block_sanitize")
               PROVE  IF failed THEN block = {} /\ candidates = 0 /\ guardrails = 0
                      ELSE /\ block = Penetrated
                           /\ Completed("pack") =>
                                /\ candidates = Cardinality(Penetrated \cup Opaque)
                                /\ guardrails = Cardinality(Opaque)
    BY DEF NothingTruncated
  <2>1. BlockInv /\ CountInv BY DEF IInv
  <2>2. Done("block_sanitize") /\ (Completed("pack") <=> Done("pack"))
    BY DEF Completed, Done, Before
  <2> QED BY <2>1, <2>2 DEF BlockInv, CountInv
<1> QED BY <1>1, Inductive, PTL

\* What the caller of any route is told: the whole result of a sound solve, or
\* an error, and an error of a sound solve only when Python raised it.
THEOREM AnswersAreAllOrNothing == Spec => []AllOrNothing
<1>1. IInv => AllOrNothing
  <2> SUFFICES ASSUME IInv PROVE AllOrNothing
    OBVIOUS
  <2>1. TypeOK /\ WordInv /\ BlockInv /\ PathInv /\ TrapInv BY DEF IInv
  <2>2. ASSUME answer = "result" PROVE Faulty = {} /\ result = found \cup Penetrated
    <3>1. Whole(route, retired)
      BY <2>1, <2>2, RouteKnown, Order DEF TrapInv, OrderOf
    <3>2. /\ Done("gather") /\ Done("terminal")
          /\ Done("preflight") \/ Done("walls")
          /\ Done("publish") \/ Done("convert")
      BY <3>1 DEF Whole, AllOf, Done
    <3>3. ~failed BY <2>1, <3>2 DEF TrapInv
    <3>4. Faulty = {} BY <2>1, <3>2, <3>3 DEF WordInv
    <3>5. result = live /\ live = found \cup Penetrated BY <2>1, <3>2, <3>3 DEF PathInv
    <3> QED BY <3>4, <3>5
  <2>3. ASSUME answer = "error" PROVE Faulty # {} \/ status = "raised"
    <3>1. CASE trapped
      <4>1. failed /\ (At("terminal") \/ At("convert")) BY <2>1, <3>1 DEF TrapInv
      <4>2. OrderAt(route, retired, "terminal") \/ OrderAt(route, retired, "convert")
        BY <2>1, <4>1, RouteKnown, Order DEF At, OrderOf
      <4>3. Done("zero") BY <4>2 DEF OrderAt, AllOf, Done
      <4> QED BY <2>1, <4>1, <4>3 DEF WordInv
    <3> QED BY <2>1, <2>3, <3>1 DEF TrapInv
  <2> QED BY <2>2, <2>3 DEF AllOrNothing
<1> QED BY <1>1, Inductive, PTL

\* Without the asserting path conversion the device traps in the terminal
\* kernel only.
THEOREM OnlyTheTerminalTraps == Spec => []TrapsOnlyAtTheTerminal
<1>1. IInv => TrapsOnlyAtTheTerminal
  BY DEF IInv, TypeOK, TrapInv, At, TrapsOnlyAtTheTerminal, IntermediatesDoNotTrap
<1> QED BY <1>1, Inductive, PTL

\* On the routes that publish before the terminal kernel and convert without
\* asserting on inert rows, everything written for the caller is inert when the
\* device traps.
THEOREM InertWhenTrapped == Spec => []InertAtTheTrap
<1>1. IInv => InertAtTheTrap
  <2> SUFFICES ASSUME IInv, route \notin {"path", "consumer"}, trapped
               PROVE  result = {} /\ live = {} /\ block = {}
    BY DEF InertAtTheTrap
  <2>1. TypeOK /\ BlockInv /\ PathInv /\ TrapInv BY DEF IInv
  <2>2. route # "path" /\ route # "consumer" OBVIOUS
  <2>3. failed /\ At("terminal") BY <2>1, <2>2 DEF TrapInv
  <2>4. OrderAt(route, retired, "terminal")
    BY <2>1, <2>3, RouteKnown, Order DEF At, OrderOf
  <2>5. /\ Done("block_sanitize") /\ Done("sanitize")
        /\ route = "basic" \/ Done("vector_sanitize")
        /\ Done("convert") \/ Done("publish")
    BY <2>2, <2>4 DEF OrderAt, AllOf, Done
  <2>6. live \subseteq {Vector} /\ Vector \notin live BY <2>1, <2>3, <2>5 DEF PathInv
  <2>7. result = live BY <2>1, <2>5 DEF PathInv
  <2>8. block = {} BY <2>1, <2>3, <2>5 DEF BlockInv
  <2> QED BY <2>6, <2>7, <2>8
<1> QED BY <1>1, Inductive, PTL
=============================================================================
