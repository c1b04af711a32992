------------------------------ MODULE ToolsProofs ------------------------------
(***************************************************************************)
(* Proofs about what surrounds the running of a script: that each iteration *)
(* of the compilation ends with exactly what it should compute, for every   *)
(* layout of files, all declarations and any call graph; that what the      *)
(* highlighter shows and keeps is what a scan of the whole document gives,  *)
(* for any edits and any order of drawing, of every scanner that sees the   *)
(* line, the region open before it and the members of the script; and that  *)
(* the scanner there is ends within its line.  At the end, what the runs    *)
(* check: the parts together, with the debugger's.                          *)
(***************************************************************************)
EXTENDS MCTools, DebuggerProofs, Iteration, SequenceTheorems, TLAPS

-----------------------------------------------------------------------------
(* The chain of base scripts.                                                *)

Found == Headers \cup {"missing"}

\* What the recursion of the chain says, without it.
Links(chain, start, files) ==
  /\ chain \in [0..Limit -> Found] /\ chain[0] = start
  /\ \A k \in 1..Limit :
       chain[k] = IF chain[k - 1] \in Paths THEN files[FileOf[chain[k - 1]]] ELSE chain[k - 1]

\* The recursion of the chain has a value, and it is that.
LEMMA ChainLinks ==
  ASSUME CompilationParameters, NEW start \in Headers, NEW files \in [Files -> Found]
  PROVE  Links(ChainFrom(start, files), start, files)
<1> DEFINE Up(x) == IF x \in Paths THEN files[FileOf[x]] ELSE x
           F == [k \in 1..Limit |-> [x \in Found |-> Up(x)]]
           Solves(chain) == chain = [k \in 0..Limit |-> IF k = 0 THEN start ELSE Up(chain[k - 1])]
<1>1. Limit \in Nat /\ start \in Found
  BY DEF CompilationParameters, Found
<1>2. \A x \in Found : Up(x) \in Found
  BY DEF CompilationParameters
<1>3. F \in Steps(Limit, Found)
  BY <1>2 DEF Steps
<1>4. PICK f \in [0..Limit -> Found] : f[0] = start /\ \A k \in 1..Limit : f[k] = F[k][f[k - 1]]
  <2> HIDE DEF F, Up
  <2>1. Iterations(Limit, Found, start, F) # {}
    BY <1>1, <1>3, Iterates
  <2> QED BY <2>1 DEF Iterations
<1>5. ASSUME NEW k \in 1..Limit
      PROVE  f[k] = Up(f[k - 1])
  <2>1. k - 1 \in 0..Limit /\ f[k - 1] \in Found
    BY <1>1, <1>4
  <2> HIDE DEF Up
  <2> QED BY <1>4, <2>1
<1>6. Solves(f)
  BY <1>1, <1>4, <1>5
<1>7. Solves(ChainFrom(start, files))
  <2>1. ChainFrom(start, files) = CHOOSE chain : Solves(chain)
    BY DEF ChainFrom
  <2> HIDE DEF Solves
  <2> QED BY <1>6, <2>1
<1> DEFINE chain == ChainFrom(start, files)
<1> HIDE DEF chain
<1>8. Solves(chain)
  BY <1>7 DEF chain
<1>9. DOMAIN chain = 0..Limit /\ chain[0] = start /\ \A k \in 1..Limit : chain[k] = Up(chain[k - 1])
  <2> HIDE DEF Up
  <2>1. \A k \in 1..Limit : k \in 0..Limit /\ k # 0
    BY <1>1
  <2> QED BY <1>1, <1>8, <2>1
<1>10. \A k \in 0..Limit : chain[k] \in Found
  <2> DEFINE T == {k \in Nat : k <= Limit => chain[k] \in Found}
  <2>1. 0 \in T
    BY <1>1, <1>9
  <2>2. ASSUME NEW k \in Nat, k \in T
        PROVE  k + 1 \in T
    <3> SUFFICES ASSUME k + 1 <= Limit
                 PROVE  chain[k + 1] \in Found
      OBVIOUS
    <3>1. chain[k] \in Found /\ chain[k + 1] = Up(chain[k])
      BY <1>1, <1>9, <2>2
    <3> QED BY <1>2, <3>1
  <2> HIDE DEF T
  <2>3. \A k \in Nat : k \in T
    BY <2>1, <2>2, Induction
  <2> QED BY <1>1, <2>3 DEF T
<1>11. chain \in [0..Limit -> Found]
  BY <1>8, <1>10
<1> QED BY <1>9, <1>11 DEF Links, chain

-----------------------------------------------------------------------------
(* A pass of the propagation.                                                *)

\* A pass is the turns of the functions one after the other.
LEMMA PassIs ==
  ASSUME CompilationParameters, NEW uses \in [1..Functions -> BOOLEAN]
  PROVE  \E after \in [0..Functions -> [1..Functions -> BOOLEAN]] :
           /\ after[0] = uses /\ after[Functions] = Pass(uses)
           /\ \A f \in 1..Functions : after[f] = Marked(after[f - 1], f)
<1> DEFINE All == [1..Functions -> BOOLEAN]
           F == [f \in 1..Functions |-> [u \in All |-> Marked(u, f)]]
           Solves(after) == after = [f \in 0..Functions |-> IF f = 0 THEN uses ELSE Marked(after[f - 1], f)]
<1>1. Functions \in Nat
  BY DEF CompilationParameters
<1>2. \A u \in All, f \in 1..Functions : Marked(u, f) \in All
  BY DEF Marked
<1>3. F \in Steps(Functions, All)
  BY <1>2 DEF Steps
<1>4. PICK after \in [0..Functions -> All] :
        after[0] = uses /\ \A f \in 1..Functions : after[f] = F[f][after[f - 1]]
  <2> HIDE DEF F
  <2>1. uses \in All
    OBVIOUS
  <2> HIDE DEF All
  <2>2. Iterations(Functions, All, uses, F) # {}
    BY <1>1, <1>3, <2>1, Iterates
  <2> QED BY <2>2 DEF Iterations
<1>5. ASSUME NEW f \in 1..Functions
      PROVE  after[f] = Marked(after[f - 1], f)
  <2>1. f - 1 \in 0..Functions /\ after[f - 1] \in All
    BY <1>1, <1>4
  <2> HIDE DEF All
  <2> QED BY <1>4, <2>1
<1> HIDE DEF All
<1>6. Solves(after)
  BY <1>1, <1>4, <1>5
<1>7. \A other : Solves(other) => other = after
  <2> SUFFICES ASSUME NEW other, Solves(other)
               PROVE  other = after
    OBVIOUS
  <2>1. DOMAIN other = 0..Functions /\ other = [f \in 0..Functions |-> other[f]]
    OBVIOUS
  <2>2. other[0] = uses
    BY <1>1
  <2>3. \A f \in 1..Functions : other[f] = Marked(other[f - 1], f)
    <3>1. \A f \in 1..Functions : f \in 0..Functions /\ f # 0
      BY <1>1
    <3> QED BY <1>1, <3>1
  <2> DEFINE T == {f \in Nat : f <= Functions => other[f] = after[f]}
  <2> HIDE DEF Solves
  <2>4. 0 \in T
    BY <1>4, <2>2
  <2>5. ASSUME NEW f \in Nat, f \in T
        PROVE  f + 1 \in T
    <3> SUFFICES ASSUME f + 1 <= Functions
                 PROVE  other[f + 1] = after[f + 1]
      OBVIOUS
    <3>1. f + 1 \in 1..Functions /\ (f + 1) - 1 = f /\ other[f] = after[f]
      BY <1>1, <2>5
    <3> QED BY <1>5, <2>3, <3>1
  <2> HIDE DEF T
  <2>6. \A f \in Nat : f \in T
    BY <2>4, <2>5, Induction
  <2>7. \A f \in 0..Functions : other[f] = after[f]
    BY <1>1, <2>6 DEF T
  <2> QED BY <1>4, <2>1, <2>7
<1>8. Pass(uses) = after[Functions]
  <2>1. Pass(uses) = (CHOOSE other : Solves(other))[Functions]
    BY DEF Pass
  <2> HIDE DEF Solves
  <2> QED BY <1>6, <1>7, <2>1
<1> QED BY <1>4, <1>5, <1>8 DEF All

-----------------------------------------------------------------------------
(* Types.                                                                    *)

\* A compilation begins well typed.
LEMMA InitTypes ==
  ASSUME CompilationParameters, CompilationInit
  PROVE  CompilationTypeOK
<1>1. visited \subseteq Paths
  BY DEF CompilationInit
<1>2. Len(bases) = 0 /\ Len(declared) = 0 /\ bases \in Seq(Paths \cup {"source"}) /\ declared \in Seq(Declarations)
  BY DEF CompilationInit
<1>3. 0 < Limit /\ default \in 0..0
  BY DEF CompilationInit, CompilationParameters
<1> QED BY <1>1, <1>2, <1>3 DEF CompilationInit, CompilationTypeOK

\* The state has its types, for any files, declarations and bodies.
THEOREM CompilationTypeCorrect ==
  ASSUME CompilationParameters
  PROVE  CompilationSpec => []CompilationTypeOK
<1>1. CompilationInit => CompilationTypeOK
  BY InitTypes
<1>2. CompilationTypeOK /\ [CompilationNext]_compilationVars => CompilationTypeOK'
  <2> SUFFICES ASSUME CompilationTypeOK, [CompilationNext]_compilationVars
               PROVE  CompilationTypeOK'
    OBVIOUS
  <2> USE DEF walk, defaults, receivers
  <2>1. CASE WalkOn
    <3>1. current \in Paths /\ Len(bases) # Limit - 1 /\ disk[FileOf[current]] # "missing"
      BY <2>1 DEF WalkOn, Ruling, CompilationTypeOK, Headers, TooDeep
    <3>2. disk[FileOf[current]] \in Headers
      BY <3>1 DEF CompilationTypeOK, CompilationParameters
    <3>3. Append(bases, current) \in Seq(Paths \cup {"source"})
          /\ Len(Append(bases, current)) = Len(bases) + 1
      BY <3>1 DEF CompilationTypeOK
    <3>4. Limit \in Nat /\ Len(bases) \in Nat
      BY DEF CompilationTypeOK, CompilationParameters
    <3> QED BY <2>1, <3>1, <3>2, <3>3, <3>4 DEF WalkOn, CompilationTypeOK
  <2>2. CASE WalkEnds
    <3>1. Ruling \in {"ok", "invalid", "deep", "cyclic", "missing"}
      BY <2>2 DEF WalkEnds, Ruling
    <3> QED BY <2>2, <3>1 DEF WalkEnds, CompilationTypeOK
  <2>3. CASE Parse
    <3>1. Len(bases) \in Nat /\ DOMAIN bases = 1..Len(bases)
      BY DEF CompilationTypeOK
    <3>2. [k \in DOMAIN bases |-> "source"] \in Seq(Paths \cup {"source"})
      BY <3>1
    <3>3. Len([k \in DOMAIN bases |-> "source"]) = Len(bases)
      BY <3>1
    <3> QED BY <2>3, <3>2, <3>3 DEF Parse, CompilationTypeOK, Headers
  <2>4. CASE Collect
    <3>1. PICK d \in Declarations : default' = Collected(d) /\ declared' = Append(declared, d)
      BY <2>4 DEF Collect
    <3>2. declared' \in Seq(Declarations) /\ Len(declared') = Len(declared) + 1 /\ Len(declared) \in Nat
      BY <3>1 DEF CompilationTypeOK
    <3>3. default' \in 0..Len(declared')
      BY <3>1, <3>2 DEF Collected, CompilationTypeOK
    <3> QED BY <2>4, <3>2, <3>3 DEF Collect, CompilationTypeOK
  <2>5. CASE Supplement
    <3>1. Len(<<>>) = 0 /\ <<>> \in Seq(Paths \cup {"source"}) /\ <<>> \in Seq(Declarations)
      OBVIOUS
    <3>2. 0 < Limit /\ default' \in 0..Len(declared')
      BY <2>5, <3>1 DEF Supplement, CompilationParameters
    <3> QED BY <2>5, <3>1, <3>2 DEF Supplement, CompilationTypeOK
  <2>6. CASE Generate
    <3>1. usesSelf' \in [1..Functions -> BOOLEAN]
      BY <2>6 DEF Generate
    <3> QED BY <2>6, <3>1 DEF Generate, CompilationTypeOK
  <2>7. CASE Propagate
    <3>1. usesSelf \in [1..Functions -> BOOLEAN]
      BY <2>7 DEF Propagate, CompilationTypeOK
    <3>2. Pass(usesSelf) \in [1..Functions -> BOOLEAN]
      <4>1. PICK after \in [0..Functions -> [1..Functions -> BOOLEAN]] : after[Functions] = Pass(usesSelf)
        BY <3>1, PassIs
      <4> QED BY <4>1 DEF CompilationParameters
    <3>3. changed' \in BOOLEAN
      BY <2>7 DEF Propagate
    <3> QED BY <2>7, <3>2, <3>3 DEF Propagate, CompilationTypeOK
  <2>8. CASE Publish
    BY <2>8 DEF Publish, CompilationTypeOK
  <2>9. CASE UNCHANGED compilationVars
    BY <2>9 DEF compilationVars, CompilationTypeOK
  <2> QED BY <2>1, <2>2, <2>3, <2>4, <2>5, <2>6, <2>7, <2>8, <2>9 DEF CompilationNext
<1> QED BY <1>1, <1>2, PTL DEF CompilationSpec

-----------------------------------------------------------------------------
(* The chain of base scripts, as it is walked.                               *)

\* The walk so far: the bases are the chain up to the header last read, each one a path that
\* was seen on the way.
WalkInv ==
  phase = "walk" =>
    /\ ruling = "ok"
    /\ \A k \in 1..Len(bases) : bases[k] = Chain[k - 1] /\ bases[k] \in Paths \cap visited
    /\ current = Chain[Len(bases)]

\* The chain, from the types of the files.
LEMMA ChainIs ==
  ASSUME CompilationParameters, CompilationTypeOK
  PROVE  /\ Limit \in Nat \ {0}
         /\ \A k \in 0..Limit : Chain[k] \in Headers \cup {"missing"}
         /\ Chain[0] = header
         /\ \A k \in 0..(Limit - 1) :
              Chain[k + 1] = IF Chain[k] \in Paths THEN disk[FileOf[Chain[k]]] ELSE Chain[k]
<1>1. Limit \in Nat \ {0}
  BY DEF CompilationParameters
<1>2. Links(Chain, header, disk)
  <2>1. header \in Headers /\ disk \in [Files -> Found]
    BY DEF CompilationTypeOK, Found
  <2> QED BY <2>1, ChainLinks DEF Chain
<1> DEFINE c == Chain
<1> HIDE DEF c
<1>3. Links(c, header, disk)
  BY <1>2 DEF c
<1>4. \A k \in 0..(Limit - 1) : k + 1 \in 1..Limit /\ (k + 1) - 1 = k
  BY <1>1
<1>5. \A k \in 0..Limit : c[k] \in Found
  BY <1>3 DEF Links
<1>6. c[0] = header
  BY <1>3 DEF Links
<1>7. ASSUME NEW k \in 0..(Limit - 1)
      PROVE  c[k + 1] = IF c[k] \in Paths THEN disk[FileOf[c[k]]] ELSE c[k]
  BY <1>3, <1>4 DEF Links
<1> QED BY <1>1, <1>5, <1>6, <1>7 DEF Found, c

\* A chain that comes back to an earlier script never ends.
LEMMA ChainRepeats ==
  ASSUME CompilationParameters, CompilationTypeOK, NEW n \in 0..(Limit - 1), NEW j \in 0..(n - 1), Chain[n] = Chain[j],
         \A k \in 0..n : Chain[k] \in Paths
  PROVE  \A k \in 0..Limit : Chain[k] \in Paths
<1> DEFINE c == Chain
           Up(x) == IF x \in Paths THEN disk[FileOf[x]] ELSE x
<1>1. /\ Limit \in Nat \ {0}
      /\ \A k \in 0..(Limit - 1) : c[k + 1] = Up(c[k])
      /\ c[n] = c[j] /\ \A k \in 0..n : c[k] \in Paths
  BY ChainIs
<1> HIDE DEF c, Up
<1>2. n \in Nat /\ j \in Nat /\ n \in 0..(Limit - 1) /\ j < n
  BY <1>1
<1> DEFINE T == {i \in Nat : n + i <= Limit => c[n + i] = c[j + i]}
<1>3. 0 \in T
  BY <1>1, <1>2
<1>4. ASSUME NEW i \in Nat, i \in T
      PROVE  i + 1 \in T
  <2> SUFFICES ASSUME n + (i + 1) <= Limit
               PROVE  c[n + (i + 1)] = c[j + (i + 1)]
    OBVIOUS
  <2>1. /\ c[n + i] = c[j + i]
        /\ n + i \in 0..(Limit - 1) /\ j + i \in 0..(Limit - 1)
        /\ n + (i + 1) = (n + i) + 1 /\ j + (i + 1) = (j + i) + 1
    BY <1>1, <1>2, <1>4
  <2> QED BY <1>1, <2>1
<1>5. \A i \in Nat : i \in T
  <2> HIDE DEF T
  <2> QED BY <1>3, <1>4, Induction
<1> DEFINE Out == {k \in 0..Limit : c[k] \notin Paths}
<1>6. Out = {}
  <2> SUFFICES ASSUME Out # {}
               PROVE  FALSE
    OBVIOUS
  <2>1. PICK m \in Out : \A k \in Out : m <= k
    <3>1. Out \subseteq Nat
      OBVIOUS
    <3> HIDE DEF Out
    <3> QED BY <3>1, Least
  <2>2. m \in Nat /\ m \in 0..Limit /\ ~(m <= n)
    BY <1>1, <1>2, <2>1
  <2>3. m - n \in Nat /\ n + (m - n) = m /\ j + (m - n) < m /\ j + (m - n) \in 0..Limit
    BY <1>1, <1>2, <2>2
  <2>4. c[m] = c[j + (m - n)]
    BY <1>5, <2>2, <2>3
  <2>5. j + (m - n) \notin Out
    BY <2>1, <2>2, <2>3
  <2> QED BY <2>1, <2>3, <2>4, <2>5
<1> QED BY <1>6 DEF c

\* Where the walk ends, its verdict is right.
LEMMA EndsRight ==
  ASSUME CompilationParameters, CompilationTypeOK, phase = "walk", WalkInv, WalkEnds
  PROVE  InheritanceIsRight'
<1> DEFINE n == Len(bases)
           c == Chain
           own == Own
<1>1. /\ ruling' = Ruling /\ Ruling # "base" /\ bases' = bases /\ c' = c /\ own' = own
  BY DEF WalkEnds, Chain, Own
<1>2. /\ n \in 0..(Limit - 1) /\ Limit \in Nat \ {0}
      /\ DOMAIN bases = 1..n
  BY DEF CompilationTypeOK, CompilationParameters
<1>3. \A k \in 1..n : bases[k] = c[k - 1] /\ bases[k] \in Paths
  BY DEF WalkInv
<1>4. \A k \in 0..(n - 1) : c[k] \in Paths \ own
  <2> SUFFICES ASSUME NEW k \in 0..(n - 1)
               PROVE  c[k] \in Paths \ own
    OBVIOUS
  <2>1. k + 1 \in 1..n /\ (k + 1) - 1 = k
    BY <1>2
  <2>2. bases[k + 1] \in Range(bases)
    BY <1>2, <2>1 DEF Range
  <2>3. c[k] = bases[k + 1]
    BY <1>3, <2>1
  <2> QED BY <1>3, <2>1, <2>2, <2>3 DEF Own
<1>5. current = c[n] /\ current \in Headers
  BY DEF WalkInv, CompilationTypeOK
<1>6. c[n] \in Paths => c[n + 1] = disk[FileOf[c[n]]]
  BY <1>2, ChainIs
<1>7. {"none", "invalid", "missing"} \cap Paths = {}
  BY DEF CompilationParameters
<1> DEFINE ends(m) == c[m] = "none" /\ \A k \in 0..(m - 1) : c[k] \in Paths \ own
           right(v) ==
             /\ v = "ok" <=> \E m \in 0..(Limit - 1) : ends(m)
             /\ v = "ok" => bases = [k \in 1..Len(bases) |-> c[k - 1]] /\ c[Len(bases)] = "none"
             /\ v = "deep" => \A k \in 0..(Limit - 1) : c[k] \in Paths
             /\ v = "cyclic" => \E k \in 0..Limit : c[k] \in own \cup {c[j] : j \in 0..(k - 1)}
             /\ v \in {"missing", "invalid"} => \E k \in 0..Limit : c[k] = v
<1>8. right(Ruling) => InheritanceIsRight'
  BY <1>1 DEF InheritanceIsRight, Ends, Own, Chain
<1> HIDE DEF c, own, n
<1>9. ASSUME NEW m \in 0..(Limit - 1), ends(m)
      PROVE  m >= n /\ (m > n => c[n] \in Paths \ own) /\ (m > n + 1 => c[n + 1] \in Paths)
  BY <1>2, <1>4, <1>7, <1>9
<1>10. right(Ruling)
  <2>1. CASE current = "invalid"
    <3>1. Ruling = "invalid"
      BY <2>1 DEF Ruling
    <3>2. ASSUME NEW m \in 0..(Limit - 1), ends(m)
          PROVE  FALSE
      <4>1. m = n \/ m > n
        BY <1>2, <1>9, <3>2
      <4> QED BY <1>5, <1>7, <1>9, <2>1, <3>2, <4>1
    <3>3. c[n] = "invalid" /\ n \in 0..Limit
      BY <1>2, <1>5, <2>1
    <3> QED BY <3>1, <3>2, <3>3
  <2>2. CASE current = "none"
    <3>1. Ruling = "ok"
      BY <2>2 DEF Ruling
    <3>2. ends(n)
      BY <1>4, <1>5, <2>2
    <3>3. bases = [k \in 1..Len(bases) |-> c[k - 1]]
      <4>1. bases \in Seq(Paths \cup {"source"}) /\ n = Len(bases)
        BY DEF CompilationTypeOK, n
      <4> QED BY <1>2, <1>3, <4>1
    <3> QED BY <1>2, <1>5, <2>2, <3>1, <3>2, <3>3 DEF n
  <2>3. CASE current \in Paths
    <3>1. Ruling = IF n = Limit - 1 THEN "deep"
                    ELSE IF current \in visited THEN "cyclic"
                    ELSE IF disk[FileOf[current]] = "missing" THEN "missing" ELSE "base"
      BY <1>7, <2>3 DEF Ruling, TooDeep, n
    <3>2. CASE Ruling = "deep"
      <4>1. n = Limit - 1
        BY <3>1, <3>2
      <4>2. \A k \in 0..(Limit - 1) : c[k] \in Paths
        BY <1>2, <1>4, <1>5, <2>3, <4>1
      <4> QED BY <1>7, <3>2, <4>2
    <3>3. CASE Ruling = "missing"
      <4>1. c[n + 1] = "missing" /\ n + 1 \in 0..Limit
        BY <1>2, <1>5, <1>6, <2>3, <3>1, <3>3
      <4>2. ASSUME NEW m \in 0..(Limit - 1), ends(m)
            PROVE  FALSE
        <5>1. m = n \/ m = n + 1 \/ m > n + 1
          BY <1>2, <1>9, <4>2
        <5> QED BY <1>5, <1>7, <1>9, <2>3, <4>1, <4>2, <5>1
      <4> QED BY <3>3, <4>1, <4>2
    <3>4. CASE Ruling = "cyclic"
      <4>1. n < Limit - 1 /\ c[n] \in visited
        BY <1>2, <1>5, <3>1, <3>4
      <4>2. CASE c[n] \in own
        <5>1. ASSUME NEW m \in 0..(Limit - 1), ends(m)
              PROVE  FALSE
          BY <1>2, <1>5, <1>7, <1>9, <2>3, <4>2, <5>1
        <5> QED BY <1>2, <3>4, <4>2, <5>1
      <4>3. CASE c[n] \notin own
        <5>1. c[n] \in Range(bases)
          BY <4>1, <4>3 DEF Own, own
        <5>2. PICK i \in 1..n : c[n] = bases[i]
          BY <1>2, <5>1 DEF Range
        <5>3. PICK j \in 0..(n - 1) : c[n] = c[j]
          <6>1. i - 1 \in 0..(n - 1)
            BY <1>2
          <6> QED BY <1>3, <5>2, <6>1
        <5>4. \A k \in 0..n : c[k] \in Paths
          BY <1>2, <1>4, <1>5, <2>3
        <5>5. \A k \in 0..Limit : c[k] \in Paths
          BY <1>2, <5>3, <5>4, ChainRepeats DEF c
        <5>6. n \in 0..Limit
          BY <1>2
        <5> QED BY <1>2, <1>7, <3>4, <5>3, <5>5, <5>6
      <4> QED BY <4>2, <4>3
    <3> QED BY <1>1, <3>1, <3>2, <3>3, <3>4
  <2> QED BY <1>5, <2>1, <2>2, <2>3 DEF Headers
<1> QED BY <1>8, <1>10

\* A script compiles against exactly its ancestors, however the files refer to each other.
THEOREM CompiledAgainstAncestors ==
  ASSUME CompilationParameters
  PROVE  CompilationSpec => []InheritanceIsRight
<1>1. CompilationInit => WalkInv /\ InheritanceIsRight
  <2> SUFFICES ASSUME CompilationInit
               PROVE  WalkInv /\ InheritanceIsRight
    OBVIOUS
  <2>1. CompilationTypeOK
    BY InitTypes
  <2>2. current = Chain[0] /\ Len(bases) = 0
    BY <2>1, ChainIs DEF CompilationInit
  <2> QED BY <2>2 DEF CompilationInit, WalkInv, InheritanceIsRight
<1>2. CompilationTypeOK /\ WalkInv /\ InheritanceIsRight /\ [CompilationNext]_compilationVars => (WalkInv /\ InheritanceIsRight)'
  <2> SUFFICES ASSUME CompilationTypeOK, WalkInv, InheritanceIsRight, [CompilationNext]_compilationVars
               PROVE  WalkInv' /\ InheritanceIsRight'
    OBVIOUS
  <2> USE DEF walk, defaults, receivers
  <2>1. CASE WalkOn
    <3> DEFINE n == Len(bases)
               c == Chain
    <3>1. current \in Paths \ visited /\ n # Limit - 1 /\ phase = "walk"
      BY <2>1 DEF WalkOn, Ruling, CompilationTypeOK, Headers, TooDeep
    <3>2. n \in 0..(Limit - 1) /\ Limit \in Nat \ {0} /\ bases \in Seq(Paths \cup {"source"})
      BY DEF CompilationTypeOK, CompilationParameters
    <3>3. /\ bases' = Append(bases, current) /\ Len(bases') = n + 1
          /\ bases'[n + 1] = current /\ \A k \in 1..n : bases'[k] = bases[k]
      BY <2>1, <3>1, <3>2 DEF WalkOn
    <3>4. c' = c /\ current = c[n] /\ \A k \in 1..n : bases[k] = c[k - 1] /\ bases[k] \in Paths \cap visited
      BY <2>1, <3>1 DEF WalkOn, WalkInv, Chain
    <3>5. visited' = visited \cup {current} /\ current' = disk[FileOf[current]] /\ phase' = "walk"
          /\ ruling' = "ok"
      BY <2>1, <3>1 DEF WalkOn, WalkInv
    <3>6. c[n + 1] = disk[FileOf[c[n]]]
      BY <3>1, <3>2, <3>4, ChainIs
    <3> HIDE DEF c, n
    <3>7. ASSUME NEW k \in 1..(n + 1)
          PROVE  bases'[k] = c[k - 1] /\ bases'[k] \in Paths \cap visited'
      <4>1. k \in 1..n \/ (k = n + 1 /\ k - 1 = n)
        BY <3>2
      <4> QED BY <3>1, <3>3, <3>4, <3>5, <4>1
    <3>8. current' = c[n + 1]
      BY <3>4, <3>5, <3>6
    <3>9. WalkInv'
      <4>1. \A k \in 1..Len(bases') : bases'[k] = c'[k - 1] /\ bases'[k] \in Paths \cap visited'
        BY <3>3, <3>4, <3>7
      <4>2. current' = c'[Len(bases')]
        BY <3>3, <3>4, <3>8
      <4> QED BY <3>5, <4>1, <4>2 DEF WalkInv, c
    <3> QED BY <3>5, <3>9 DEF InheritanceIsRight
  <2>2. CASE WalkEnds
    <3>1. InheritanceIsRight'
      BY <2>2, EndsRight DEF WalkEnds
    <3> QED BY <2>2, <3>1 DEF WalkEnds, WalkInv
  <2>3. CASE Parse
    BY <2>3 DEF Parse, WalkInv, InheritanceIsRight
  <2>4. CASE Collect
    BY <2>4 DEF Collect, WalkInv, InheritanceIsRight
  <2>5. CASE Supplement
    BY <2>5 DEF Supplement, WalkInv, InheritanceIsRight
  <2>6. CASE Generate
    BY <2>6 DEF Generate, WalkInv, InheritanceIsRight
  <2>7. CASE Propagate
    BY <2>7 DEF Propagate, WalkInv, InheritanceIsRight
  <2>8. CASE Publish
    BY <2>8 DEF Publish, WalkInv, InheritanceIsRight
  <2>9. CASE UNCHANGED compilationVars
    BY <2>9 DEF compilationVars, WalkInv, InheritanceIsRight, Ends, Own, Chain
  <2> QED BY <2>1, <2>2, <2>3, <2>4, <2>5, <2>6, <2>7, <2>8, <2>9 DEF CompilationNext
<1> QED BY <1>1, <1>2, CompilationTypeCorrect, PTL DEF CompilationSpec

-----------------------------------------------------------------------------
(* Property defaults.                                                        *)

\* Nothing is read of the defaults before the sources are parsed.
DefaultInv == phase \in {"walk", "walked"} => declared = <<>> /\ default = 0

\* A property has the default of the nearest script that declares it, after any declarations
\* and whatever its initializer is.
THEOREM NearestDefault ==
  ASSUME CompilationParameters
  PROVE  CompilationSpec => []DefaultIsNearest
<1>1. CompilationInit => DefaultInv /\ DefaultIsNearest
  BY DEF CompilationInit, DefaultInv, DefaultIsNearest
<1>2. CompilationTypeOK /\ DefaultInv /\ DefaultIsNearest /\ [CompilationNext]_compilationVars => (DefaultInv /\ DefaultIsNearest)'
  <2> SUFFICES ASSUME CompilationTypeOK, DefaultInv, DefaultIsNearest, [CompilationNext]_compilationVars
               PROVE  DefaultInv' /\ DefaultIsNearest'
    OBVIOUS
  <2> USE DEF walk, defaults, receivers
  <2>1. CASE WalkOn
    BY <2>1 DEF WalkOn, DefaultInv, DefaultIsNearest
  <2>2. CASE WalkEnds
    BY <2>2 DEF WalkEnds, DefaultInv, DefaultIsNearest
  <2>3. CASE Parse
    <3>1. declared' = <<>> /\ default' = 0 /\ phase' = "defaults"
      BY <2>3 DEF Parse, DefaultInv
    <3>2. Ordinary' = {}
      BY <3>1 DEF Ordinary
    <3> QED BY <3>1, <3>2 DEF DefaultInv, DefaultIsNearest
  <2>4. CASE Collect
    <3> DEFINE n == Len(declared)
    <3>1. PICK d \in Declarations : default' = Collected(d) /\ declared' = Append(declared, d)
      BY <2>4 DEF Collect
    <3>2. /\ n \in Nat /\ DOMAIN declared = 1..n /\ DOMAIN declared' = 1..(n + 1)
          /\ declared'[n + 1] = d /\ \A k \in 1..n : declared'[k] = declared[k]
      BY <3>1 DEF CompilationTypeOK
    <3>3. phase = "defaults" /\ phase' = "defaults"
      BY <2>4 DEF Collect
    <3>4. Ordinary \subseteq 1..n
      BY <3>2 DEF Ordinary
    <3>5. CASE d.is = "variable"
      <4>1. n + 1 \in Ordinary' /\ \A k \in Ordinary' : k <= n + 1
        BY <3>2, <3>5 DEF Ordinary
      <4>2. default' = IF ConstantValue[declared'[n + 1].init] \in Compound THEN n + 1 ELSE 0
        BY <3>1, <3>2, <3>5 DEF Collected
      <4> QED BY <3>3, <4>1, <4>2 DEF DefaultInv, DefaultIsNearest
    <3>6. CASE d.is # "variable"
      <4>1. Ordinary' = Ordinary
        BY <3>2, <3>6 DEF Ordinary
      <4>2. default' = default
        BY <3>1, <3>6 DEF Collected
      <4>3. CASE Ordinary = {} /\ default = 0
        BY <3>3, <4>1, <4>2, <4>3 DEF DefaultInv, DefaultIsNearest
      <4>4. CASE ~(Ordinary = {} /\ default = 0)
        <5>1. PICK m \in Ordinary :
                /\ \A k \in Ordinary : k <= m
                /\ default = IF ConstantValue[declared[m].init] \in Compound THEN m ELSE 0
          BY <3>3, <4>4 DEF DefaultIsNearest
        <5>2. declared'[m] = declared[m]
          BY <3>2, <3>4, <5>1
        <5>3. default' = IF ConstantValue[declared'[m].init] \in Compound THEN m ELSE 0
          BY <4>2, <5>1, <5>2
        <5> QED BY <3>3, <4>1, <5>1, <5>3 DEF DefaultInv, DefaultIsNearest
      <4> QED BY <4>3, <4>4
    <3> QED BY <3>5, <3>6
  <2>5. CASE Supplement
    BY <2>5 DEF Supplement, DefaultInv, DefaultIsNearest
  <2>6. CASE Generate
    BY <2>6 DEF Generate, DefaultInv, DefaultIsNearest
  <2>7. CASE Propagate
    BY <2>7 DEF Propagate, DefaultInv, DefaultIsNearest
  <2>8. CASE Publish
    BY <2>8 DEF Publish, DefaultInv, DefaultIsNearest
  <2>9. CASE UNCHANGED compilationVars
    BY <2>9 DEF compilationVars, DefaultInv, DefaultIsNearest, Ordinary
  <2> QED BY <2>1, <2>2, <2>3, <2>4, <2>5, <2>6, <2>7, <2>8, <2>9 DEF CompilationNext
<1> QED BY <1>1, <1>2, CompilationTypeCorrect, PTL DEF CompilationSpec

-----------------------------------------------------------------------------
(* Receivers.                                                                *)

\* The functions marked in a pass.
In(uses) == {f \in 1..Functions : uses[f]}

\* What one function's turn does: it marks that function, if it must.
LEMMA TurnMarks ==
  ASSUME CompilationParameters, body \in [1..Functions -> Bodies],
         NEW uses \in [1..Functions -> BOOLEAN], NEW f \in 1..Functions
  PROVE  /\ \A g \in 1..Functions : uses[g] => Marked(uses, f)[g]
         /\ \A g \in 1..Functions : g # f /\ Marked(uses, f)[g] => uses[g]
         /\ Marked(uses, f)[f] <=> uses[f] \/ \E c \in body[f] \ {UsesSelf} : c = Unknown \/ uses[c]
BY DEF Marked

\* A pass keeps what is marked, marks nothing that a closed set leaves out, and marks every
\* function that calls one marked before it.
LEMMA PassMarks ==
  ASSUME CompilationParameters, body \in [1..Functions -> Bodies],
         NEW uses \in [1..Functions -> BOOLEAN]
  PROVE  /\ In(uses) \subseteq In(Pass(uses))
         /\ \A closed \in SUBSET (1..Functions) :
              Closed(closed) /\ In(uses) \subseteq closed => In(Pass(uses)) \subseteq closed
         /\ \A f \in 1..Functions :
              (\E c \in body[f] \ {UsesSelf} : c = Unknown \/ uses[c]) => f \in In(Pass(uses))
<1>1. Functions \in Nat
  BY DEF CompilationParameters
<1>2. PICK after \in [0..Functions -> [1..Functions -> BOOLEAN]] :
        /\ after[0] = uses /\ after[Functions] = Pass(uses)
        /\ \A f \in 1..Functions : after[f] = Marked(after[f - 1], f)
  BY PassIs
<1>3. ASSUME NEW f \in Nat, f + 1 <= Functions
      PROVE  /\ f \in 0..Functions /\ f + 1 \in 1..Functions /\ f + 1 \in 0..Functions
             /\ after[f] \in [1..Functions -> BOOLEAN]
             /\ after[f + 1] = Marked(after[f], f + 1)
  <2>1. f \in 0..Functions /\ f + 1 \in 1..Functions /\ (f + 1) - 1 = f
    BY <1>1, <1>3
  <2> QED BY <1>2, <2>1
<1>4. \A f \in Nat : f <= Functions => In(uses) \subseteq In(after[f])
  <2> DEFINE T == {f \in Nat : f <= Functions => In(uses) \subseteq In(after[f])}
  <2>1. 0 \in T
    BY <1>2
  <2>2. ASSUME NEW f \in Nat, f \in T
        PROVE  f + 1 \in T
    <3> SUFFICES ASSUME f + 1 <= Functions
                 PROVE  In(uses) \subseteq In(after[f + 1])
      OBVIOUS
    <3>1. In(uses) \subseteq In(after[f])
      BY <1>1, <2>2
    <3>2. \A g \in 1..Functions : after[f][g] => after[f + 1][g]
      <4>1. after[f] \in [1..Functions -> BOOLEAN] /\ f + 1 \in 1..Functions
            /\ after[f + 1] = Marked(after[f], f + 1)
        BY <1>3
      <4> QED BY <4>1, TurnMarks
    <3> QED BY <3>1, <3>2 DEF In
  <2> HIDE DEF T
  <2>3. \A f \in Nat : f \in T
    BY <2>1, <2>2, Induction
  <2> QED BY <2>3 DEF T
<1>5. ASSUME NEW closed \in SUBSET (1..Functions), Closed(closed), In(uses) \subseteq closed
      PROVE  In(Pass(uses)) \subseteq closed
  <2> DEFINE T == {f \in Nat : f <= Functions => In(after[f]) \subseteq closed}
  <2>1. 0 \in T
    BY <1>2, <1>5
  <2>2. ASSUME NEW f \in Nat, f \in T
        PROVE  f + 1 \in T
    <3> SUFFICES ASSUME f + 1 <= Functions, NEW g \in In(after[f + 1])
                 PROVE  g \in closed
      OBVIOUS
    <3>0. after[f] \in [1..Functions -> BOOLEAN] /\ f + 1 \in 1..Functions
          /\ after[f + 1] = Marked(after[f], f + 1)
      BY <1>3
    <3>1. In(after[f]) \subseteq closed
      BY <1>1, <2>2
    <3>2. g \in 1..Functions /\ after[f + 1][g]
      BY DEF In
    <3>3. CASE g # f + 1
      <4>1. g # f + 1 /\ Marked(after[f], f + 1)[g]
        BY <3>0, <3>2, <3>3
      <4>2. after[f][g]
        BY <3>0, <3>2, <4>1, TurnMarks
      <4> QED BY <3>1, <3>2, <4>2 DEF In
    <3>4. CASE g = f + 1
      <4>0. Marked(after[f], g)[g]
        BY <3>0, <3>2, <3>4
      <4>1. after[f][g] \/ \E c \in body[g] \ {UsesSelf} : c = Unknown \/ after[f][c]
        BY <3>0, <3>2, <4>0, TurnMarks
      <4>2. CASE after[f][g]
        BY <3>1, <3>2, <4>2 DEF In
      <4>3. CASE \E c \in body[g] \ {UsesSelf} : c = Unknown \/ after[f][c]
        <5>1. PICK c \in body[g] \ {UsesSelf} : c = Unknown \/ after[f][c]
          BY <4>3
        <5>2. c \in {Unknown} \cup 1..Functions
          BY <3>2, <5>1 DEF Bodies
        <5>3. c = Unknown \/ c \in closed
          BY <3>1, <5>1, <5>2 DEF In
        <5> QED BY <1>5, <3>2, <5>1, <5>3 DEF Closed
      <4> QED BY <4>1, <4>2, <4>3
    <3> QED BY <3>3, <3>4
  <2> HIDE DEF T
  <2>3. \A f \in Nat : f \in T
    BY <2>1, <2>2, Induction
  <2>4. In(after[Functions]) \subseteq closed
    BY <1>1, <2>3 DEF T
  <2> QED BY <1>2, <2>4
<1>6. ASSUME NEW f \in 1..Functions, \E c \in body[f] \ {UsesSelf} : c = Unknown \/ uses[c]
      PROVE  f \in In(Pass(uses))
  <2>1. PICK c \in body[f] \ {UsesSelf} : c = Unknown \/ uses[c]
    BY <1>6
  <2>2. c \in {Unknown} \cup 1..Functions
    BY <2>1 DEF Bodies
  <2>3. f - 1 \in Nat /\ (f - 1) + 1 = f /\ f - 1 <= Functions /\ f <= Functions
    BY <1>1
  <2>4. c = Unknown \/ after[f - 1][c]
    <3>1. In(uses) \subseteq In(after[f - 1])
      BY <1>4, <2>3
    <3> QED BY <2>1, <2>2, <3>1 DEF In
  <2>5. after[f][f]
    <3>1. after[f - 1] \in [1..Functions -> BOOLEAN] /\ after[f] = Marked(after[f - 1], f)
      BY <1>3, <2>3
    <3> QED BY <2>1, <2>4, <3>1, TurnMarks
  <2> DEFINE T == {g \in Nat : f + g <= Functions => after[f + g][f]}
  <2>6. 0 \in T
    BY <2>5
  <2>7. ASSUME NEW g \in Nat, g \in T
        PROVE  g + 1 \in T
    <3> SUFFICES ASSUME f + (g + 1) <= Functions
                 PROVE  after[f + (g + 1)][f]
      OBVIOUS
    <3>1. f + g \in Nat /\ (f + g) + 1 = f + (g + 1) /\ (f + g) + 1 <= Functions /\ f + g <= Functions
      BY <1>1
    <3>2. after[f + g][f]
      BY <2>7, <3>1
    <3>3. after[f + g] \in [1..Functions -> BOOLEAN] /\ (f + g) + 1 \in 1..Functions
          /\ after[(f + g) + 1] = Marked(after[f + g], (f + g) + 1)
      BY <1>3, <3>1
    <3>4. after[(f + g) + 1][f]
      BY <3>2, <3>3, TurnMarks
    <3> QED BY <3>1, <3>4
  <2> HIDE DEF T
  <2>8. \A g \in Nat : g \in T
    BY <2>6, <2>7, Induction
  <2>9. Functions - f \in Nat /\ f + (Functions - f) = Functions
    BY <1>1
  <2>10. after[Functions][f]
    BY <2>8, <2>9 DEF T
  <2> QED BY <1>2, <2>10 DEF In
<1>7. In(uses) \subseteq In(Pass(uses))
  BY <1>1, <1>2, <1>4
<1> QED BY <1>5, <1>6, <1>7

\* The functions marked so far are in every closed set; a propagation that ended left them
\* closed.
ReceiverInv ==
  phase \in {"receivers", "published"} =>
    /\ body \in [1..Functions -> Bodies]
    /\ \A f \in 1..Functions : debug \/ UsesSelf \in body[f] => usesSelf[f]
    /\ \A closed \in SUBSET (1..Functions) : Closed(closed) => In(usesSelf) \subseteq closed
    /\ ~changed => Closed(In(usesSelf))
    /\ phase = "published" => ~changed

\* Exactly the functions that may need a receiver are given one, in any call graph.
THEOREM ReceiversLeast ==
  ASSUME CompilationParameters
  PROVE  CompilationSpec => []ReceiversExact
<1>1. CompilationInit => ReceiverInv
  BY DEF CompilationInit, ReceiverInv
<1>2. CompilationTypeOK /\ ReceiverInv /\ [CompilationNext]_compilationVars => ReceiverInv'
  <2> SUFFICES ASSUME CompilationTypeOK, ReceiverInv, [CompilationNext]_compilationVars
               PROVE  ReceiverInv'
    OBVIOUS
  <2> USE DEF walk, defaults, receivers
  <2>1. CASE WalkOn
    BY <2>1 DEF WalkOn, ReceiverInv
  <2>2. CASE WalkEnds
    BY <2>2 DEF WalkEnds, ReceiverInv
  <2>3. CASE Parse
    BY <2>3 DEF Parse, ReceiverInv
  <2>4. CASE Collect
    BY <2>4 DEF Collect, ReceiverInv
  <2>5. CASE Supplement
    BY <2>5 DEF Supplement, ReceiverInv
  <2>6. CASE Generate
    <3>1. /\ phase' = "receivers" /\ changed' = TRUE
          /\ body' \in [1..Functions -> Bodies] /\ debug' \in BOOLEAN
          /\ usesSelf' = [f \in 1..Functions |-> debug' \/ UsesSelf \in body'[f]]
      BY <2>6 DEF Generate
    <3>2. \A f \in 1..Functions : usesSelf'[f] <=> debug' \/ UsesSelf \in body'[f]
      BY <3>1
    <3>3. ASSUME NEW closed \in SUBSET (1..Functions), Closed(closed)'
          PROVE  In(usesSelf') \subseteq closed
      <4>1. \A f \in 1..Functions : debug' \/ UsesSelf \in body'[f] => f \in closed
        BY <3>3 DEF Closed
      <4> QED BY <3>2, <4>1 DEF In
    <3> QED BY <3>1, <3>2, <3>3 DEF ReceiverInv
  <2>7. CASE Propagate
    <3>1. /\ phase = "receivers" /\ phase' = "receivers" /\ body' = body /\ debug' = debug
          /\ usesSelf' = Pass(usesSelf) /\ changed' = (Pass(usesSelf) # usesSelf)
      BY <2>7 DEF Propagate
    <3>2. /\ body \in [1..Functions -> Bodies] /\ usesSelf \in [1..Functions -> BOOLEAN]
          /\ \A f \in 1..Functions : debug \/ UsesSelf \in body[f] => usesSelf[f]
          /\ \A closed \in SUBSET (1..Functions) : Closed(closed) => In(usesSelf) \subseteq closed
      BY <3>1 DEF ReceiverInv, CompilationTypeOK
    <3> DEFINE next == Pass(usesSelf)
    <3> HIDE DEF next
    <3>3. /\ In(usesSelf) \subseteq In(next)
          /\ \A closed \in SUBSET (1..Functions) :
               Closed(closed) /\ In(usesSelf) \subseteq closed => In(next) \subseteq closed
          /\ \A f \in 1..Functions :
               (\E c \in body[f] \ {UsesSelf} : c = Unknown \/ usesSelf[c]) => f \in In(next)
      BY <3>2, PassMarks DEF next
    <3>4. usesSelf' = next /\ (~changed' => next = usesSelf)
      BY <3>1 DEF next
    <3>5. \A f \in 1..Functions : debug' \/ UsesSelf \in body'[f] => usesSelf'[f]
      BY <3>1, <3>2, <3>3, <3>4 DEF In
    <3>6. ASSUME NEW closed \in SUBSET (1..Functions), Closed(closed)'
          PROVE  In(usesSelf') \subseteq closed
      <4>1. Closed(closed)
        BY <3>1, <3>6 DEF Closed
      <4> QED BY <3>2, <3>3, <3>4, <4>1
    <3>7. ASSUME ~changed', NEW f \in 1..Functions,
                 debug \/ body[f] \cap (In(usesSelf) \cup {UsesSelf, Unknown}) # {}
          PROVE  f \in In(usesSelf)
      <4>1. CASE debug \/ UsesSelf \in body[f]
        BY <3>2, <4>1 DEF In
      <4>2. CASE ~(debug \/ UsesSelf \in body[f])
        <5>1. PICK c \in body[f] : c \in In(usesSelf) \cup {UsesSelf, Unknown}
          BY <3>7, <4>2
        <5>2. c # UsesSelf
          BY <4>2
        <5>3. c = Unknown \/ usesSelf[c]
          BY <5>1, <5>2 DEF In
        <5>4. f \in In(next)
          BY <3>3, <5>2, <5>3
        <5> QED BY <3>4, <3>7, <5>4
      <4> QED BY <3>7, <4>1, <4>2
    <3>8. ~changed' => Closed(In(usesSelf))'
      BY <3>1, <3>4, <3>7 DEF Closed
    <3> QED BY <3>1, <3>2, <3>5, <3>6, <3>8 DEF ReceiverInv
  <2>8. CASE Publish
    <3>1. UNCHANGED receivers /\ phase = "receivers" /\ ~changed
      BY <2>8 DEF Publish
    <3> QED BY <3>1 DEF ReceiverInv, Closed
  <2>9. CASE UNCHANGED compilationVars
    BY <2>9 DEF compilationVars, ReceiverInv, Closed
  <2> QED BY <2>1, <2>2, <2>3, <2>4, <2>5, <2>6, <2>7, <2>8, <2>9 DEF CompilationNext
<1>3. ReceiverInv => ReceiversExact
  BY DEF ReceiverInv, ReceiversExact, In
<1> QED BY <1>1, <1>2, <1>3, CompilationTypeCorrect, PTL DEF CompilationSpec

-----------------------------------------------------------------------------
(* The regions open at the ends of the lines.                                *)

\* The region at the end of a line comes from the line and the region before it.
Follows(at, document, declares, first, last) ==
  \A l \in first..(last - 1) : at[l + 1] = Scan(document[l + 1], at[l], declares).open

\* What the recursion says, without it.
LEMMA OpenFollows ==
  ASSUME NEW first \in Nat, NEW region, NEW document, Len(document) \in Nat, NEW declares,
         first <= Len(document)
  PROVE  /\ OpenFrom(first, region, document, declares)[first] = region
         /\ Follows(OpenFrom(first, region, document, declares), document, declares, first, Len(document))
<1> DEFINE N == Len(document)
           Next1(l, r) == Scan(document[l], r, declares).open
           Upto(at, n) == at = [l \in first..(first + n) |-> IF l = first THEN region ELSE Next1(l, at[l - 1])]
           Solves(at) == at = [l \in first..N |-> IF l = first THEN region ELSE Next1(l, at[l - 1])]
           T == {n \in Nat : \E at : Upto(at, n)}
<1> HIDE DEF Next1, N
<1>1. 0 \in T
  <2> DEFINE at == [l \in first..(first + 0) |-> region]
  <2>1. Upto(at, 0)
    OBVIOUS
  <2> QED BY <2>1
<1>2. ASSUME NEW n \in Nat, n \in T
      PROVE  n + 1 \in T
  <2>1. PICK at : Upto(at, n)
    BY <1>2
  <2> DEFINE m == first + (n + 1)
             longer == [l \in first..m |-> IF l = m THEN Next1(m, at[m - 1]) ELSE at[l]]
  <2>2. \A l \in first..(first + n) : at[l] = IF l = first THEN region ELSE Next1(l, at[l - 1])
    BY <2>1
  <2>3. ASSUME NEW l \in first..m
        PROVE  longer[l] = IF l = first THEN region ELSE Next1(l, longer[l - 1])
    <3>1. CASE l = m
      <4>1. l # first /\ l - 1 \in first..m /\ l - 1 # m /\ m \in first..m
        BY <3>1
      <4> QED BY <3>1, <4>1
    <3>2. CASE l = first
      <4>1. l # m /\ l \in first..(first + n)
        BY <3>2
      <4> QED BY <2>2, <3>2, <4>1
    <3>3. CASE l # m /\ l # first
      <4>1. l - 1 \in first..m /\ l - 1 # m /\ l \in first..(first + n)
        BY <3>3
      <4> QED BY <2>2, <3>3, <4>1
    <3> QED BY <3>1, <3>2, <3>3
  <2>4. Upto(longer, n + 1)
    BY <2>3
  <2>5. \E other : Upto(other, n + 1)
    <3> HIDE DEF longer, Upto
    <3> QED BY <2>4
  <2> QED BY <2>5
<1>3. \A n \in Nat : n \in T
  <2> HIDE DEF T
  <2> QED BY <1>1, <1>2, Induction
<1>4. \E at : Solves(at)
  <2>1. N - first \in Nat /\ first + (N - first) = N
    BY DEF N
  <2>2. PICK at : Upto(at, N - first)
    BY <1>3, <2>1
  <2> QED BY <2>1, <2>2
<1> DEFINE at == OpenFrom(first, region, document, declares)
<1>5. Solves(at)
  <2>1. at = CHOOSE f : Solves(f)
    BY DEF OpenFrom, Next1, N
  <2> HIDE DEF Solves, at
  <2> QED BY <1>4, <2>1
<1> HIDE DEF at
<1>6. at[first] = region
  BY <1>5 DEF N
<1>7. ASSUME NEW l \in first..(N - 1)
      PROVE  at[l + 1] = Next1(l + 1, at[l])
  <2>1. l + 1 \in first..N /\ l + 1 # first /\ (l + 1) - 1 = l
    BY DEF N
  <2> QED BY <1>5, <2>1
<1> QED BY <1>6, <1>7 DEF Follows, at, Next1, N

\* Two scans that start alike and see the same lines stay alike.
LEMMA Agree ==
  ASSUME NEW first \in Nat, NEW last \in Nat, NEW a, NEW b, NEW d, NEW e, NEW declares,
         a[first] = b[first], Follows(a, d, declares, first, last), Follows(b, e, declares, first, last),
         \A l \in (first + 1)..last : d[l] = e[l]
  PROVE  \A l \in first..last : a[l] = b[l]
<1> DEFINE T == {n \in Nat : first + n <= last => a[first + n] = b[first + n]}
<1>1. 0 \in T
  OBVIOUS
<1>2. ASSUME NEW n \in Nat, n \in T
      PROVE  n + 1 \in T
  <2> SUFFICES ASSUME first + (n + 1) <= last
               PROVE  a[first + (n + 1)] = b[first + (n + 1)]
    OBVIOUS
  <2>1. first + n \in first..(last - 1) /\ (first + n) + 1 = first + (n + 1)
        /\ (first + n) + 1 \in (first + 1)..last
    OBVIOUS
  <2>2. a[first + n] = b[first + n] /\ d[(first + n) + 1] = e[(first + n) + 1]
    BY <1>2, <2>1
  <2>3. /\ a[(first + n) + 1] = Scan(d[(first + n) + 1], a[first + n], declares).open
        /\ b[(first + n) + 1] = Scan(e[(first + n) + 1], b[first + n], declares).open
    BY <2>1 DEF Follows
  <2> QED BY <2>1, <2>2, <2>3
<1>3. \A n \in Nat : n \in T
  <2> HIDE DEF T
  <2> QED BY <1>1, <1>2, Induction
<1> QED
  <2> SUFFICES ASSUME NEW l \in first..last
               PROVE  a[l] = b[l]
    OBVIOUS
  <2>1. l - first \in Nat /\ first + (l - first) = l /\ l <= last
    OBVIOUS
  <2> QED BY <1>3, <2>1

-----------------------------------------------------------------------------
(* Scanning a line ends within it.                                           *)

\* What a line may leave open.
Opens == {0} \cup DOMAIN Delimiters

\* Opening delimiters are one to three symbols.
LEMMA Sizes ==
  /\ DOMAIN Delimiters = 1..6
  /\ \A r \in 1..6 : Len(Delimiters[r].start) \in 1..3 /\ Len(Delimiters[r].stop) \in Nat
BY DEF Delimiters, Delimiter, Triple

\* The region that opens at a column is one of the table, and its delimiter is in the line.
LEMMA DelimiterStands ==
  ASSUME NEW t, Len(t) \in Nat, NEW i \in 1..Len(t)
  PROVE  /\ MatchRegion(t, i) \in Opens
         /\ MatchRegion(t, i) # 0 => i + Len(Delimiters[MatchRegion(t, i)].start) <= Len(t) + 1
<1> DEFINE Size(r) == Len(Delimiters[r].start)
           matching == {r \in DOMAIN Delimiters : StandsAt(t, i, Delimiters[r].start)}
           Best(r) == \A s \in matching : Precedes(r, s)
<1>1. matching \subseteq 1..6 /\ \A r \in matching : Size(r) \in 1..3
  BY Sizes
<1>2. \A r, s \in matching : Precedes(r, s) <=> Size(r) > Size(s) \/ (Size(r) = Size(s) /\ r <= s)
  BY DEF Precedes
<1>3. MatchRegion(t, i) = IF matching = {} THEN 0 ELSE CHOOSE r \in matching : Best(r)
  BY DEF MatchRegion
<1>4. \A r \in matching : i + Size(r) <= Len(t) + 1
  BY DEF StandsAt
<1> HIDE DEF matching, Size
<1>5. ASSUME matching # {}
      PROVE  \E r \in matching : Best(r)
  <2> DEFINE Slack == {3 - Size(r) : r \in matching}
  <2>1. Slack \subseteq Nat /\ Slack # {}
    <3>1. \A r \in matching : 3 - Size(r) \in Nat
      BY <1>1
    <3> QED BY <1>5, <3>1
  <2>2. PICK least \in Slack : \A k \in Slack : least <= k
    <3> HIDE DEF Slack
    <3> QED BY <2>1, Least
  <2> DEFINE longest == {r \in matching : 3 - Size(r) = least}
  <2>3. longest \subseteq Nat /\ longest # {}
    <3>1. PICK r \in matching : 3 - Size(r) = least
      OBVIOUS
    <3>2. r \in longest /\ \A s \in longest : s \in matching
      BY <3>1
    <3> HIDE DEF longest
    <3> QED BY <1>1, <3>2
  <2>4. PICK r \in longest : \A s \in longest : r <= s
    <3> HIDE DEF longest
    <3> QED BY <2>3, Least
  <2>5. ASSUME NEW s \in matching
        PROVE  Precedes(r, s)
    <3>1. Size(s) \in 1..3 /\ Size(r) \in 1..3 /\ r \in matching /\ 3 - Size(r) = least
      BY <1>1
    <3>2. least <= 3 - Size(s)
      BY <2>2
    <3>3. CASE 3 - Size(s) = least
      <4>1. r <= s
        BY <2>4, <3>3
      <4> QED BY <1>2, <3>1, <3>3, <4>1
    <3>4. CASE 3 - Size(s) # least
      BY <1>2, <3>1, <3>2, <3>4
    <3> QED BY <3>3, <3>4
  <2> QED BY <2>5
<1>6. matching # {} => MatchRegion(t, i) \in matching
  BY <1>3, <1>5
<1> QED BY <1>1, <1>3, <1>4, <1>6, Sizes DEF Opens, Size

\* A run of symbols ends in the line, and goes on if it begins.
LEMMA RunEnds ==
  ASSUME NEW t, Len(t) \in Nat, NEW from \in 1..(Len(t) + 1), NEW run
  PROVE  /\ RunEnd(t, from, run) \in from..(Len(t) + 1)
         /\ from <= Len(t) /\ t[from] \in run => RunEnd(t, from, run) # from
<1> DEFINE StopsAt(j) == (\A i \in from..(j - 1) : t[i] \in run) /\ (j <= Len(t) => t[j] \notin run)
           T == {j \in from..(Len(t) + 1) : j <= Len(t) => t[j] \notin run}
<1>1. T \subseteq Nat /\ Len(t) + 1 \in T
  OBVIOUS
<1>2. PICK j \in T : \A k \in T : j <= k
  <2> HIDE DEF T
  <2> QED BY <1>1, Least
<1>3. StopsAt(j)
  <2> SUFFICES ASSUME NEW i \in from..(j - 1)
               PROVE  t[i] \in run
    OBVIOUS
  <2>1. i \notin T
    BY <1>2
  <2> QED BY <2>1
<1>4. RunEnd(t, from, run) = CHOOSE k \in from..(Len(t) + 1) : StopsAt(k)
  BY DEF RunEnd
<1>5. RunEnd(t, from, run) \in from..(Len(t) + 1) /\ StopsAt(RunEnd(t, from, run))
  <2> HIDE DEF StopsAt
  <2> QED BY <1>3, <1>4
<1> QED BY <1>5

\* The search for an end delimiter stays in the line.
LEMMA EndStands ==
  ASSUME NEW t, Len(t) \in Nat, NEW from \in 1..(Len(t) + 1), NEW stop, Len(stop) \in Nat,
         stop # <<>> => Len(stop) # 0
  PROVE  LET end == FindRegionEnd(t, from, stop)
         IN end \in {0} \cup from..Len(t) /\ (end # 0 => end + Len(stop) \in (end + 1)..(Len(t) + 1))
<1> DEFINE N == Len(t)
           Nowhere(i) == stop = <<>> \/ i + Len(stop) - 1 > N
           Body(i, seek) == IF Nowhere(i) THEN 0
                            ELSE IF t[i] = "backslash" THEN seek[i + 2]
                            ELSE IF StandsAt(t, i, stop) THEN i
                            ELSE seek[i + 1]
           Solves(seek) == seek = [i \in from..(N + 2) |-> Body(i, seek)]
           Upto(seek, n) == seek = [i \in (N + 2 - n)..(N + 2) |-> Body(i, seek)]
           T == {n \in Nat : \E seek : Upto(seek, n)}
<1>0. N \in Nat /\ from \in 1..(N + 1) /\ \A i \in Int : ~Nowhere(i) => i <= N /\ i + Len(stop) <= N + 1
  OBVIOUS
<1>1. 0 \in T
  <2> DEFINE seek == [i \in (N + 2 - 0)..(N + 2) |-> 0]
  <2>1. \A i \in (N + 2 - 0)..(N + 2) : Body(i, seek) = 0
    BY <1>0
  <2>2. Upto(seek, 0)
    BY <2>1
  <2>3. \E other : Upto(other, 0)
    <3> HIDE DEF seek, Upto
    <3> QED BY <2>2
  <2> QED BY <2>3
<1>2. ASSUME NEW n \in Nat, n \in T
      PROVE  n + 1 \in T
  <2>1. PICK seek : Upto(seek, n)
    BY <1>2
  <2> DEFINE m == N + 2 - (n + 1)
             longer == [i \in m..(N + 2) |-> IF i = m THEN Body(m, seek) ELSE seek[i]]
  <2>2. \A i \in (N + 2 - n)..(N + 2) : seek[i] = Body(i, seek)
    BY <2>1
  <2>3. ASSUME NEW i \in m..(N + 2)
        PROVE  Body(i, longer) = Body(i, seek)
    <3>1. ~Nowhere(i) => i + 1 \in (N + 2 - n)..(N + 2) /\ i + 2 \in (N + 2 - n)..(N + 2)
      BY <1>0
    <3>2. \A j \in (N + 2 - n)..(N + 2) : longer[j] = seek[j]
      BY <1>0
    <3> HIDE DEF Nowhere, longer, m
    <3> QED BY <3>1, <3>2
  <2>4. ASSUME NEW i \in m..(N + 2)
        PROVE  longer[i] = Body(i, longer)
    <3>1. CASE i = m
      BY <2>3, <3>1
    <3>2. CASE i # m
      <4>1. i \in (N + 2 - n)..(N + 2)
        BY <1>0, <3>2
      <4> HIDE DEF Body
      <4> QED BY <2>2, <2>3, <3>2, <4>1
    <3> QED BY <3>1, <3>2
  <2>5. Upto(longer, n + 1)
    <3> HIDE DEF Body
    <3> QED BY <2>4
  <2>6. \E other : Upto(other, n + 1)
    <3> HIDE DEF longer, Upto
    <3> QED BY <2>5
  <2> QED BY <2>6, SMTT(30)
<1>3. \A n \in Nat : n \in T
  <2> HIDE DEF T
  <2> QED BY <1>1, <1>2, Induction
<1>4. \E seek : Solves(seek)
  <2>1. N + 2 - from \in Nat /\ N + 2 - (N + 2 - from) = from
    BY <1>0
  <2>2. PICK seek : Upto(seek, N + 2 - from)
    BY <1>3, <2>1
  <2> QED BY <2>1, <2>2
<1> DEFINE seek == CHOOSE seek : Solves(seek)
<1>5. FindRegionEnd(t, from, stop) = seek[from]
  BY DEF FindRegionEnd
<1>6. Solves(seek)
  <2> HIDE DEF Solves
  <2> QED BY <1>4
<1> HIDE DEF seek
<1> DEFINE Finds(i, end) == end = 0 \/ (end \in i..N /\ ~Nowhere(end))
           S == {n \in Nat : \A i \in from..(N + 2) : i >= N + 2 - n => Finds(i, seek[i])}
<1>7. \A i \in from..(N + 2) : seek[i] = Body(i, seek)
  BY <1>6
<1>8. 0 \in S
  BY <1>0, <1>7
<1>9. ASSUME NEW n \in Nat, n \in S
      PROVE  n + 1 \in S
  <2> SUFFICES ASSUME NEW i \in from..(N + 2), i >= N + 2 - (n + 1)
               PROVE  Finds(i, seek[i])
    OBVIOUS
  <2>1. \A j \in from..(N + 2) : j >= N + 2 - n => Finds(j, seek[j])
    BY <1>9
  <2>2. ASSUME ~Nowhere(i)
        PROVE  Finds(i, seek[i + 1]) /\ Finds(i, seek[i + 2])
    <3>1. /\ i + 1 \in from..(N + 2) /\ i + 2 \in from..(N + 2)
          /\ i + 1 >= N + 2 - n /\ i + 2 >= N + 2 - n
      BY <1>0, <2>2
    <3>2. Finds(i + 1, seek[i + 1]) /\ Finds(i + 2, seek[i + 2])
      BY <2>1, <3>1
    <3> HIDE DEF Nowhere
    <3> QED BY <1>0, <3>2
  <2>3. ~Nowhere(i) => Finds(i, i)
    BY <1>0
  <2> HIDE DEF Nowhere, Finds
  <2>4. Finds(i, 0)
    BY DEF Finds
  <2> QED BY <1>7, <2>2, <2>3, <2>4
<1>10. \A n \in Nat : n \in S
  <2> HIDE DEF S
  <2> QED BY <1>8, <1>9, Induction
<1>11. Finds(from, seek[from])
  <2>1. N + 2 \in Nat /\ from \in from..(N + 2) /\ from >= N + 2 - (N + 2)
    BY <1>0
  <2> QED BY <1>10, <2>1
<1> QED BY <1>0, <1>5, <1>11

\* A quoted name or a run ends in the line.
LEMMA QuotedEnds ==
  ASSUME NEW t, Len(t) \in Nat, NEW from \in 1..(Len(t) + 1), NEW run
  PROVE  QuotedOr(t, from, run) \in from..(Len(t) + 1)
<1>1. CASE Is(t, from, {"dquote", "squote"})
  <2> DEFINE end == FindRegionEnd(t, from + 1, <<t[from]>>)
  <2>1. from + 1 \in 1..(Len(t) + 1)
    BY <1>1 DEF Is
  <2>2. Len(<<t[from]>>) = 1
    OBVIOUS
  <2>3. end \in {0} \cup (from + 1)..Len(t)
    BY <2>1, <2>2, EndStands
  <2> HIDE DEF end
  <2>4. QuotedOr(t, from, run) = IF end = 0 THEN Len(t) + 1 ELSE end + 1
    BY <1>1 DEF QuotedOr, SkipQuoted, end
  <2> QED BY <2>1, <2>3, <2>4
<1>2. CASE ~Is(t, from, {"dquote", "squote"})
  BY <1>2, RunEnds DEF QuotedOr
<1> QED BY <1>1, <1>2

\* Every token takes the scan further.
LEMMA TokenEnds ==
  ASSUME NEW t, Len(t) \in Nat, NEW i \in 1..Len(t), NEW previous, NEW declares
  PROVE  Token(t, i, previous, declares).next \in (i + 1)..(Len(t) + 1)
<1> DEFINE N == Len(t)
           run == IdentChars \cup {"slash"} \cup (IF t[i] = "dollar" THEN {"percent"} ELSE {})
           path == QuotedOr(t, i + 1, run)
           At == t[i] = "at" /\ Is(t, i + 1, Words)
           Path == (t[i] = "dollar" \/ (t[i] = "percent" /\ ~FollowsValue(t, i))) /\ path > i + 1
           Name == t[i] = "amp" /\ ~FollowsValue(t, i) /\ Is(t, i + 1, {"dquote", "squote"} \cup Words)
           Number == t[i] = "num" \/ (t[i] = "dot" /\ Is(t, i + 1, {"num"}) /\ PreviousVisible(t, i) \notin IdentChars)
           token == Token(t, i, previous, declares)
<1>0. i + 1 \in 1..(N + 1) /\ N \in Nat
  OBVIOUS
<1>1. \/ At /\ token.next = RunEnd(t, i + 1, IdentChars)
      \/ Path /\ token.next = path
      \/ Name /\ token.next = QuotedOr(t, i + 1, IdentChars)
      \/ t[i] \in Words /\ token.next = RunEnd(t, i, IdentChars)
      \/ Number /\ token.next = RunEnd(t, i, IdentChars \cup {"dot"})
      \/ token.next = i + 1
  <2> DEFINE Upto(color, next) == [color |-> color, next |-> next]
  <2>1. token =
          CASE At -> Upto("annotation", RunEnd(t, i + 1, IdentChars))
            [] Path -> Upto(IF t[i] = "dollar" THEN "path" ELSE "node", path)
            [] Name -> Upto("name", QuotedOr(t, i + 1, IdentChars))
            [] t[i] \in Words -> Upto(WordColor(t, i, previous, declares), RunEnd(t, i, IdentChars))
            [] Number -> Upto("number", RunEnd(t, i, IdentChars \cup {"dot"}))
            [] OTHER -> Upto("symbol", i + 1)
    BY DEF Token
  <2> HIDE DEF At, Path, Name, Number, path, token
  <2> QED BY <2>1
<1>2. t[i] \in Words => RunEnd(t, i, IdentChars) \in (i + 1)..(N + 1)
  BY RunEnds DEF IdentChars
<1>3. Number => RunEnd(t, i, IdentChars \cup {"dot"}) \in (i + 1)..(N + 1)
  BY RunEnds DEF IdentChars
<1>4. /\ RunEnd(t, i + 1, IdentChars) \in (i + 1)..(N + 1)
      /\ QuotedOr(t, i + 1, IdentChars) \in (i + 1)..(N + 1)
      /\ path \in (i + 1)..(N + 1)
  BY <1>0, RunEnds, QuotedEnds
<1> HIDE DEF At, Path, Name, Number, path, token
<1>5. token.next \in (i + 1)..(N + 1)
  BY <1>0, <1>1, <1>2, <1>3, <1>4
<1> QED BY <1>5 DEF token

\* What a scan gives, whatever its colours.
Result(region, colors) == [open |-> region, colors |-> colors]
Outcome(x) == \E region \in Opens : \E colors : x = Result(region, colors)
Put(i, color, rest) == [rest EXCEPT !.colors = With(@, i, color)]

\* What the scan does at a column, given what it does at the later ones.
Before == {"", "func", "word"}
Entered(r, end, from) ==
  IF LineOnly(Delimiters[r]) THEN Result(0, <<>>)
  ELSE IF end = 0 THEN Result(r, <<>>)
  ELSE from[end + Len(Delimiters[r].stop)][""]
Opened(t, i, r, token, from) ==
  IF r = 0 THEN Put(i, token.color, from[token.next][IF t[i] \in Words THEN t[i] ELSE ""])
  ELSE Put(i, Delimiters[r].color,
           Entered(r, FindRegionEnd(t, i + Len(Delimiters[r].start), Delimiters[r].stop), from))
ScansOn(t, declares, i, from) ==
  [previous \in Before |->
     IF i > Len(t) THEN Result(0, <<>>)
     ELSE IF t[i] = "space" THEN from[i + 1][previous]
     ELSE Opened(t, i, MatchRegion(t, i), Token(t, i, previous, declares), from)]

\* A scan says what is found from a column on.
IsScan(t, declares, from) == from = [i \in 1..(Len(t) + 1) |-> ScansOn(t, declares, i, from)]

\* Scan is the recursion over its columns.
LEMMA ScanIs ==
  ASSUME NEW t, NEW entry, NEW declares
  PROVE  LET end == FindRegionEnd(t, 1, Delimiters[entry].stop)
             from == CHOOSE from : IsScan(t, declares, from)
         IN Scan(t, entry, declares) =
              IF entry = 0 THEN from[1][""]
              ELSE IF end = 0 THEN Result(entry, <<Delimiters[entry].color>>)
              ELSE Put(1, Delimiters[entry].color, from[end + Len(Delimiters[entry].stop)][""])
BY DEF Scan, IsScan, ScansOn, Opened, Entered, Result, Put, Before

\* A colour leaves what is open.
LEMMA PutKeeps ==
  ASSUME NEW i, NEW color
  PROVE  /\ \A region, colors : Put(i, color, Result(region, colors)) = Result(region, With(colors, i, color))
         /\ \A x : Outcome(x) => Outcome(Put(i, color, x))
<1>1. ASSUME NEW region, NEW colors
      PROVE  Put(i, color, Result(region, colors)) = Result(region, With(colors, i, color))
  BY DEF Put, Result, With
<1>2. ASSUME NEW x, Outcome(x)
      PROVE  Outcome(Put(i, color, x))
  BY <1>1, <1>2 DEF Outcome
<1> QED BY <1>1, <1>2

\* A region goes on to its end, or past the line.
LEMMA RegionEnds ==
  ASSUME NEW t, Len(t) \in Nat, NEW r \in DOMAIN Delimiters, NEW i \in 1..(Len(t) + 1)
  PROVE  LET end == FindRegionEnd(t, i, Delimiters[r].stop)
         IN end # 0 => end + Len(Delimiters[r].stop) \in (i + 1)..(Len(t) + 1)
<1> DEFINE stop == Delimiters[r].stop
           end == FindRegionEnd(t, i, stop)
<1>1. Len(stop) \in Nat /\ (stop # <<>> => Len(stop) # 0)
  BY DEF Delimiters, Delimiter, Triple
<1> HIDE DEF stop
<1>2. end \in {0} \cup i..Len(t) /\ (end # 0 => end + Len(stop) \in (end + 1)..(Len(t) + 1))
  BY <1>1, EndStands
<1> HIDE DEF end
<1>3. end # 0 => end + Len(stop) \in (i + 1)..(Len(t) + 1)
  BY <1>1, <1>2
<1> QED BY <1>3 DEF end, stop

\* At a column the scan ends, or says what it finds from a later one on.
GoesOn(t, declares, i, previous) ==
  \/ \E x : Outcome(x) /\ \A f : ScansOn(t, declares, i, f)[previous] = x
  \/ \E j \in (i + 1)..(Len(t) + 1), q \in Before :
       \/ \A f : ScansOn(t, declares, i, f)[previous] = f[j][q]
       \/ \E color : \A f : ScansOn(t, declares, i, f)[previous] = Put(i, color, f[j][q])

\* So it is at every column.
LEMMA ScanGoesOn ==
  ASSUME NEW t, Len(t) \in Nat, NEW declares, NEW i \in 1..(Len(t) + 1), NEW previous \in Before
  PROVE  GoesOn(t, declares, i, previous)
<1> DEFINE N == Len(t)
           r == MatchRegion(t, i)
           token == Token(t, i, previous, declares)
           word == IF t[i] \in Words THEN t[i] ELSE ""
<1>1. \A f : ScansOn(t, declares, i, f)[previous] =
               IF i > N THEN Result(0, <<>>)
               ELSE IF t[i] = "space" THEN f[i + 1][previous]
               ELSE Opened(t, i, r, token, f)
  BY DEF ScansOn
<1>2. 0 \in Opens /\ "" \in Before /\ word \in Before
  BY DEF Opens, Words, Before
<1>3. \A region \in Opens : \A colors : Outcome(Result(region, colors))
  BY DEF Outcome
<1> HIDE DEF r, token, word
<1> USE DEF GoesOn
<1>4. CASE i > N
  BY <1>1, <1>2, <1>3, <1>4
<1>5. CASE i <= N /\ t[i] = "space"
  BY <1>1, <1>5
<1>6. CASE i <= N /\ t[i] # "space" /\ r = 0
  <2>1. token.next \in (i + 1)..(N + 1)
    BY <1>6, TokenEnds DEF token
  <2>2. \A f : ScansOn(t, declares, i, f)[previous] = Put(i, token.color, f[token.next][word])
    <3>1. \A f : Opened(t, i, r, token, f) = Put(i, token.color, f[token.next][word])
      BY <1>6 DEF Opened, word
    <3> QED BY <1>1, <1>6, <3>1
  <2> QED BY <1>2, <2>1, <2>2, ZenonT(30)
<1>7. CASE i <= N /\ t[i] # "space" /\ r # 0
  <2> DEFINE next == i + Len(Delimiters[r].start)
             end == FindRegionEnd(t, next, Delimiters[r].stop)
             color == Delimiters[r].color
  <2>1. \A f : ScansOn(t, declares, i, f)[previous] = Put(i, color, Entered(r, end, f))
    BY <1>1, <1>7 DEF Opened
  <2>2. r \in Opens /\ next <= N + 1
    BY <1>7, DelimiterStands DEF r
  <2>3. r \in DOMAIN Delimiters
    BY <1>7, <2>2 DEF Opens
  <2>4. next \in (i + 1)..(N + 1)
    <3> DEFINE size == Len(Delimiters[r].start)
    <3>1. size \in 1..3
      BY <2>3, Sizes
    <3>2. i + size <= N + 1
      BY <2>2
    <3> HIDE DEF size
    <3>3. i + size \in (i + 1)..(N + 1)
      BY <3>1, <3>2
    <3> QED BY <3>3 DEF size
  <2>5. end # 0 => end + Len(Delimiters[r].stop) \in (next + 1)..(N + 1)
    BY <2>3, <2>4, RegionEnds
  <2> HIDE DEF next, end, color
  <2>6. CASE LineOnly(Delimiters[r])
    <3>1. \A f : ScansOn(t, declares, i, f)[previous] = Result(0, With(<<>>, i, color))
      BY <2>1, <2>6, PutKeeps DEF Entered
    <3> QED BY <1>2, <1>3, <3>1
  <2>7. CASE ~LineOnly(Delimiters[r]) /\ end = 0
    <3>1. \A f : ScansOn(t, declares, i, f)[previous] = Result(r, With(<<>>, i, color))
      BY <2>1, <2>7, PutKeeps DEF Entered
    <3> QED BY <1>3, <2>2, <3>1
  <2>8. CASE ~LineOnly(Delimiters[r]) /\ end # 0
    <3> DEFINE j == end + Len(Delimiters[r].stop)
    <3>1. \A f : ScansOn(t, declares, i, f)[previous] = Put(i, color, f[j][""])
      BY <2>1, <2>8 DEF Entered
    <3>2. j \in (i + 1)..(N + 1)
      BY <2>4, <2>5, <2>8
    <3> QED BY <1>2, <3>1, <3>2, ZenonT(30)
  <2> QED BY <2>6, <2>7, <2>8
<1> QED BY <1>4, <1>5, <1>6, <1>7

\* The recursion of a scan has a value.
LEMMA ScanExists ==
  ASSUME NEW t, Len(t) \in Nat, NEW declares
  PROVE  \E from : IsScan(t, declares, from)
<1> DEFINE N == Len(t)
           Body(i, f) == ScansOn(t, declares, i, f)
           Upto(f, n) == f = [i \in (N + 1 - n)..(N + 1) |-> Body(i, f)]
           T == {n \in Nat : n <= N => \E f : Upto(f, n)}
\* What it says at a column depends on the later ones.
<1>1. ASSUME NEW i \in 1..(N + 1), NEW f, NEW g, \A j \in (i + 1)..(N + 1) : f[j] = g[j]
      PROVE  Body(i, f) = Body(i, g)
  <2>1. ASSUME NEW previous \in Before
        PROVE  Body(i, f)[previous] = Body(i, g)[previous]
    <3> DEFINE S(h) == ScansOn(t, declares, i, h)[previous]
    <3>0. \/ \E x : Outcome(x) /\ \A h : S(h) = x
          \/ \E j \in (i + 1)..(N + 1), q \in Before :
               \/ \A h : S(h) = h[j][q]
               \/ \E color : \A h : S(h) = Put(i, color, h[j][q])
      <4>1. GoesOn(t, declares, i, previous)
        BY ScanGoesOn
      <4> QED BY <4>1 DEF GoesOn
    <3> HIDE DEF S
    <3>1. CASE \E x : Outcome(x) /\ \A h : S(h) = x
      BY <3>1 DEF S
    <3>2. ASSUME NEW j \in (i + 1)..(N + 1), NEW q \in Before,
                 \/ \A h : S(h) = h[j][q]
                 \/ \E color : \A h : S(h) = Put(i, color, h[j][q])
          PROVE  S(f) = S(g)
      <4>1. f[j] = g[j]
        BY <1>1
      <4> QED BY <3>2, <4>1
    <3> QED BY <3>0, <3>1, <3>2 DEF S
  <2>2. \A h : Body(i, h) = [previous \in Before |-> Body(i, h)[previous]]
    BY DEF ScansOn
  <2> HIDE DEF Body
  <2> QED BY <2>1, <2>2
<1> HIDE DEF Body
<1>2. 0 \in T
  <2> DEFINE f == [i \in (N + 1 - 0)..(N + 1) |-> Body(i, <<>>)]
  <2>1. \A i \in (N + 1 - 0)..(N + 1) : Body(i, <<>>) = Body(i, f)
    <3> SUFFICES ASSUME NEW i \in (N + 1 - 0)..(N + 1)
                 PROVE  Body(i, <<>>) = Body(i, f)
      OBVIOUS
    <3>1. i \in 1..(N + 1) /\ (i + 1)..(N + 1) = {}
      OBVIOUS
    <3> HIDE DEF f
    <3> QED BY <1>1, <3>1
  <2>2. Upto(f, 0)
    BY <2>1
  <2>3. \E other : Upto(other, 0)
    <3> HIDE DEF f, Upto
    <3> QED BY <2>2
  <2> QED BY <2>3
<1>3. ASSUME NEW n \in Nat, n \in T
      PROVE  n + 1 \in T
  <2> SUFFICES ASSUME n + 1 <= N
               PROVE  \E f : Upto(f, n + 1)
    OBVIOUS
  <2>1. PICK f : Upto(f, n)
    BY <1>3
  <2> DEFINE m == N + 1 - (n + 1)
             g == [i \in m..(N + 1) |-> IF i = m THEN Body(m, f) ELSE f[i]]
  <2>2. \A i \in (N + 1 - n)..(N + 1) : f[i] = Body(i, f)
    BY <2>1
  <2>3. \A i \in m..(N + 1) : Body(i, g) = Body(i, f)
    <3>1. \A j \in (N + 1 - n)..(N + 1) : g[j] = f[j]
      OBVIOUS
    <3>2. m \in Nat /\ m >= 1 /\ m + 1 = N + 1 - n
      OBVIOUS
    <3> HIDE DEF g, m
    <3> SUFFICES ASSUME NEW i \in m..(N + 1)
                 PROVE  Body(i, g) = Body(i, f)
      OBVIOUS
    <3>3. i \in 1..(N + 1) /\ \A j \in (i + 1)..(N + 1) : g[j] = f[j]
      BY <3>1, <3>2
    <3> QED BY <1>1, <3>3
  <2>4. ASSUME NEW i \in m..(N + 1)
        PROVE  g[i] = Body(i, g)
    <3>1. CASE i = m
      BY <2>3, <3>1
    <3>2. CASE i # m
      <4>1. i \in (N + 1 - n)..(N + 1) /\ g[i] = f[i]
        BY <3>2
      <4> QED BY <2>2, <2>3, <4>1
    <3> QED BY <3>1, <3>2
  <2>5. Upto(g, n + 1)
    BY <2>4
  <2>6. \E other : Upto(other, n + 1)
    <3> HIDE DEF g, Upto
    <3> QED BY <2>5
  <2> QED BY <2>6
<1>4. \A n \in Nat : n \in T
  <2> HIDE DEF T
  <2> QED BY <1>2, <1>3, Induction
<1>5. N \in Nat /\ N + 1 - N = 1
  OBVIOUS
<1>6. PICK f : Upto(f, N)
  BY <1>4, <1>5
<1>7. f = [i \in 1..(N + 1) |-> Body(i, f)]
  BY <1>5, <1>6
<1> QED BY <1>7 DEF IsScan, Body

\* Scanning a line ends, with a region of the table or none open.
LEMMA ScanEnds ==
  ASSUME NEW t, Len(t) \in Nat, NEW entry \in Opens, NEW declares
  PROVE  Scan(t, entry, declares).open \in Opens
<1> DEFINE N == Len(t)
           from == CHOOSE from : IsScan(t, declares, from)
           end == FindRegionEnd(t, 1, Delimiters[entry].stop)
           Says(i) == \A previous \in Before : Outcome(from[i][previous])
           T == {n \in Nat : \A i \in 1..(N + 1) : i >= N + 1 - n => Says(i)}
<1>1. Scan(t, entry, declares) =
        IF entry = 0 THEN from[1][""]
        ELSE IF end = 0 THEN Result(entry, <<Delimiters[entry].color>>)
        ELSE Put(1, Delimiters[entry].color, from[end + Len(Delimiters[entry].stop)][""])
  BY ScanIs
<1>2. IsScan(t, declares, from)
  BY ScanExists
<1> HIDE DEF from
<1>3. \A i \in 1..(N + 1) : from[i] = ScansOn(t, declares, i, from)
  BY <1>2 DEF IsScan
<1>4. ASSUME NEW i \in 1..(N + 1), \A j \in (i + 1)..(N + 1) : Says(j)
      PROVE  Says(i)
  <2> SUFFICES ASSUME NEW previous \in Before
               PROVE  Outcome(from[i][previous])
    OBVIOUS
  <2>1. from[i][previous] = ScansOn(t, declares, i, from)[previous]
    BY <1>3
  <2> DEFINE S(h) == ScansOn(t, declares, i, h)[previous]
  <2>2. \/ \E x : Outcome(x) /\ \A h : S(h) = x
        \/ \E j \in (i + 1)..(N + 1), q \in Before :
             \/ \A h : S(h) = h[j][q]
             \/ \E color : \A h : S(h) = Put(i, color, h[j][q])
    <3>1. GoesOn(t, declares, i, previous)
      BY ScanGoesOn
    <3> QED BY <3>1 DEF GoesOn
  <2>3. from[i][previous] = S(from)
    BY <2>1
  <2> HIDE DEF S
  <2>4. CASE \E x : Outcome(x) /\ \A h : S(h) = x
    BY <2>3, <2>4
  <2>5. ASSUME NEW j \in (i + 1)..(N + 1), NEW q \in Before,
               \/ \A h : S(h) = h[j][q]
               \/ \E color : \A h : S(h) = Put(i, color, h[j][q])
        PROVE  Outcome(S(from))
    <3>1. Outcome(from[j][q])
      BY <1>4
    <3> QED BY <2>5, <3>1, PutKeeps
  <2> QED BY <2>2, <2>3, <2>4, <2>5
<1> HIDE DEF Says
<1>5. 0 \in T
  BY <1>4
<1>6. ASSUME NEW n \in Nat, n \in T
      PROVE  n + 1 \in T
  <2> SUFFICES ASSUME NEW i \in 1..(N + 1), i >= N + 1 - (n + 1)
               PROVE  Says(i)
    OBVIOUS
  <2>1. \A j \in (i + 1)..(N + 1) : j \in 1..(N + 1) /\ j >= N + 1 - n
    OBVIOUS
  <2> QED BY <1>4, <1>6, <2>1
<1>7. \A n \in Nat : n \in T
  <2> HIDE DEF T
  <2> QED BY <1>5, <1>6, Induction
<1>8. \A i \in 1..(N + 1) : Says(i)
  <2>1. N + 1 \in Nat /\ \A i \in 1..(N + 1) : i >= N + 1 - (N + 1)
    OBVIOUS
  <2> QED BY <1>7, <2>1
<1>9. \A x : Outcome(x) => x.open \in Opens
  BY DEF Outcome, Result
<1>10. "" \in Before /\ 1 \in 1..(N + 1)
  BY DEF Before
<1>11. CASE entry = 0
  <2>1. Outcome(from[1][""])
    BY <1>8, <1>10 DEF Says
  <2> QED BY <1>1, <1>9, <1>11, <2>1
<1>12. CASE entry # 0 /\ end = 0
  BY <1>1, <1>12 DEF Result
<1>13. CASE entry # 0 /\ end # 0
  <2> DEFINE next == end + Len(Delimiters[entry].stop)
  <2>1. next \in (1 + 1)..(N + 1)
    BY <1>10, <1>13, RegionEnds DEF Opens
  <2>2. next \in 1..(N + 1)
    BY <2>1
  <2>3. Outcome(from[next][""])
    BY <1>8, <1>10, <2>2 DEF Says
  <2> HIDE DEF next
  <2>4. Outcome(Put(1, Delimiters[entry].color, from[next][""]))
    BY <2>3, PutKeeps
  <2>5. Scan(t, entry, declares) = Put(1, Delimiters[entry].color, from[next][""])
    BY <1>1, <1>13 DEF next
  <2> QED BY <1>9, <2>4, <2>5
<1> QED BY <1>11, <1>12, <1>13

-----------------------------------------------------------------------------
(* The caches.                                                               *)

\* What the proof needs of the types.
Shape ==
  /\ text \in Seq(Lines) /\ frontier \in Nat \ {0}
  /\ DOMAIN open \subseteq Nat \ {0} /\ DOMAIN shown \subseteq Nat \ {0}

\* What the document says of the regions.
LEMMA TopFollows ==
  ASSUME Shape
  PROVE  FromTop[0] = 0 /\ Follows(FromTop, text, members, 0, Len(text))
BY OpenFollows DEF FromTop, Shape

\* A known region that is right gives right ones below it.
LEMMA ResumesRight ==
  ASSUME Shape, NEW first \in 0..Len(text), NEW region, region = FromTop[first]
  PROVE  \A l \in first..Len(text) : OpenFrom(first, region, text, members)[l] = FromTop[l]
<1> DEFINE a == OpenFrom(first, region, text, members)
           b == FromTop
<1>1. Len(text) \in Nat /\ first \in Nat /\ first <= Len(text)
  BY DEF Shape
<1>2. a[first] = region /\ Follows(a, text, members, first, Len(text))
  BY <1>1, OpenFollows
<1>3. Follows(b, text, members, 0, Len(text))
  BY TopFollows
<1> HIDE DEF a, b
<1>4. Follows(b, text, members, first, Len(text))
  BY <1>1, <1>3 DEF Follows
<1>5. a[first] = b[first]
  BY <1>2 DEF b
<1>6. \A l \in first..Len(text) : a[l] = b[l]
  BY <1>1, <1>2, <1>4, <1>5, Agree
<1> QED BY <1>6 DEF a, b

\* Where scanning resumes: at a known line above, or at the top.
Resume(p) ==
  LET known == {l \in 1..(p - 1) : l \in DOMAIN open}
  IN IF known = {} THEN 0 ELSE CHOOSE l \in known : \A k \in known : k <= l

\* It is above the line.
LEMMA ResumesAtKnown ==
  ASSUME NEW p \in Nat \ {0}
  PROVE  Resume(p) \in 0..(p - 1) /\ (Resume(p) # 0 => Resume(p) \in DOMAIN open)
<1> DEFINE known == {l \in 1..(p - 1) : l \in DOMAIN open}
           T == {n \in Nat : p - n \in known}
<1>1. CASE known = {}
  BY <1>1 DEF Resume
<1>2. CASE known # {}
  <2>1. T # {} /\ T \subseteq Nat
    <3>1. PICK k \in known : TRUE
      BY <1>2
    <3>2. p - k \in Nat /\ p - (p - k) = k
      BY <3>1
    <3> QED BY <3>1, <3>2
  <2>2. PICK n \in T : \A k \in T : n <= k
    <3> HIDE DEF T
    <3> QED BY <2>1, Least
  <2>3. ASSUME NEW k \in known
        PROVE  k <= p - n
    <3>1. p - k \in Nat /\ p - (p - k) = k /\ k \in Nat
      OBVIOUS
    <3>2. p - k \in T
      BY <3>1
    <3>3. p \in Nat /\ n \in Nat
      OBVIOUS
    <3> HIDE DEF T
    <3>4. n <= p - k
      BY <2>2, <3>2
    <3> QED BY <3>1, <3>3, <3>4
  <2>4. Resume(p) \in known
    <3>1. p - n \in known
      BY <2>2
    <3>2. Resume(p) = CHOOSE l \in known : \A k \in known : k <= l
      BY <1>2 DEF Resume
    <3> HIDE DEF known
    <3> QED BY <2>3, <3>1, <3>2
  <2> QED BY <2>4
<1> QED BY <1>1, <1>2

\* The regions above a line are right as far as the caches are.
LEMMA AboveRight ==
  ASSUME Shape, CachesAreRight, NEW p \in 1..Len(text)
  PROVE  /\ DOMAIN RegionsAbove(p) \subseteq Nat \ {0}
         /\ \A l \in DOMAIN RegionsAbove(p) : l < frontier /\ l <= Len(text) =>
              RegionsAbove(p)[l] = FromTop[l]
         /\ p # 1 => p - 1 \in DOMAIN RegionsAbove(p)
<1> DEFINE first == Resume(p)
           at == OpenFrom(first, IF first = 0 THEN 0 ELSE open[first], text, members)
           above == [l \in DOMAIN open \cup (first + 1)..(p - 1) |-> IF l \in first..(p - 1) THEN at[l] ELSE open[l]]
<1>1. RegionsAbove(p) = above
  BY DEF RegionsAbove, Resume
<1>2. first \in 0..(p - 1) /\ (first # 0 => first \in DOMAIN open)
  BY ResumesAtKnown
<1> HIDE DEF first
<1> DEFINE region == IF first = 0 THEN 0 ELSE open[first]
<1>3. Len(text) \in Nat /\ p \in 1..Len(text) /\ DOMAIN text = 1..Len(text)
  BY DEF Shape
<1>4. first < frontier => \A l \in first..Len(text) : at[l] = FromTop[l]
  <2> SUFFICES ASSUME first < frontier
               PROVE  \A l \in first..Len(text) : at[l] = FromTop[l]
    OBVIOUS
  <2>1. region = FromTop[first]
    <3>1. CASE first = 0
      BY <3>1, TopFollows
    <3>2. CASE first # 0
      <4>1. first \in DOMAIN text /\ first \in DOMAIN open
        BY <1>2, <1>3, <3>2
      <4> QED BY <3>2, <4>1 DEF CachesAreRight
    <3> QED BY <3>1, <3>2
  <2>2. first \in 0..Len(text)
    BY <1>2, <1>3
  <2> HIDE DEF region
  <2>3. \A l \in first..Len(text) : OpenFrom(first, region, text, members)[l] = FromTop[l]
    BY <2>1, <2>2, ResumesRight
  <2> QED BY <2>3 DEF region
<1> HIDE DEF at
<1>5. DOMAIN above \subseteq Nat \ {0}
  BY <1>2, <1>3 DEF Shape
<1>6. ASSUME NEW l \in DOMAIN above, l < frontier, l <= Len(text)
      PROVE  above[l] = FromTop[l]
  <2>1. l \in Nat \ {0} /\ l \in DOMAIN text
    BY <1>3, <1>5, <1>6
  <2>2. CASE l \in first..(p - 1)
    <3>1. first < frontier /\ l \in first..Len(text)
      BY <1>2, <1>3, <1>6, <2>1, <2>2 DEF Shape
    <3> QED BY <1>4, <2>2, <3>1
  <2>3. CASE l \notin first..(p - 1)
    <3>1. l \in DOMAIN open /\ above[l] = open[l]
      BY <1>2, <1>3, <2>1, <2>3
    <3> QED BY <1>6, <2>1, <3>1 DEF CachesAreRight
  <2> QED BY <2>2, <2>3
<1>7. p # 1 => p - 1 \in DOMAIN above
  <2>1. CASE first = p - 1
    BY <1>2, <1>3, <2>1
  <2>2. CASE first # p - 1
    BY <1>2, <1>3, <2>2
  <2> QED BY <2>1, <2>2
<1> QED BY <1>1, <1>5, <1>6, <1>7

\* An edit changes nothing above its line.
LEMMA EditsBelow ==
  ASSUME Shape, CachesAreRight, NEW e \in DOMAIN text, NEW document \in Seq(Lines),
         Edit(e, document), \A l \in 1..(e - 1) : document[l] = text[l], Len(document) >= e - 1
  PROVE  Shape' /\ CachesAreRight'
<1>1. /\ text' = document /\ members' = members /\ open' = open
      /\ shown' = [l \in {k \in DOMAIN shown : k + 1 < e} |-> shown[l]]
      /\ frontier' = IF e < frontier THEN e ELSE frontier
  BY DEF Edit
<1>2. Len(text) \in Nat /\ DOMAIN text = 1..Len(text) /\ Len(document) \in Nat /\ DOMAIN document = 1..Len(document)
      /\ frontier \in Nat \ {0}
  BY DEF Shape
<1>3. Shape'
  BY <1>1, <1>2 DEF Shape
<1> DEFINE a == OpenFrom(0, 0, text, members)
           b == OpenFrom(0, 0, document, members)
<1>4. /\ a[0] = 0 /\ Follows(a, text, members, 0, Len(text))
      /\ b[0] = 0 /\ Follows(b, document, members, 0, Len(document))
  BY <1>2, OpenFollows
<1> HIDE DEF a, b
<1>5. \A l \in 0..(e - 1) : a[l] = b[l]
  <2>1. Follows(a, text, members, 0, e - 1) /\ Follows(b, document, members, 0, e - 1)
    BY <1>2, <1>4 DEF Follows
  <2>2. e - 1 \in Nat /\ \A l \in (0 + 1)..(e - 1) : text[l] = document[l]
    BY <1>2
  <2> QED BY <1>4, <2>1, <2>2, Agree
<1>6. FromTop = a /\ FromTop' = b
  BY <1>1 DEF FromTop, a, b
<1>7. ASSUME NEW l \in DOMAIN text', l < frontier'
      PROVE  /\ l \in DOMAIN text /\ l < frontier /\ l \in 1..(e - 1) /\ text'[l] = text[l]
             /\ FromTop'[l] = FromTop[l] /\ FromTop'[l - 1] = FromTop[l - 1]
  <2>1. l \in 1..(e - 1) /\ l < frontier
    BY <1>1, <1>2, <1>7
  <2> QED BY <1>1, <1>2, <1>5, <1>6, <2>1
<1>8. ASSUME NEW l \in DOMAIN text', l < frontier', l \in DOMAIN shown'
      PROVE  shown'[l] = Colors(l)'
  <2>1. shown'[l] = shown[l] /\ l \in DOMAIN shown
    BY <1>1, <1>8
  <2>2. shown[l] = Scan(text[l], FromTop[l - 1], members).colors
    BY <1>7, <1>8, <2>1 DEF CachesAreRight, Colors
  <2> QED BY <1>1, <1>7, <1>8, <2>1, <2>2 DEF Colors
<1>9. ASSUME NEW l \in DOMAIN text', l < frontier', l \in DOMAIN open'
      PROVE  open'[l] = FromTop'[l]
  BY <1>1, <1>7, <1>9 DEF CachesAreRight
<1> QED BY <1>3, <1>8, <1>9 DEF CachesAreRight

\* Drawing a line leaves the caches right.
LEMMA HighlightRight ==
  ASSUME HighlighterParameters, Shape, CachesAreRight, NEW p \in 1..MaxLines, Highlight(p)
  PROVE  Shape' /\ CachesAreRight'
<1>1. text' = text /\ members' = members /\ FromTop' = FromTop
  BY DEF Highlight, FromTop
<1>2. Len(text) \in Nat /\ DOMAIN text = 1..Len(text) /\ frontier \in Nat \ {0} /\ p \in Nat \ {0}
  BY DEF Shape, HighlighterParameters
<1>3. CASE p > Len(text)
  <2>1. shown' = With(shown, p, <<>>) /\ open' = open /\ frontier' = frontier
    BY <1>3 DEF Highlight
  <2>2. DOMAIN shown' = DOMAIN shown \cup {p} /\ \A l \in DOMAIN shown : l # p => shown'[l] = shown[l]
    BY <2>1 DEF With
  <2>3. Shape'
    BY <1>1, <1>2, <2>1, <2>2 DEF Shape
  <2>4. ASSUME NEW l \in DOMAIN text, l < frontier, l \in DOMAIN shown'
        PROVE  shown'[l] = Colors(l)'
    <3>1. l # p /\ l \in DOMAIN shown
      BY <1>2, <1>3, <2>2, <2>4
    <3>2. shown[l] = Scan(text[l], FromTop[l - 1], members).colors
      BY <2>4, <3>1 DEF CachesAreRight, Colors
    <3> QED BY <1>1, <2>2, <3>1, <3>2 DEF Colors
  <2> QED BY <1>1, <2>1, <2>3, <2>4 DEF CachesAreRight
<1>4. CASE p <= Len(text)
  <2> DEFINE above == RegionsAbove(p)
             before == IF p = 1 THEN 0 ELSE above[p - 1]
             line == Scan(text[p], before, members)
  <2>1. /\ open' = With(above, p, line.open) /\ shown' = With(shown, p, line.colors)
        /\ frontier' = IF p = frontier THEN p + 1 ELSE frontier
    BY <1>2, <1>4 DEF Highlight
  <2>2. /\ DOMAIN above \subseteq Nat \ {0}
        /\ \A l \in DOMAIN above : l < frontier /\ l <= Len(text) => above[l] = FromTop[l]
        /\ p # 1 => p - 1 \in DOMAIN above
    BY <1>2, <1>4, AboveRight
  <2> HIDE DEF above
  <2>3. FromTop[0] = 0 /\ FromTop[p] = Scan(text[p], FromTop[p - 1], members).open
    <3>1. p - 1 \in 0..(Len(text) - 1) /\ (p - 1) + 1 = p
      BY <1>2, <1>4
    <3>2. FromTop[0] = 0 /\ Follows(FromTop, text, members, 0, Len(text))
      BY TopFollows
    <3> QED BY <3>1, <3>2 DEF Follows
  <2>4. p <= frontier => before = FromTop[p - 1]
    <3>1. CASE p = 1
      BY <2>3, <3>1
    <3>2. CASE p # 1
      BY <1>2, <1>4, <2>2, <3>2
    <3> QED BY <3>1, <3>2
  <2> HIDE DEF before
  <2>5. p <= frontier => line.open = FromTop[p] /\ line.colors = Scan(text[p], FromTop[p - 1], members).colors
    BY <2>3, <2>4
  <2> HIDE DEF line
  <2>6. /\ DOMAIN shown' = DOMAIN shown \cup {p} /\ shown'[p] = line.colors
        /\ \A l \in DOMAIN shown : l # p => shown'[l] = shown[l]
        /\ DOMAIN open' = DOMAIN above \cup {p} /\ open'[p] = line.open
        /\ \A l \in DOMAIN above : l # p => open'[l] = above[l]
    BY <2>1 DEF With
  <2>7. Shape'
    BY <1>1, <1>2, <2>1, <2>2, <2>6 DEF Shape
  <2>8. ASSUME NEW l \in DOMAIN text, l < frontier'
        PROVE  l < frontier \/ (l = p /\ p <= frontier)
    BY <1>2, <2>1, <2>8
  <2>9. ASSUME NEW l \in DOMAIN text, l < frontier', l \in DOMAIN shown'
        PROVE  shown'[l] = Colors(l)'
    <3>1. CASE l = p
      BY <1>1, <1>2, <2>1, <2>5, <2>6, <2>9, <3>1 DEF Colors
    <3>2. CASE l # p
      <4>1. l < frontier /\ l \in DOMAIN shown
        BY <2>6, <2>8, <2>9, <3>2
      <4>2. shown[l] = Scan(text[l], FromTop[l - 1], members).colors
        BY <4>1 DEF CachesAreRight, Colors
      <4> QED BY <1>1, <2>6, <3>2, <4>1, <4>2 DEF Colors
    <3> QED BY <3>1, <3>2
  <2>10. ASSUME NEW l \in DOMAIN text, l < frontier', l \in DOMAIN open'
         PROVE  open'[l] = FromTop[l]
    <3>1. CASE l = p
      BY <1>2, <2>1, <2>5, <2>6, <2>10, <3>1
    <3>2. CASE l # p
      <4>1. l < frontier /\ l \in DOMAIN above /\ l <= Len(text)
        BY <1>2, <2>6, <2>8, <2>10, <3>2
      <4> QED BY <2>2, <2>6, <3>2, <4>1
    <3> QED BY <3>1, <3>2
  <2> QED BY <1>1, <2>7, <2>9, <2>10 DEF CachesAreRight
<1> QED BY <1>2, <1>3, <1>4

\* What is coloured and cached is what the document says, whatever is edited and drawn when.
THEOREM CachesStayRight ==
  ASSUME HighlighterParameters
  PROVE  HighlighterSpec => []CachesAreRight
<1>1. HighlighterInit => Shape /\ CachesAreRight
  <2> SUFFICES ASSUME HighlighterInit
               PROVE  Shape /\ CachesAreRight
    OBVIOUS
  <2>1. text \in Seq(Lines) /\ frontier \in Nat \ {0}
    BY DEF HighlighterInit, HighlighterParameters
  <2>2. DOMAIN open = {} /\ DOMAIN shown = {}
    BY DEF HighlighterInit
  <2> QED BY <2>1, <2>2 DEF Shape, CachesAreRight
<1>2. Shape /\ CachesAreRight /\ [HighlighterNext]_highlighterVars => (Shape /\ CachesAreRight)'
  <2> SUFFICES ASSUME Shape, CachesAreRight, [HighlighterNext]_highlighterVars
               PROVE  Shape' /\ CachesAreRight'
    OBVIOUS
  <2>1. Len(text) \in Nat /\ DOMAIN text = 1..Len(text)
    BY DEF Shape
  <2>2. ASSUME text' = text, shown' = <<>>, open' = <<>>, frontier' = MaxLines + 1
        PROVE  Shape' /\ CachesAreRight'
    <3>1. DOMAIN shown' = {} /\ DOMAIN open' = {} /\ frontier' \in Nat \ {0}
      BY <2>2 DEF HighlighterParameters
    <3> QED BY <2>2, <3>1 DEF Shape, CachesAreRight
  <2>3. CASE \E p \in 1..MaxLines : Highlight(p)
    BY <2>3, HighlightRight
  <2>4. CASE ClearHighlightingCache
    BY <2>2, <2>4 DEF ClearHighlightingCache, ColorsDropped
  <2>5. CASE \E declares \in BOOLEAN : SetEditedScript(declares) \/ UpdateCache(declares)
    BY <2>2, <2>5 DEF SetEditedScript, UpdateCache, Update, ColorsDropped
  <2>6. ASSUME NEW e \in DOMAIN text, NEW line \in Lines, Rewrite(e, line)
        PROVE  Shape' /\ CachesAreRight'
    <3> DEFINE document == [text EXCEPT ![e] = line]
    <3>1. document \in Seq(Lines) /\ Len(document) = Len(text) /\ \A l \in 1..(e - 1) : document[l] = text[l]
      BY <2>1 DEF Shape
    <3>2. Edit(e, document)
      BY <2>6 DEF Rewrite
    <3> HIDE DEF document
    <3>3. Len(document) >= e - 1
      BY <2>1, <3>1
    <3> QED BY <3>1, <3>2, <3>3, EditsBelow
  <2>7. ASSUME NEW e \in DOMAIN text, NEW line \in Lines, InsertAfter(e, line)
        PROVE  Shape' /\ CachesAreRight'
    <3> DEFINE before == SubSeq(text, 1, e)
               after == SubSeq(text, e + 1, Len(text))
               document == before \o <<line>> \o after
    <3>1. Edit(e, document)
      BY <2>7 DEF InsertAfter
    <3>2. before \in Seq(Lines) /\ Len(before) = e /\ \A l \in 1..e : before[l] = text[l]
      BY <2>1, SubSeqProperties DEF Shape
    <3>3. after \in Seq(Lines)
      BY <2>1, SubSeqProperties DEF Shape
    <3> HIDE DEF before, after
    <3>4. before \o <<line>> \in Seq(Lines) /\ Len(before \o <<line>>) = e + 1
          /\ \A l \in 1..e : (before \o <<line>>)[l] = before[l]
      BY <2>1, <3>2
    <3>5. document \in Seq(Lines) /\ Len(document) >= e + 1 /\ \A l \in 1..e : document[l] = before[l]
      BY <2>1, <3>2, <3>3, <3>4
    <3> HIDE DEF document
    <3>6. Len(document) >= e - 1 /\ \A l \in 1..(e - 1) : document[l] = text[l]
      BY <2>1, <3>2, <3>5
    <3> QED BY <3>1, <3>5, <3>6, EditsBelow
  <2>8. ASSUME NEW e \in DOMAIN text, RemoveAfter(e)
        PROVE  Shape' /\ CachesAreRight'
    <3> DEFINE before == SubSeq(text, 1, e)
               after == SubSeq(text, e + 2, Len(text))
               document == before \o after
    <3>1. Edit(e, document) /\ e < Len(text)
      BY <2>8 DEF RemoveAfter
    <3>2. before \in Seq(Lines) /\ Len(before) = e /\ \A l \in 1..e : before[l] = text[l]
      BY <2>1, SubSeqProperties DEF Shape
    <3>3. after \in Seq(Lines)
      <4>1. CASE e + 2 <= Len(text)
        BY <2>1, <4>1, SubSeqProperties DEF Shape
      <4>2. CASE ~(e + 2 <= Len(text))
        BY <2>1, <4>2, SubSeqProperties DEF Shape
      <4> QED BY <4>1, <4>2
    <3> HIDE DEF before, after
    <3>4. document \in Seq(Lines) /\ Len(document) >= e /\ \A l \in 1..e : document[l] = before[l]
      BY <2>1, <3>2, <3>3
    <3> HIDE DEF document
    <3>5. Len(document) >= e - 1 /\ \A l \in 1..(e - 1) : document[l] = text[l]
      BY <2>1, <3>2, <3>4
    <3> QED BY <3>1, <3>4, <3>5, EditsBelow
  <2>9. CASE UNCHANGED highlighterVars
    BY <2>9 DEF highlighterVars, Shape, CachesAreRight, Colors, FromTop
  <2> QED BY <2>3, <2>4, <2>5, <2>6, <2>7, <2>8, <2>9 DEF HighlighterNext
<1> QED BY <1>1, <1>2, PTL DEF HighlighterSpec

-----------------------------------------------------------------------------
(* The types of the caches.                                                  *)

\* The recursion of the regions stays in the table.
LEMMA RegionsOpen ==
  ASSUME HighlighterParameters, NEW document \in Seq(Lines), NEW first \in 0..Len(document),
         NEW region \in Opens, NEW declares
  PROVE  \A l \in first..Len(document) : OpenFrom(first, region, document, declares)[l] \in Opens
<1> DEFINE at == OpenFrom(first, region, document, declares)
           T == {n \in Nat : first + n <= Len(document) => at[first + n] \in Opens}
<1>1. first \in Nat /\ Len(document) \in Nat /\ first <= Len(document)
  OBVIOUS
<1>2. at[first] = region /\ Follows(at, document, declares, first, Len(document))
  BY <1>1, OpenFollows
<1> HIDE DEF at
<1>3. 0 \in T
  BY <1>1, <1>2
<1>4. ASSUME NEW n \in Nat, n \in T
      PROVE  n + 1 \in T
  <2> SUFFICES ASSUME first + (n + 1) <= Len(document)
               PROVE  at[first + (n + 1)] \in Opens
    OBVIOUS
  <2> DEFINE l == first + n
  <2>1. /\ l \in first..(Len(document) - 1) /\ l + 1 = first + (n + 1)
        /\ l <= Len(document) /\ l + 1 \in 1..Len(document)
    BY <1>1
  <2>2. at[l] \in Opens
    BY <1>4, <2>1
  <2> HIDE DEF l
  <2>3. at[l + 1] = Scan(document[l + 1], at[l], declares).open
    BY <1>2, <2>1 DEF Follows
  <2>4. document[l + 1] \in Lines
    BY <2>1
  <2>5. Len(document[l + 1]) \in Nat
    BY <2>4 DEF HighlighterParameters
  <2>6. Scan(document[l + 1], at[l], declares).open \in Opens
    BY <2>2, <2>5, ScanEnds
  <2> QED BY <2>1, <2>3, <2>6
<1>5. \A n \in Nat : n \in T
  <2> HIDE DEF T
  <2> QED BY <1>3, <1>4, Induction
<1>6. ASSUME NEW l \in first..Len(document)
      PROVE  at[l] \in Opens
  <2>1. l - first \in Nat /\ first + (l - first) = l /\ l <= Len(document)
    BY <1>1
  <2> QED BY <1>5, <2>1
<1> QED BY <1>6 DEF at

\* Drawing a line keeps the types.
LEMMA HighlightTyped ==
  ASSUME HighlighterParameters, HighlighterTypeOK, NEW p \in 1..MaxLines, Highlight(p)
  PROVE  HighlighterTypeOK'
<1>1. UNCHANGED <<text, members, edits>> /\ MaxLines \in Nat
  BY DEF Highlight, HighlighterParameters
<1>2. \A table, key, value : DOMAIN With(table, key, value) = DOMAIN table \cup {key}
  BY DEF With
<1>3. CASE p > Len(text)
  <2>1. shown' = With(shown, p, <<>>) /\ UNCHANGED <<open, frontier>>
    BY <1>3 DEF Highlight
  <2>2. DOMAIN shown' = DOMAIN shown \cup {p}
    BY <1>2, <2>1
  <2>3. DOMAIN shown' \subseteq 1..MaxLines
    BY <2>2 DEF HighlighterTypeOK
  <2> QED BY <1>1, <2>1, <2>3 DEF HighlighterTypeOK
<1>4. CASE ~(p > Len(text))
  <2> DEFINE above == RegionsAbove(p)
             entry == IF p = 1 THEN 0 ELSE above[p - 1]
             line == Scan(text[p], entry, members)
             first == Resume(p)
             region == IF first = 0 THEN 0 ELSE open[first]
             at == OpenFrom(first, region, text, members)
  <2>1. /\ open' = With(above, p, line.open) /\ shown' = With(shown, p, line.colors)
        /\ frontier' = IF p = frontier THEN p + 1 ELSE frontier
    BY <1>4 DEF Highlight
  <2>2. /\ text \in Seq(Lines) /\ Len(text) \in 1..MaxLines
        /\ DOMAIN open \subseteq 1..MaxLines /\ \A l \in DOMAIN open : open[l] \in Opens
        /\ DOMAIN shown \subseteq 1..MaxLines /\ frontier \in 1..(MaxLines + 1)
    BY DEF HighlighterTypeOK, Opens
  <2>3. p \in 1..Len(text) /\ p \in Nat \ {0} /\ p - 1 \in 0..MaxLines
    BY <1>1, <1>4, <2>2
  <2>4. first \in 0..(p - 1) /\ (first # 0 => first \in DOMAIN open)
    BY <2>3, ResumesAtKnown
  <2>5. above = [l \in DOMAIN open \cup (first + 1)..(p - 1) |-> IF l \in first..(p - 1) THEN at[l] ELSE open[l]]
    BY DEF RegionsAbove, Resume
  <2> HIDE DEF above, first
  <2>6. region \in Opens
    BY <2>2, <2>4 DEF Opens
  <2> HIDE DEF region
  <2>7. \A l \in first..(p - 1) : at[l] \in Opens
    <3>1. first \in 0..Len(text) /\ \A l \in first..(p - 1) : l \in first..Len(text)
      BY <2>2, <2>3, <2>4
    <3> QED BY <2>2, <2>6, <3>1, RegionsOpen
  <2> HIDE DEF at
  <2>8. DOMAIN above \subseteq 1..MaxLines /\ \A l \in DOMAIN above : above[l] \in Opens
    <3>1. (first + 1)..(p - 1) \subseteq 1..MaxLines
      BY <1>1, <2>3, <2>4
    <3>2. DOMAIN above = DOMAIN open \cup (first + 1)..(p - 1)
      BY <2>5
    <3>3. ASSUME NEW l \in DOMAIN above
          PROVE  above[l] \in Opens
      <4>1. l \in first..(p - 1) \/ l \in DOMAIN open
        BY <2>3, <2>4, <3>2
      <4> QED BY <2>2, <2>5, <2>7, <4>1
    <3> QED BY <2>2, <3>1, <3>2, <3>3
  <2>9. entry \in Opens
    <3>1. p # 1 => p - 1 \in DOMAIN above
      BY <2>3, <2>4, <2>5
    <3> QED BY <2>8, <3>1 DEF Opens
  <2>10. line.open \in Opens
    <3>1. text[p] \in Lines
      BY <2>2, <2>3
    <3>2. Len(text[p]) \in Nat
      BY <3>1 DEF HighlighterParameters
    <3> HIDE DEF entry
    <3> QED BY <2>9, <3>2, ScanEnds
  <2> HIDE DEF line
  <2>11. DOMAIN open' \subseteq 1..MaxLines /\ \A l \in DOMAIN open' : open'[l] \in Opens
    <3>1. /\ DOMAIN open' = DOMAIN above \cup {p} /\ open'[p] = line.open
          /\ \A l \in DOMAIN above : l # p => open'[l] = above[l]
      BY <2>1 DEF With
    <3> QED BY <2>8, <2>10, <3>1
  <2>12. DOMAIN shown' \subseteq 1..MaxLines
    <3>1. DOMAIN shown' = DOMAIN shown \cup {p}
      BY <1>2, <2>1
    <3> QED BY <2>2, <3>1
  <2>13. frontier' \in 1..(MaxLines + 1)
    BY <1>1, <2>1, <2>2
  <2> QED BY <1>1, <2>2, <2>11, <2>12, <2>13 DEF HighlighterTypeOK, Opens
<1> QED BY <1>3, <1>4

\* An edit keeps the document within its bound.
LEMMA EditTyped ==
  ASSUME HighlighterParameters, HighlighterTypeOK, NEW e \in DOMAIN text,
         NEW document \in Seq(Lines), Len(document) \in 1..MaxLines, Edit(e, document)
  PROVE  HighlighterTypeOK'
<1>1. /\ UNCHANGED <<members, open>> /\ text' = document /\ edits < MaxEdits /\ edits' = edits + 1
      /\ shown' = [l \in {k \in DOMAIN shown : k + 1 < e} |-> shown[l]]
      /\ frontier' = IF e < frontier THEN e ELSE frontier
  BY DEF Edit
<1>2. DOMAIN shown' \subseteq 1..MaxLines
  BY <1>1 DEF HighlighterTypeOK
<1>3. edits' \in 0..MaxEdits
  BY <1>1 DEF HighlighterTypeOK, HighlighterParameters
<1>4. frontier' \in 1..(MaxLines + 1)
  <2>1. e \in 1..Len(text) /\ Len(text) \in 1..MaxLines /\ MaxLines \in Nat
    BY DEF HighlighterTypeOK, HighlighterParameters
  <2> QED BY <1>1, <2>1 DEF HighlighterTypeOK
<1> QED BY <1>1, <1>2, <1>3, <1>4 DEF HighlighterTypeOK

\* Scanning a line ends within it and leaves a region of the table or none open
\* (UnsafeGDScriptHighlightRules::scan_line), and everything the highlighter keeps has its type.
THEOREM HighlighterTypeCorrect ==
  ASSUME HighlighterParameters
  PROVE  HighlighterSpec => []HighlighterTypeOK
<1>1. HighlighterInit => HighlighterTypeOK
  BY DEF HighlighterInit, HighlighterTypeOK, HighlighterParameters
<1>2. HighlighterTypeOK /\ [HighlighterNext]_highlighterVars => HighlighterTypeOK'
  <2> SUFFICES ASSUME HighlighterTypeOK, [HighlighterNext]_highlighterVars
               PROVE  HighlighterTypeOK'
    OBVIOUS
  <2>0. /\ text \in Seq(Lines) /\ Len(text) \in 1..MaxLines /\ MaxLines \in Nat
        /\ DOMAIN text = 1..Len(text)
    BY DEF HighlighterTypeOK, HighlighterParameters
  <2>1. ASSUME NEW p \in 1..MaxLines, Highlight(p)
        PROVE  HighlighterTypeOK'
    BY <2>1, HighlightTyped
  <2>2. CASE ClearHighlightingCache
    BY <2>0, <2>2 DEF ClearHighlightingCache, ColorsDropped, HighlighterTypeOK
  <2>3. ASSUME NEW declares \in BOOLEAN, SetEditedScript(declares) \/ UpdateCache(declares)
        PROVE  HighlighterTypeOK'
    BY <2>0, <2>3 DEF SetEditedScript, UpdateCache, Update, ColorsDropped, HighlighterTypeOK
  <2>4. ASSUME NEW e \in DOMAIN text, NEW line \in Lines, Rewrite(e, line)
        PROVE  HighlighterTypeOK'
    <3>1. [text EXCEPT ![e] = line] \in Seq(Lines) /\ Len([text EXCEPT ![e] = line]) = Len(text)
      BY <2>0
    <3>2. Edit(e, [text EXCEPT ![e] = line])
      BY <2>4 DEF Rewrite
    <3> QED BY <2>0, <3>1, <3>2, EditTyped
  <2>5. ASSUME NEW e \in DOMAIN text, NEW line \in Lines, InsertAfter(e, line)
        PROVE  HighlighterTypeOK'
    <3> DEFINE document == SubSeq(text, 1, e) \o <<line>> \o SubSeq(text, e + 1, Len(text))
    <3>1. Len(text) < MaxLines /\ Edit(e, document)
      BY <2>5 DEF InsertAfter
    <3>2. /\ SubSeq(text, 1, e) \in Seq(Lines) /\ Len(SubSeq(text, 1, e)) = e
          /\ SubSeq(text, e + 1, Len(text)) \in Seq(Lines)
          /\ Len(SubSeq(text, e + 1, Len(text))) = Len(text) - e
      BY <2>0
    <3>3. document \in Seq(Lines) /\ Len(document) = Len(text) + 1
      BY <2>0, <3>2
    <3> HIDE DEF document
    <3>4. Len(document) \in 1..MaxLines
      BY <2>0, <3>1, <3>3
    <3> QED BY <3>1, <3>3, <3>4, EditTyped
  <2>6. ASSUME NEW e \in DOMAIN text, RemoveAfter(e)
        PROVE  HighlighterTypeOK'
    <3> DEFINE document == SubSeq(text, 1, e) \o SubSeq(text, e + 2, Len(text))
    <3>1. e < Len(text) /\ Edit(e, document)
      BY <2>6 DEF RemoveAfter
    <3>2. /\ SubSeq(text, 1, e) \in Seq(Lines) /\ Len(SubSeq(text, 1, e)) = e
          /\ SubSeq(text, e + 2, Len(text)) \in Seq(Lines)
          /\ Len(SubSeq(text, e + 2, Len(text))) = Len(text) - e - 1
      BY <2>0, <3>1
    <3>3. document \in Seq(Lines) /\ Len(document) = Len(text) - 1
      BY <2>0, <3>2
    <3> HIDE DEF document
    <3>4. Len(document) \in 1..MaxLines
      BY <2>0, <3>1, <3>3
    <3> QED BY <3>1, <3>3, <3>4, EditTyped
  <2>7. CASE UNCHANGED highlighterVars
    BY <2>7 DEF highlighterVars, HighlighterTypeOK
  <2> QED BY <2>1, <2>2, <2>3, <2>4, <2>5, <2>6, <2>7 DEF HighlighterNext
<1> QED BY <1>1, <1>2, PTL DEF HighlighterSpec

-----------------------------------------------------------------------------
(* The parts together.                                                       *)

\* A step of the composition is a step of the part that runs.
LEMMA PartSteps ==
  ASSUME MCNext
  PROVE  \/ CompilationNext /\ Compiles
         \/ DebuggerNext /\ Debugs
         \/ HighlighterNext /\ Highlights
BY Zenon DEF MCNext, CompilationNext, DebuggerNext, HighlighterNext

\* What the run checks of the parts together is what each part specifies by itself.
THEOREM PartsKept ==
  MCSpec => CompilationSpec /\ DebuggerSpec /\ HighlighterSpec
<1>1. MCInit => CompilationInit /\ DebuggerInit /\ HighlighterInit
  BY DEF MCInit
<1>2. [MCNext]_<<part, compilationVars, highlighterVars, debuggerVars>> =>
        /\ [CompilationNext]_compilationVars /\ [DebuggerNext]_debuggerVars
        /\ [HighlighterNext]_highlighterVars
  BY PartSteps DEF Compiles, Debugs, Highlights
<1> QED BY <1>1, <1>2, PTL DEF MCSpec, CompilationSpec, DebuggerSpec, HighlighterSpec

\* The variables of every part keep their types.
THEOREM ToolsTypeCorrect == MCSpec => []EveryTypeOK
<1>1. CompilationSpec => []CompilationTypeOK
  BY Bounds, CompilationTypeCorrect
<1>2. DebuggerSpec => []DebuggerTypeOK
  BY Bounds, DebuggerTypeCorrect
<1>3. HighlighterSpec => []HighlighterTypeOK
  BY Bounds, HighlighterTypeCorrect
<1> QED BY <1>1, <1>2, <1>3, PartsKept, PTL DEF EveryTypeOK
=============================================================================
