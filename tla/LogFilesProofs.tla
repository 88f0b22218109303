--------------------------- MODULE LogFilesProofs ---------------------------
(***************************************************************************)
(* Proofs about LogFiles: no line is lost before its time, a level has no  *)
(* more files than numbers, and the oldest is the one recycled.  First     *)
(* what sums of lines over sets of files come to, then what open_fd,       *)
(* shift_fd and Control make of the files, last the invariants.            *)
(***************************************************************************)
EXTENDS LogFiles, FiniteSetTheorems, TLAPS

\* A set of natural numbers has a least one: what an induction rests on.
LEMMA LeastOne ==
  ASSUME NEW T \in SUBSET Nat, T # {}
  PROVE  \E m \in T : \A n \in T : m <= n
<1> DEFINE Less == OpToRel(<, Nat)
<1>1. IsWellFoundedOn(Less, Nat)
  BY NatLessThanWellFounded
<1>2. \A m, n \in Nat : m < n => <<m, n>> \in Less
  BY DEF OpToRel
<1> HIDE DEF Less
<1>3. PICK m \in T : \A n \in T : <<n, m>> \notin Less
  BY <1>1, WFMin
<1>4. \A n \in T : ~(n < m)
  BY <1>2, <1>3
<1>5. QED
  BY <1>4

\* Of the subsets of a finite set that do not have a property there is one all of
\* whose own subsets have it.
LEMMA LeastSubset ==
  ASSUME NEW S, IsFiniteSet(S), NEW Bad \in SUBSET SUBSET S, Bad # {}
  PROVE  \E T \in Bad : \A R \in SUBSET T : R \in Bad => R = T
<1> DEFINE Sizes == {Cardinality(T) : T \in Bad}
<1>1. \A T \in Bad : IsFiniteSet(T) /\ Cardinality(T) \in Nat
  BY FS_Subset, FS_CardinalityType
<1>2. PICK m \in Sizes : \A n \in Sizes : m <= n
  <2>1. Sizes \in SUBSET Nat /\ Sizes # {}
    BY <1>1
  <2> HIDE DEF Sizes
  <2>2. QED
    BY <2>1, LeastOne
<1>3. PICK T \in Bad : m = Cardinality(T)
  OBVIOUS
<1>4. ASSUME NEW R \in SUBSET T, R \in Bad PROVE R = T
  <2>1. Cardinality(T) <= Cardinality(R)
    BY <1>2, <1>3, <1>4
  <2>2. /\ Cardinality(R) <= Cardinality(T)
        /\ Cardinality(T) = Cardinality(R) => T = R
    BY <1>1, FS_Subset
  <2>3. Cardinality(T) \in Nat /\ Cardinality(R) \in Nat
    BY <1>1, <1>4
  <2>4. QED
    BY <2>1, <2>2, <2>3
<1>5. QED
  BY <1>4

-----------------------------------------------------------------------------
\* One member of a set, the one SumFunctionOnSet takes next.
One(T) == CHOOSE x \in T : TRUE

\* g gives the sums of f over the subsets of S: what the recursive function of
\* SumFunctionOnSet stands for.
Adds(g, f, S) ==
  g = [T \in SUBSET S |-> IF T = {} THEN 0 ELSE f[One(T)] + g[T \ {One(T)}]]

LEMMA OneIn == \A T : T # {} => One(T) \in T
  BY DEF One

\* It is one function: functions that agree have the same sums.
LEMMA AddsAgree ==
  ASSUME NEW f, NEW e, NEW S, NEW R, NEW g, NEW h, Adds(g, f, S), Adds(h, e, R),
         NEW U \in SUBSET S, U \in SUBSET R, IsFiniteSet(U), \A x \in U : f[x] = e[x]
  PROVE  g[U] = h[U]
<1> DEFINE Bad == {T \in SUBSET U : g[T] # h[T]}
<1>1. SUFFICES ASSUME Bad # {} PROVE FALSE
  OBVIOUS
<1>2. PICK T \in Bad : \A Q \in SUBSET T : Q \in Bad => Q = T
  <2>1. Bad \in SUBSET SUBSET U
    OBVIOUS
  <2> HIDE DEF Bad
  <2>2. QED
    BY <1>1, <2>1, LeastSubset
<1>3. T \in SUBSET U /\ T \in SUBSET S /\ T \in SUBSET R /\ g[T] # h[T]
  OBVIOUS
<1>4. /\ g[T] = IF T = {} THEN 0 ELSE f[One(T)] + g[T \ {One(T)}]
      /\ h[T] = IF T = {} THEN 0 ELSE e[One(T)] + h[T \ {One(T)}]
  BY <1>3 DEF Adds
<1>5. T # {}
  BY <1>3, <1>4
<1>6. One(T) \in T /\ T \ {One(T)} \in SUBSET U
  BY <1>3, <1>5, OneIn
<1>7. g[T \ {One(T)}] = h[T \ {One(T)}] /\ f[One(T)] = e[One(T)]
  BY <1>2, <1>3, <1>6
<1>8. QED
  BY <1>3, <1>4, <1>7

\* There is such a function over every finite set.
LEMMA AddsExists ==
  ASSUME NEW f, NEW S, IsFiniteSet(S)
  PROVE  \E g : Adds(g, f, S)
<1> DEFINE Bad == {R \in SUBSET S : ~\E g : Adds(g, f, R)}
<1>1. SUFFICES ASSUME Bad # {} PROVE FALSE
  OBVIOUS
<1>2. PICK R \in Bad : \A Q \in SUBSET R : Q \in Bad => Q = R
  <2>1. Bad \in SUBSET SUBSET S
    OBVIOUS
  <2> HIDE DEF Bad
  <2>2. QED
    BY <1>1, <2>1, LeastSubset
<1> DEFINE G(x) == CHOOSE g : Adds(g, f, R \ {x})
<1>3. ASSUME NEW x \in R PROVE Adds(G(x), f, R \ {x})
  BY <1>2
<1>4. R \in SUBSET S /\ ~\E g : Adds(g, f, R)
  OBVIOUS
<1> HIDE DEF G
<1> DEFINE h == [T \in SUBSET R |->
                   IF T = {} THEN 0 ELSE f[One(T)] + G(One(T))[T \ {One(T)}]]
<1>5. ASSUME NEW T \in SUBSET R, T # {}
      PROVE  h[T \ {One(T)}] = G(One(T))[T \ {One(T)}]
  <2> DEFINE x == One(T)
             U == T \ {x}
  <2>1. x \in R /\ U \in SUBSET R /\ U \in SUBSET (R \ {x})
    BY <1>5, OneIn
  <2>2. G(x)[U] = IF U = {} THEN 0 ELSE f[One(U)] + G(x)[U \ {One(U)}]
    BY <1>3, <2>1 DEF Adds
  <2>3. h[U] = IF U = {} THEN 0 ELSE f[One(U)] + G(One(U))[U \ {One(U)}]
    BY <2>1
  <2>4. CASE U # {}
    <3> DEFINE y == One(U)
               V == U \ {y}
    <3>1. y \in R /\ V \in SUBSET (R \ {x}) /\ V \in SUBSET (R \ {y}) /\ IsFiniteSet(V)
      <4>1. y \in U
        BY <2>4, OneIn
      <4>2. V \in SUBSET S
        BY <1>4
      <4>3. IsFiniteSet(V)
        BY <4>2, FS_Subset
      <4>4. QED
        BY <2>1, <4>1, <4>3
    <3>2. Adds(G(x), f, R \ {x}) /\ Adds(G(y), f, R \ {y})
      BY <1>3, <2>1, <3>1
    <3> HIDE DEF x, y, U, V
    <3>3. G(x)[V] = G(y)[V]
      BY <3>1, <3>2, AddsAgree
    <3> USE DEF V, y
    <3>4. QED
      BY <2>2, <2>3, <2>4, <3>3 DEF U, x
  <2>5. QED
    BY <2>2, <2>3, <2>4
<1>6. Adds(h, f, R)
  <2>1. ASSUME NEW T \in SUBSET R
        PROVE  h[T] = IF T = {} THEN 0 ELSE f[One(T)] + h[T \ {One(T)}]
    BY <1>5
  <2>2. h = [T \in SUBSET R |-> h[T]]
    OBVIOUS
  <2> HIDE DEF h
  <2>3. QED
    BY <2>1, <2>2 DEF Adds
<1>7. QED
  BY <1>4, <1>6

\* What SumFunctionOnSet gives.
LEMMA SumIs ==
  ASSUME NEW f, NEW S, IsFiniteSet(S)
  PROVE  \E g : Adds(g, f, S) /\ SumFunctionOnSet(f, S) = g[S]
<1> DEFINE g == CHOOSE g : Adds(g, f, S)
<1>1. Adds(g, f, S)
  BY AddsExists
<1>2. SumFunctionOnSet(f, S) = g[S]
  BY DEF SumFunctionOnSet, FoldFunctionOnSet, MapThenFoldSet, Adds, One
<1>3. QED
  BY <1>1, <1>2

\* Functions that agree on a set have the same sum over it.
LEMMA SumSame ==
  ASSUME NEW S, IsFiniteSet(S), NEW f, NEW e, \A x \in S : f[x] = e[x]
  PROVE  SumFunctionOnSet(f, S) = SumFunctionOnSet(e, S)
<1>1. PICK g : Adds(g, f, S) /\ SumFunctionOnSet(f, S) = g[S]
  BY SumIs
<1>2. PICK h : Adds(h, e, S) /\ SumFunctionOnSet(e, S) = h[S]
  BY SumIs
<1>3. QED
  BY <1>1, <1>2, AddsAgree

LEMMA SumNothing == \A f : SumFunctionOnSet(f, {}) = 0
<1> SUFFICES ASSUME NEW f PROVE SumFunctionOnSet(f, {}) = 0
  OBVIOUS
<1>1. PICK g : Adds(g, f, {}) /\ SumFunctionOnSet(f, {}) = g[{}]
  BY SumIs, FS_EmptySet
<1>2. QED
  BY <1>1 DEF Adds

\* The member taken first, and the rest.
LEMMA SumFirst ==
  ASSUME NEW S, IsFiniteSet(S), S # {}, NEW f
  PROVE  SumFunctionOnSet(f, S) = f[One(S)] + SumFunctionOnSet(f, S \ {One(S)})
<1> DEFINE R == S \ {One(S)}
<1>1. PICK g : Adds(g, f, S) /\ SumFunctionOnSet(f, S) = g[S]
  BY SumIs
<1>2. IsFiniteSet(R)
  BY FS_RemoveElement
<1>3. PICK h : Adds(h, f, R) /\ SumFunctionOnSet(f, R) = h[R]
  <2> HIDE DEF R
  <2>1. QED
    BY <1>2, SumIs
<1>4. g[R] = h[R]
  <2>1. R \in SUBSET S
    OBVIOUS
  <2> HIDE DEF R
  <2>2. QED
    BY <1>1, <1>2, <1>3, <2>1, AddsAgree
<1>5. g[S] = f[One(S)] + g[R]
  BY <1>1 DEF Adds
<1>6. QED
  BY <1>1, <1>3, <1>4, <1>5

\* A sum of integers is one, and it does not matter which member is taken first.
LEMMA SumOne ==
  ASSUME NEW S, IsFiniteSet(S), NEW f, \A x \in S : f[x] \in Int
  PROVE  /\ SumFunctionOnSet(f, S) \in Int
         /\ \A x \in S : SumFunctionOnSet(f, S) = f[x] + SumFunctionOnSet(f, S \ {x})
<1> DEFINE Good(T) == /\ SumFunctionOnSet(f, T) \in Int
                      /\ \A x \in T : SumFunctionOnSet(f, T) = f[x] + SumFunctionOnSet(f, T \ {x})
           Bad == {T \in SUBSET S : ~Good(T)}
<1>1. SUFFICES ASSUME Bad # {} PROVE FALSE
  OBVIOUS
<1>2. PICK T \in Bad : \A R \in SUBSET T : R \in Bad => R = T
  <2>1. Bad \in SUBSET SUBSET S
    OBVIOUS
  <2> HIDE DEF Bad
  <2>2. QED
    BY <1>1, <2>1, LeastSubset
<1>3. T \in SUBSET S /\ ~Good(T) /\ IsFiniteSet(T)
  BY FS_Subset
<1>4. \A x \in T : Good(T \ {x}) /\ \A y \in T : Good((T \ {x}) \ {y})
  BY <1>2, <1>3
<1>5. T # {}
  BY <1>3, SumNothing
<1> DEFINE y == One(T)
<1>6. y \in T /\ f[y] \in Int
  BY <1>3, <1>5, OneIn
<1>7. SumFunctionOnSet(f, T) = f[y] + SumFunctionOnSet(f, T \ {y})
  BY <1>3, <1>5, SumFirst
<1> HIDE DEF y
<1>8. SumFunctionOnSet(f, T) \in Int
  BY <1>4, <1>6, <1>7
<1>9. ASSUME NEW x \in T PROVE SumFunctionOnSet(f, T) = f[x] + SumFunctionOnSet(f, T \ {x})
  <2>1. CASE x = y
    BY <1>7, <2>1
  <2>2. CASE x # y
    <3>1. x \in T \ {y} /\ y \in T \ {x} /\ (T \ {y}) \ {x} = (T \ {x}) \ {y} /\ f[x] \in Int
      BY <1>3, <1>6, <2>2
    <3> DEFINE U == (T \ {x}) \ {y}
    <3>2. SumFunctionOnSet(f, T \ {y}) = f[x] + SumFunctionOnSet(f, U)
      BY <1>4, <1>6, <3>1
    <3>3. SumFunctionOnSet(f, T \ {x}) = f[y] + SumFunctionOnSet(f, U)
      BY <1>4, <3>1
    <3>4. SumFunctionOnSet(f, U) \in Int
      BY <1>4, <1>6
    <3> HIDE DEF U
    <3>5. QED
      BY <1>6, <1>7, <3>1, <3>2, <3>3, <3>4
  <2>3. QED
    BY <2>1, <2>2
<1>10. QED
  BY <1>3, <1>8, <1>9

\* A sum over a set is that over a part of it and that over the rest.
LEMMA SumSplit ==
  ASSUME NEW S, IsFiniteSet(S), NEW f, \A x \in S : f[x] \in Int, NEW R \in SUBSET S
  PROVE  SumFunctionOnSet(f, S) = SumFunctionOnSet(f, R) + SumFunctionOnSet(f, S \ R)
<1> DEFINE Good(T) == SumFunctionOnSet(f, S) = SumFunctionOnSet(f, T) + SumFunctionOnSet(f, S \ T)
           Bad == {T \in SUBSET S : ~Good(T)}
<1>1. SUFFICES ASSUME Bad # {} PROVE FALSE
  OBVIOUS
<1>2. PICK T \in Bad : \A Q \in SUBSET T : Q \in Bad => Q = T
  <2>1. Bad \in SUBSET SUBSET S
    OBVIOUS
  <2> HIDE DEF Bad
  <2>2. QED
    BY <1>1, <2>1, LeastSubset
<1>3. T \in SUBSET S /\ ~Good(T)
  OBVIOUS
<1>4. \A U \in SUBSET S : IsFiniteSet(U) /\ SumFunctionOnSet(f, U) \in Int
  <2> SUFFICES ASSUME NEW U \in SUBSET S
               PROVE  IsFiniteSet(U) /\ SumFunctionOnSet(f, U) \in Int
    OBVIOUS
  <2>1. IsFiniteSet(U)
    BY FS_Subset
  <2>2. QED
    BY <2>1, SumOne
<1>5. T # {}
  <2>1. S \ {} = S /\ S \in SUBSET S
    OBVIOUS
  <2>2. Good({})
    BY <1>4, <2>1, SumNothing
  <2>3. QED
    BY <1>3, <2>2
<1>6. PICK x \in T : TRUE
  BY <1>5
<1>7. Good(T \ {x})
  BY <1>2, <1>3, <1>6
<1>8. SumFunctionOnSet(f, T) = f[x] + SumFunctionOnSet(f, T \ {x})
  BY <1>3, <1>4, <1>6, SumOne
<1>9. SumFunctionOnSet(f, S \ (T \ {x})) = f[x] + SumFunctionOnSet(f, S \ T)
  <2> DEFINE U == S \ (T \ {x})
  <2>1. U \in SUBSET S /\ x \in U /\ U \ {x} = S \ T
    BY <1>3, <1>6
  <2> HIDE DEF U
  <2>2. \A y \in U : f[y] \in Int
    BY <2>1
  <2>3. SumFunctionOnSet(f, U) = f[x] + SumFunctionOnSet(f, U \ {x})
    BY <1>4, <2>1, <2>2, SumOne
  <2>4. QED
    BY <2>1, <2>3 DEF U
<1>10. f[x] \in Int /\ T \ {x} \in SUBSET S /\ S \ T \in SUBSET S
  BY <1>3, <1>6
<1>11. /\ SumFunctionOnSet(f, T \ {x}) \in Int
       /\ SumFunctionOnSet(f, S \ T) \in Int
  BY <1>4, <1>10
<1>12. QED
  BY <1>3, <1>7, <1>8, <1>9, <1>10, <1>11

\* Where there is nothing to add.
LEMMA SumZero ==
  ASSUME NEW S, IsFiniteSet(S), NEW f, \A x \in S : f[x] = 0
  PROVE  SumFunctionOnSet(f, S) = 0
<1> DEFINE Bad == {T \in SUBSET S : SumFunctionOnSet(f, T) # 0}
<1>1. SUFFICES ASSUME Bad # {} PROVE FALSE
  OBVIOUS
<1>2. PICK T \in Bad : \A Q \in SUBSET T : Q \in Bad => Q = T
  <2>1. Bad \in SUBSET SUBSET S
    OBVIOUS
  <2> HIDE DEF Bad
  <2>2. QED
    BY <1>1, <2>1, LeastSubset
<1>3. T \in SUBSET S /\ SumFunctionOnSet(f, T) # 0 /\ IsFiniteSet(T)
  BY FS_Subset
<1>4. T # {}
  BY <1>3, SumNothing
<1>5. One(T) \in T
  BY <1>4, OneIn
<1>6. SumFunctionOnSet(f, T \ {One(T)}) = 0
  BY <1>2, <1>3, <1>5
<1>7. QED
  BY <1>3, <1>4, <1>5, <1>6, SumFirst

-----------------------------------------------------------------------------
(* What the log is. *)

\* The names that files can have by now, and what is kept of a level.
Names == [level : Levels, date : 0 .. today, seq : Nat]
Fds == [seq : Nat, file : Names \cup {NoFile}, day : -1 .. today, count : Nat]

\* A directory: finitely many names, each with the lines in the file.
IsDir(dir) ==
  /\ dir = [n \in DOMAIN dir |-> dir[n]]
  /\ DOMAIN dir \subseteq Names /\ IsFiniteSet(DOMAIN dir)
  /\ \A n \in DOMAIN dir : dir[n] \in Nat

\* The file a level has open is of the day it was opened, and if that is today
\* nobody has removed it.
OpenOK(s, l) ==
  s.fds[l].file # NoFile =>
    /\ s.fds[l].file.level = l /\ s.fds[l].file.date = s.fds[l].day
    /\ s.fds[l].day = today => s.fds[l].file \in DOMAIN s.dir

IsLog(s) ==
  /\ s = [fds |-> s.fds, max |-> s.max, dir |-> s.dir]
  /\ s.fds \in [Levels -> Fds] /\ s.max \in {0, MaxFiles}
  /\ IsDir(s.dir)
  /\ \A l \in Levels : OpenOK(s, l)

\* What a line of level l may do to the directory: empty files of today come, files
\* of other days go, and the others stay as they are.
Turns(old, new, l) ==
  /\ \A n \in DOMAIN new \ DOMAIN old : n.level = l /\ n.date = today /\ new[n] = 0
  /\ \A n \in DOMAIN old \ DOMAIN new : n.level = l /\ n.date # today
  /\ \A n \in DOMAIN old \cap DOMAIN new : new[n] = old[n]

\* A name that is given is one.
LEMMA NameIs ==
  ASSUME NEW l \in Levels, today \in Nat, NEW q \in Nat
  PROVE  /\ Name(l, today, q) \in Names /\ Name(l, today, q) # NoFile
         /\ Name(l, today, q).level = l /\ Name(l, today, q).date = today
         /\ Name(l, today, q).seq = q
  BY LogFilesAssumption DEF Name, Names

\* The directory after a file has been opened.
Added(dir, name) == IF name \in DOMAIN dir THEN dir ELSE With(dir, name, 0)

LEMMA AddedIs ==
  ASSUME NEW dir, IsDir(dir), NEW l \in Levels, today \in Nat, NEW q \in Nat
  PROVE  LET name == Name(l, today, q)
             new == Added(dir, name)
         IN  /\ IsDir(new) /\ DOMAIN new = DOMAIN dir \cup {name}
             /\ Turns(dir, new, l)
<1> DEFINE name == Name(l, today, q)
           new == Added(dir, name)
<1>1. name \in Names /\ name.level = l /\ name.date = today
  BY NameIs
<1> HIDE DEF name
<1>2. CASE name \in DOMAIN dir
  <2>1. new = dir
    BY <1>2 DEF Added
  <2>2. Turns(dir, dir, l) /\ DOMAIN dir = DOMAIN dir \cup {name}
    BY <1>2 DEF Turns
  <2>3. QED
    BY <2>1, <2>2 DEF name
<1>3. CASE name \notin DOMAIN dir
  <2>1. new = [n \in DOMAIN dir \cup {name} |-> IF n = name THEN 0 ELSE dir[n]]
    BY <1>3 DEF Added, With
  <2>2. IsFiniteSet(DOMAIN dir \cup {name})
    BY FS_AddElement DEF IsDir
  <2> HIDE DEF new
  <2>3. DOMAIN new = DOMAIN dir \cup {name}
    BY <2>1
  <2>4. IsDir(new)
    BY <1>1, <2>1, <2>2, <2>3 DEF IsDir
  <2>5. Turns(dir, new, l)
    BY <1>1, <1>3, <2>1, <2>3 DEF Turns
  <2>6. QED
    BY <2>3, <2>4, <2>5 DEF new, name
<1>4. QED
  BY <1>2, <1>3 DEF name

\* Removing files leaves a directory.
LEMMA RemoveIs ==
  ASSUME NEW dir, IsDir(dir), NEW names
  PROVE  /\ IsDir(Remove(dir, names)) /\ DOMAIN Remove(dir, names) = DOMAIN dir \ names
         /\ \A n \in DOMAIN dir \ names : Remove(dir, names)[n] = dir[n]
<1>1. Remove(dir, names) = [n \in DOMAIN dir \ names |-> dir[n]]
  BY DEF Remove, Restrict
<1>2. IsFiniteSet(DOMAIN dir \ names)
  BY FS_Subset DEF IsDir
<1>3. QED
  BY <1>1, <1>2 DEF IsDir

\* The steps of a line follow each other.
LEMMA TurnsTwice ==
  ASSUME NEW a, NEW b, NEW c, NEW l, Turns(a, b, l), Turns(b, c, l)
  PROVE  Turns(a, c, l)
  BY DEF Turns

\* Files of other days with a number.
Old(dir, l, seq) == {n \in FilesOf(dir, l) : n.seq = seq /\ n.date # today}

\* What open_fd makes of the log when it opens a file; gone is what it removes.
Opened(s, t, l, gone, fails) ==
  LET name == Name(l, today, s.fds[l].seq)
      new == Added(s.dir, name)
      old == Old(new, l, s.fds[l].seq)
  IN /\ t = [fds |-> t.fds, max |-> t.max, dir |-> t.dir]
     /\ t.fds = [s.fds EXCEPT ![l] = [seq |-> t.fds[l].seq, file |-> name, day |-> today,
                                      count |-> t.fds[l].count]]
     /\ t.fds[l].seq \in {s.fds[l].seq, MaxFiles} /\ t.fds[l].count \in Nat
     /\ t.max \in {0, MaxFiles}
     /\ t.max # 0 => t.fds[l].seq = s.fds[l].seq
     /\ t.max # 0 /\ s.fds[l].day = today => s.max # 0
     /\ t.max = 0 => gone = {}
     /\ gone \subseteq old /\ t.dir = Remove(new, gone)
     /\ t.max # 0 /\ fails = "none" =>
          (gone = {} /\ old = {}) \/ (\E n \in old : gone = {n})

LEMMA OpenFdIs ==
  ASSUME NEW s, IsLog(s), NEW l \in Levels, today \in Nat, NEW fails, NEW t \in OpenFd(s, l, fails)
  PROVE  \/ fails = "open" /\ t = [s EXCEPT !.fds[l].file = NoFile]
         \/ fails # "open" /\ \E gone : Opened(s, t, l, gone, fails)
<1> DEFINE f == s.fds[l]
           name == Name(l, today, f.seq)
           new == Added(s.dir, name)
           newDay == f.day # today
           count == IF newDay THEN 1 ELSE f.count + 1
           max == IF newDay THEN MaxFiles ELSE s.max
           usedUp == max # 0 /\ count > max
           seq == IF usedUp THEN max ELSE f.seq
           fd == [seq |-> seq, file |-> name, day |-> today, count |-> count]
           opened == [fds |-> [s.fds EXCEPT ![l] = fd],
                      max |-> IF usedUp THEN 0 ELSE max, dir |-> new]
<1>1. CASE fails = "open"
  BY <1>1 DEF OpenFd
<1>2. CASE fails # "open"
  <2>1. /\ f \in Fds /\ s = [fds |-> s.fds, max |-> s.max, dir |-> s.dir]
        /\ s.max \in {0, MaxFiles}
    BY DEF IsLog
  <2>2. count \in Nat /\ max \in {0, MaxFiles} /\ seq \in {f.seq, MaxFiles}
    BY <2>1, LogFilesAssumption DEF Fds
  <2>3. t \in IF opened.max = 0 \/ fails = "opendir" THEN {opened}
              ELSE RmFilesBySeqno(opened, l, f.seq)
    BY <1>2 DEF OpenFd, Added
  <2>4. opened.fds[l] = fd /\ opened.max \in {0, MaxFiles} /\ opened.dir = new
        /\ opened = [fds |-> opened.fds, max |-> opened.max, dir |-> opened.dir]
        /\ opened.fds = [s.fds EXCEPT ![l] = fd]
        /\ (opened.max # 0 => seq = f.seq)
        /\ (opened.max # 0 /\ f.day = today => s.max # 0)
    BY <2>1, <2>2 DEF IsLog
  <2> DEFINE old == Old(new, l, f.seq)
  <2>5. Remove(new, {}) = new
    <3>1. IsDir(s.dir)
      BY DEF IsLog
    <3>2. f.seq \in Nat
      BY <2>1 DEF Fds
    <3>3. IsDir(new)
      BY <3>1, <3>2, AddedIs
    <3>4. QED
      BY <3>3 DEF Remove, Restrict, IsDir
  <2>6. fd.seq = seq /\ fd.count = count /\ fd = [seq |-> fd.seq, file |-> name, day |-> today,
                                                 count |-> fd.count]
    OBVIOUS
  <2> HIDE DEF opened, fd, count, max, usedUp, seq
  <2>7. CASE t = opened /\ (opened.max = 0 \/ fails = "opendir")
    <3>1. Opened(s, t, l, {}, fails)
      BY <2>2, <2>4, <2>5, <2>6, <2>7 DEF Opened
    <3>2. QED
      BY <1>2, <3>1
  <2>8. CASE opened.max # 0 /\ t \in RmFilesBySeqno(opened, l, f.seq)
    <3>1. CASE old = {}
      <4>1. t = opened
        BY <2>4, <2>8, <3>1 DEF RmFilesBySeqno, Old
      <4>2. Opened(s, t, l, {}, fails)
        BY <2>2, <2>4, <2>5, <2>6, <3>1, <4>1 DEF Opened
      <4>3. QED
        BY <1>2, <4>2
    <3>2. CASE old # {}
      <4>1. PICK n \in old : t = [opened EXCEPT !.dir = Remove(@, {n})]
        BY <2>4, <2>8, <3>2 DEF RmFilesBySeqno, Old
      <4>2. /\ t = [fds |-> t.fds, max |-> t.max, dir |-> t.dir]
            /\ t.fds = opened.fds /\ t.max = opened.max /\ t.dir = Remove(new, {n})
        BY <2>4, <4>1
      <4>3. Opened(s, t, l, {n}, fails)
        BY <2>2, <2>4, <2>6, <2>8, <4>2 DEF Opened
      <4>4. QED
        BY <1>2, <4>3
    <3>3. QED
      BY <3>1, <3>2
  <2>9. QED
    BY <2>3, <2>7, <2>8
<1>3. QED
  BY <1>1, <1>2

\* The number after one.
LEMMA NextNumber ==
  ASSUME NEW m \in Nat \ {0}, NEW a \in Nat
  PROVE  /\ (a + 1) % m \in 0 .. m - 1
         /\ a < m => (a + 1) % m = IF a + 1 = m THEN 0 ELSE a + 1
<1>1. (a + 1) % m \in 0 .. m - 1
  OBVIOUS
<1>2. ASSUME a < m PROVE (a + 1) % m = IF a + 1 = m THEN 0 ELSE a + 1
  <2>1. m % m = 0
    OBVIOUS
  <2>2. ASSUME NEW b \in Nat, b < m PROVE b % m = b
    BY <2>2
  <2>3. CASE a + 1 = m
    BY <2>1, <2>3
  <2>4. CASE a + 1 < m
    BY <2>2, <2>4
  <2>5. QED
    BY <1>2, <2>3, <2>4
<1>3. QED
  BY <1>1, <1>2

-----------------------------------------------------------------------------
(* What write_log does before it writes. *)

\* The log after shift_fd, as against before.
Shifts(s, t, l) ==
  /\ IsLog(t) /\ Turns(s.dir, t.dir, l)
  /\ \A k \in Levels \ {l} : t.fds[k] = s.fds[k]
  /\ t.fds[l].file # NoFile => t.fds[l].day = today

LEMMA OpenShifts ==
  ASSUME NEW s, IsLog(s), NEW l \in Levels, today \in Nat, NEW fails, NEW t \in OpenFd(s, l, fails)
  PROVE  Shifts(s, t, l)
<1>1. /\ s = [fds |-> s.fds, max |-> s.max, dir |-> s.dir]
      /\ s.fds \in [Levels -> Fds] /\ s.max \in {0, MaxFiles} /\ IsDir(s.dir)
      /\ s.fds[l] \in Fds /\ s.fds[l].seq \in Nat
  BY DEF IsLog, Fds
<1>2. CASE t = [s EXCEPT !.fds[l].file = NoFile]
  <2>1. /\ t = [fds |-> t.fds, max |-> t.max, dir |-> t.dir]
        /\ t.fds = [s.fds EXCEPT ![l] = [@ EXCEPT !.file = NoFile]]
        /\ t.max = s.max /\ t.dir = s.dir
    BY <1>1, <1>2
  <2>2. [s.fds[l] EXCEPT !.file = NoFile] \in Fds
    BY <1>1 DEF Fds
  <2>3. t.fds \in [Levels -> Fds] /\ t.fds[l].file = NoFile
    BY <1>1, <2>1, <2>2 DEF Fds
  <2>4. \A k \in Levels \ {l} : t.fds[k] = s.fds[k]
    BY <1>1, <2>1
  <2>5. \A k \in Levels : OpenOK(t, k)
    BY <2>1, <2>3, <2>4 DEF IsLog, OpenOK
  <2>6. Turns(s.dir, t.dir, l)
    BY <2>1 DEF Turns
  <2>7. QED
    BY <1>1, <2>1, <2>3, <2>4, <2>5, <2>6 DEF Shifts, IsLog
<1>3. ASSUME NEW gone, Opened(s, t, l, gone, fails) PROVE Shifts(s, t, l)
  <2> DEFINE name == Name(l, today, s.fds[l].seq)
             new == Added(s.dir, name)
             fd == [seq |-> t.fds[l].seq, file |-> name, day |-> today,
                    count |-> t.fds[l].count]
  <2>1. /\ t = [fds |-> t.fds, max |-> t.max, dir |-> t.dir]
        /\ t.fds = [s.fds EXCEPT ![l] = fd]
        /\ t.fds[l].seq \in {s.fds[l].seq, MaxFiles} /\ t.fds[l].count \in Nat
        /\ t.max \in {0, MaxFiles}
        /\ gone \subseteq Old(new, l, s.fds[l].seq) /\ t.dir = Remove(new, gone)
    BY <1>3 DEF Opened
  <2>2. name \in Names /\ name.level = l /\ name.date = today
    BY <1>1, NameIs
  <2>3. IsDir(new) /\ DOMAIN new = DOMAIN s.dir \cup {name} /\ Turns(s.dir, new, l)
    BY <1>1, AddedIs
  <2>4. /\ IsDir(t.dir) /\ DOMAIN t.dir = DOMAIN new \ gone
        /\ \A n \in DOMAIN new \ gone : t.dir[n] = new[n]
    <3> HIDE DEF new
    <3>1. IsDir(new)
      BY <2>3
    <3> DEFINE left == Remove(new, gone)
    <3>2. /\ IsDir(left) /\ DOMAIN left = DOMAIN new \ gone
          /\ \A n \in DOMAIN new \ gone : left[n] = new[n]
      BY <3>1, RemoveIs
    <3>3. t.dir = left
      BY <2>1
    <3> HIDE DEF left
    <3>4. QED
      BY <3>2, <3>3
  <2>5. \A n \in gone : n.level = l /\ n.date # today
    BY <2>1 DEF Old, FilesOf
  <2>6. Turns(new, t.dir, l)
    BY <2>4, <2>5 DEF Turns
  <2>7. Turns(s.dir, t.dir, l)
    BY <2>3, <2>6, TurnsTwice
  <2>8. fd \in Fds /\ t.fds[l] = fd
    BY <1>1, <2>1, <2>2, LogFilesAssumption DEF Fds
  <2>9. t.fds \in [Levels -> Fds]
    BY <1>1, <2>1, <2>8
  <2>10. \A k \in Levels \ {l} : t.fds[k] = s.fds[k]
    BY <1>1, <2>1
  <2>11. name \in DOMAIN t.dir
    BY <2>2, <2>3, <2>4, <2>5
  <2>12. OpenOK(t, l)
    BY <2>2, <2>8, <2>11 DEF OpenOK
  <2>13. ASSUME NEW k \in Levels \ {l} PROVE OpenOK(t, k)
    <3>1. OpenOK(s, k) /\ t.fds[k] = s.fds[k] /\ s.fds[k] \in Fds
      BY <1>1, <2>10 DEF IsLog
    <3>2. ASSUME NEW n \in DOMAIN s.dir, n.date = today PROVE n \in DOMAIN t.dir
      BY <2>7, <3>2 DEF Turns
    <3>3. QED
      BY <3>1, <3>2 DEF OpenOK
  <2>14. QED
    BY <2>1, <2>4, <2>7, <2>8, <2>9, <2>10, <2>12, <2>13 DEF Shifts, IsLog
<1>4. QED
  BY <1>2, <1>3, OpenFdIs

\* The log with the number of the next file.
Advanced(s, l) == [s EXCEPT !.fds[l].seq = NextSeq(s, l)]

LEMMA NextShifts ==
  ASSUME NEW s, IsLog(s), NEW l \in Levels
  PROVE  /\ IsLog(Advanced(s, l)) /\ Advanced(s, l).dir = s.dir
         /\ Advanced(s, l).max = s.max
         /\ Advanced(s, l).fds = [s.fds EXCEPT ![l] = [@ EXCEPT !.seq = NextSeq(s, l)]]
<1> DEFINE t == Advanced(s, l)
<1>1. /\ s = [fds |-> s.fds, max |-> s.max, dir |-> s.dir]
      /\ s.fds \in [Levels -> Fds] /\ s.max \in {0, MaxFiles} /\ IsDir(s.dir)
      /\ s.fds[l] \in Fds /\ s.fds[l].seq \in Nat
  BY DEF IsLog, Fds
<1>2. NextSeq(s, l) \in Nat
  <2>1. CASE s.max = 0
    BY <1>1, <2>1 DEF NextSeq
  <2>2. CASE s.max # 0
    <3>1. (s.fds[l].seq + 1) % s.max \in 0 .. s.max - 1 /\ s.max \in Nat
      BY <1>1, <2>2, NextNumber, LogFilesAssumption
    <3>2. QED
      BY <2>2, <3>1 DEF NextSeq
  <2>3. QED
    BY <2>1, <2>2
<1>3. /\ t = [fds |-> t.fds, max |-> t.max, dir |-> t.dir]
      /\ t.fds = [s.fds EXCEPT ![l] = [@ EXCEPT !.seq = NextSeq(s, l)]]
      /\ t.max = s.max /\ t.dir = s.dir
  BY <1>1 DEF Advanced
<1>4. /\ [s.fds[l] EXCEPT !.seq = NextSeq(s, l)] \in Fds
      /\ [s.fds[l] EXCEPT !.seq = NextSeq(s, l)].file = s.fds[l].file
      /\ [s.fds[l] EXCEPT !.seq = NextSeq(s, l)].day = s.fds[l].day
  BY <1>1, <1>2 DEF Fds
<1> HIDE DEF t
<1>5. t.fds \in [Levels -> Fds]
  BY <1>1, <1>3, <1>4
<1>6. \A k \in Levels : t.fds[k].file = s.fds[k].file /\ t.fds[k].day = s.fds[k].day
  BY <1>1, <1>3, <1>4
<1>7. \A k \in Levels : OpenOK(t, k)
  BY <1>3, <1>6 DEF IsLog, OpenOK
<1>8. IsLog(t)
  BY <1>1, <1>3, <1>5, <1>7 DEF IsLog
<1>9. QED
  BY <1>3, <1>8 DEF t

\* The ways shift_fd goes.
LEMMA ShiftWays ==
  ASSUME NEW s, NEW l, NEW fails, NEW t \in ShiftFd(s, l, fails)
  PROVE  \/ s.fds[l].file # NoFile /\ Fits(s, l) /\ t = s
         \/ s.fds[l].file # NoFile /\ ~Fits(s, l) /\ t \in OpenFd(Advanced(s, l), l, fails[2])
         \/ /\ s.fds[l].file = NoFile
            /\ \E u \in OpenFd(s, l, fails[1]) :
                 \/ (u.fds[l].file = NoFile \/ Fits(u, l)) /\ t = u
                 \/ /\ u.fds[l].file # NoFile /\ ~Fits(u, l)
                    /\ t \in OpenFd(Advanced(u, l), l, fails[2])
  BY DEF ShiftFd, Advanced

LEMMA ShiftShifts ==
  ASSUME NEW s, IsLog(s), NEW l \in Levels, today \in Nat, NEW fails, NEW t \in ShiftFd(s, l, fails)
  PROVE  Shifts(s, t, l)
<1>1. ASSUME NEW u, IsLog(u), NEW v \in OpenFd(Advanced(u, l), l, fails[2])
      PROVE  Shifts(u, v, l)
  <2>1. /\ IsLog(Advanced(u, l)) /\ Advanced(u, l).dir = u.dir
        /\ \A k \in Levels \ {l} : Advanced(u, l).fds[k] = u.fds[k]
    <3>1. Advanced(u, l).fds = [u.fds EXCEPT ![l] = [@ EXCEPT !.seq = NextSeq(u, l)]]
      BY <1>1, NextShifts
    <3>2. u.fds \in [Levels -> Fds]
      BY <1>1 DEF IsLog
    <3>3. \A k \in Levels \ {l} : Advanced(u, l).fds[k] = u.fds[k]
      BY <3>1, <3>2
    <3>4. QED
      BY <1>1, <3>3, NextShifts
  <2>2. Shifts(Advanced(u, l), v, l)
    BY <1>1, <2>1, OpenShifts
  <2>3. QED
    BY <2>1, <2>2 DEF Shifts
<1>2. CASE s.fds[l].file # NoFile /\ Fits(s, l) /\ t = s
  BY <1>2 DEF Shifts, Fits, Turns
<1>3. CASE t \in OpenFd(Advanced(s, l), l, fails[2])
  BY <1>1, <1>3
<1>4. ASSUME NEW u \in OpenFd(s, l, fails[1]), t = u \/ t \in OpenFd(Advanced(u, l), l, fails[2])
      PROVE  Shifts(s, t, l)
  <2>1. Shifts(s, u, l)
    BY <1>4, OpenShifts
  <2>2. CASE t \in OpenFd(Advanced(u, l), l, fails[2])
    <3>1. Shifts(u, t, l)
      BY <1>1, <2>1, <2>2 DEF Shifts
    <3>2. QED
      BY <2>1, <3>1, TurnsTwice DEF Shifts
  <2>3. QED
    BY <1>4, <2>1, <2>2
<1>5. QED
  BY <1>2, <1>3, <1>4, ShiftWays

-----------------------------------------------------------------------------
(* How many lines there are. *)

\* The files of a date, and the lines in them.
Dated(dir, d) == {n \in DOMAIN dir : n.date = d}
LinesIn(dir, d) == SumFunctionOnSet(dir, Dated(dir, d))

LEMMA DatedIs ==
  ASSUME NEW dir, IsDir(dir), NEW d
  PROVE  /\ IsFiniteSet(Dated(dir, d)) /\ \A n \in Dated(dir, d) : dir[n] \in Int
         /\ LinesIn(dir, d) \in Int
<1>1. IsFiniteSet(Dated(dir, d))
  BY FS_Subset DEF Dated, IsDir
<1>2. \A n \in Dated(dir, d) : dir[n] \in Int
  BY DEF Dated, IsDir
<1>3. QED
  BY <1>1, <1>2, SumOne DEF LinesIn

\* The same files with the same lines.
LEMMA LinesSame ==
  ASSUME NEW old, IsDir(old), NEW new, NEW d, Dated(old, d) = Dated(new, d),
         \A n \in Dated(old, d) : new[n] = old[n]
  PROVE  LinesIn(new, d) = LinesIn(old, d)
  BY DatedIs, SumSame DEF LinesIn

\* What shift_fd takes away is what is in the files that go.
LEMMA TurnsLines ==
  ASSUME NEW old, IsDir(old), NEW new, IsDir(new), NEW l, Turns(old, new, l), NEW d
  PROVE  LET gone == {n \in DOMAIN old \ DOMAIN new : n.date = d}
         IN  /\ SumFunctionOnSet(old, gone) \in Int
             /\ LinesIn(new, d) = LinesIn(old, d) - SumFunctionOnSet(old, gone)
<1> DEFINE gone == {n \in DOMAIN old \ DOMAIN new : n.date = d}
           both == Dated(old, d) \cap DOMAIN new
<1>1. /\ IsFiniteSet(Dated(old, d)) /\ \A n \in Dated(old, d) : old[n] \in Int
      /\ IsFiniteSet(Dated(new, d)) /\ \A n \in Dated(new, d) : new[n] \in Int
  BY DatedIs
<1>2. gone \in SUBSET Dated(old, d) /\ Dated(old, d) \ gone = both
  BY DEF Dated
<1>3. both \in SUBSET Dated(new, d) /\ both \in SUBSET Dated(old, d)
  BY DEF Dated
<1>4. \A n \in both : new[n] = old[n]
  BY DEF Turns, Dated
<1>5. \A n \in Dated(new, d) \ both : new[n] = 0
  BY DEF Turns, Dated
<1>6. IsFiniteSet(both) /\ IsFiniteSet(gone) /\ IsFiniteSet(Dated(new, d) \ both)
  <2> HIDE DEF gone, both
  <2>1. Dated(new, d) \ both \in SUBSET Dated(new, d)
    OBVIOUS
  <2>2. QED
    BY <1>1, <1>2, <1>3, <2>1, FS_Subset
<1> HIDE DEF gone, both
<1>7. LinesIn(old, d) = SumFunctionOnSet(old, gone) + SumFunctionOnSet(old, both)
  BY <1>1, <1>2, SumSplit DEF LinesIn
<1>8. LinesIn(new, d) = SumFunctionOnSet(new, both)
                          + SumFunctionOnSet(new, Dated(new, d) \ both)
  BY <1>1, <1>3, SumSplit DEF LinesIn
<1>9. SumFunctionOnSet(new, both) = SumFunctionOnSet(old, both)
  BY <1>4, <1>6, SumSame
<1>10. SumFunctionOnSet(new, Dated(new, d) \ both) = 0
  BY <1>5, <1>6, SumZero
<1>11. SumFunctionOnSet(old, gone) \in Int /\ SumFunctionOnSet(old, both) \in Int
  <2>1. (\A n \in gone : old[n] \in Int) /\ (\A n \in both : old[n] \in Int)
    BY <1>1, <1>2, <1>3
  <2>2. QED
    BY <1>6, <2>1, SumOne
<1>12. /\ SumFunctionOnSet(old, gone) \in Int
       /\ LinesIn(new, d) = LinesIn(old, d) - SumFunctionOnSet(old, gone)
  BY <1>7, <1>8, <1>9, <1>10, <1>11
<1>13. QED
  BY <1>12 DEF gone

\* A line more in a file.
LEMMA LineMore ==
  ASSUME NEW dir, IsDir(dir), NEW file \in DOMAIN dir, NEW d
  PROVE  LET new == [dir EXCEPT ![file] = @ + 1]
         IN  /\ IsDir(new) /\ DOMAIN new = DOMAIN dir
             /\ LinesIn(new, d) = LinesIn(dir, d) + (IF d = file.date THEN 1 ELSE 0)
<1> DEFINE new == [dir EXCEPT ![file] = @ + 1]
<1>1. /\ DOMAIN new = DOMAIN dir /\ new = [n \in DOMAIN new |-> new[n]]
      /\ new[file] = dir[file] + 1
      /\ \A n \in DOMAIN dir \ {file} : new[n] = dir[n]
  BY DEF IsDir
<1> HIDE DEF new
<1>2. IsDir(new)
  BY <1>1 DEF IsDir
<1>3. Dated(new, d) = Dated(dir, d)
  BY <1>1 DEF Dated
<1>4. CASE d # file.date
  <2>1. \A n \in Dated(dir, d) : new[n] = dir[n]
    BY <1>1, <1>4 DEF Dated
  <2>2. LinesIn(new, d) = LinesIn(dir, d)
    BY <1>3, <2>1, LinesSame
  <2>3. LinesIn(dir, d) \in Int
    BY DatedIs
  <2>4. QED
    BY <1>1, <1>2, <1>4, <2>2, <2>3 DEF new
<1>5. CASE d = file.date
  <2> DEFINE S == Dated(dir, d)
  <2>1. file \in S
    BY <1>5 DEF Dated
  <2>2. /\ IsFiniteSet(S) /\ (\A n \in S : dir[n] \in Int) /\ (\A n \in S : new[n] \in Int)
        /\ IsFiniteSet(S \ {file})
    BY <1>2, <1>3, DatedIs, FS_RemoveElement
  <2>3. SumFunctionOnSet(dir, S) = dir[file] + SumFunctionOnSet(dir, S \ {file})
    BY <2>1, <2>2, SumOne
  <2>4. SumFunctionOnSet(new, S) = new[file] + SumFunctionOnSet(new, S \ {file})
    BY <2>1, <2>2, SumOne
  <2>5. SumFunctionOnSet(new, S \ {file}) = SumFunctionOnSet(dir, S \ {file})
    <3>1. \A n \in S \ {file} : new[n] = dir[n]
      BY <1>1 DEF Dated
    <3>2. QED
      BY <2>2, <3>1, SumSame
  <2>6. SumFunctionOnSet(dir, S \ {file}) \in Int /\ dir[file] \in Int
    BY <2>1, <2>2, SumOne
  <2>7. LinesIn(new, d) = LinesIn(dir, d) + 1
    BY <1>1, <1>3, <2>3, <2>4, <2>5, <2>6 DEF LinesIn
  <2>8. QED
    BY <1>1, <1>2, <1>5, <2>7 DEF new
<1>6. QED
  BY <1>4, <1>5

-----------------------------------------------------------------------------
(***************************************************************************)
(* Every line can be found.                                                *)
(***************************************************************************)

\* Types, with what is known of the process and its files.
Types ==
  /\ today \in Dates /\ IsLog(log)
  /\ pass = [at |-> pass.at, date |-> pass.date, count |-> pass.count]
  /\ pass.at \in {"idle", "sort", "tar"}
  /\ DOMAIN tar \subseteq Dates /\ DOMAIN archives \subseteq Dates
  /\ \A d \in DOMAIN archives : archives[d] \in Int
  /\ owed \in [Dates -> Int] /\ partly \subseteq Dates /\ repacked \subseteq partly
  /\ faults \in Nat

\* What the archive of a date holds.
Archived(d) == IF d \in DOMAIN archives THEN archives[d] ELSE 0

\* What is owed is there.
Found ==
  /\ \A d \in (0 .. today) \ repacked : Age(d) <= RemoveDays => LinesIn(log.dir, d) + Archived(d) = owed[d]
  /\ \A d \in Dates : d > today => owed[d] = 0

\* A date that is to be packed is over and all its files are to be packed; a date of
\* which an archive holds anything has no file, unless tar has packed a part of it.  So
\* no other archive is written twice.
Packed ==
  /\ \A d \in DOMAIN archives : d < today
  /\ \A d \in DOMAIN tar :
       /\ Age(d) > ArchiveDays
       /\ \A n \in DOMAIN log.dir : n.date = d => n \in tar[d]
       /\ \A n \in tar[d] : n.date = d
       /\ d \in partly \/ Archived(d) = 0
  /\ \A n \in DOMAIN log.dir : n.date \in partly \/ Archived(n.date) = 0

KeptInv == Types /\ Found /\ Packed

\* The days after which files are packed and removed.
LEMMA DaysAre == ArchiveDays \in Nat \ {0} /\ RemoveDays \in Nat /\ ArchiveDays <= RemoveDays
  BY LogFilesAssumption DEF ArchiveDays, RemoveDays, Within

\* The number log_init finds: the greatest name there is.
LEMMA GreatestName ==
  ASSUME NEW S, IsFiniteSet(S), S # {}, S \subseteq Names, today \in Nat
  PROVE  \E n \in S : \A k \in S : ~Later(k, n)
<1> DEFINE Good(T) == \E n \in T : \A k \in T : ~Later(k, n)
           Bad == {T \in SUBSET S : T # {} /\ ~Good(T)}
<1>1. SUFFICES ASSUME Bad # {} PROVE FALSE
  OBVIOUS
<1>2. PICK T \in Bad : \A Q \in SUBSET T : Q \in Bad => Q = T
  <2>1. Bad \in SUBSET SUBSET S
    OBVIOUS
  <2> HIDE DEF Bad
  <2>2. QED
    BY <1>1, <2>1, LeastSubset
<1>3. T \in SUBSET S /\ T # {} /\ ~Good(T)
  OBVIOUS
<1>4. PICK x \in T : TRUE
  BY <1>3
<1>5. \A m, n \in T : m.date \in Int /\ m.seq \in Int
  BY <1>3 DEF Names
<1>6. CASE T \ {x} = {}
  <2>1. T = {x}
    BY <1>4, <1>6
  <2>2. ~Later(x, x)
    BY <1>4, <1>5 DEF Later
  <2>3. QED
    BY <1>3, <2>1, <2>2
<1>7. CASE T \ {x} # {}
  <2>1. PICK n \in T \ {x} : \A k \in T \ {x} : ~Later(k, n)
    <3>1. T \ {x} \in SUBSET T /\ T \ {x} # T /\ T \ {x} \in SUBSET S
      BY <1>3, <1>4
    <3>2. Good(T \ {x})
      BY <1>2, <1>7, <3>1
    <3>3. QED
      BY <3>2
  <2>2. CASE Later(x, n)
    <3>1. \A k \in T : ~Later(k, x)
      BY <1>4, <1>5, <2>1, <2>2 DEF Later
    <3>2. QED
      BY <1>3, <1>4, <3>1
  <2>3. CASE ~Later(x, n)
    BY <1>3, <2>1, <2>3
  <2>4. QED
    BY <2>2, <2>3
<1>8. QED
  BY <1>6, <1>7

\* A number of which today has no file, those before having one.
LEMMA FirstFree ==
  ASSUME NEW dir, IsDir(dir), NEW l \in Levels, today \in Nat
  PROVE  \E k \in 0 .. Cardinality(FilesOf(dir, l)) :
           /\ Name(l, today, k) \notin DOMAIN dir
           /\ \A j \in 0 .. k - 1 : Name(l, today, j) \in DOMAIN dir
<1> DEFINE S == FilesOf(dir, l)
           c == Cardinality(S)
           Free == {k \in Nat : Name(l, today, k) \notin DOMAIN dir}
<1>1. IsFiniteSet(S) /\ c \in Nat
  BY FS_Subset, FS_CardinalityType DEF FilesOf, IsDir
<1> HIDE DEF c
<1>2. \E k \in 0 .. c : k \in Free
  <2>1. SUFFICES ASSUME \A k \in 0 .. c : Name(l, today, k) \in DOMAIN dir PROVE FALSE
    BY <1>1
  <2> DEFINE f == [k \in 0 .. c |-> Name(l, today, k)]
  <2>2. \A k \in 0 .. c : Name(l, today, k).seq = k /\ Name(l, today, k).level = l
    BY NameIs
  <2>3. f \in Injection(0 .. c, S)
    BY <2>1, <2>2 DEF Injection, IsInjective, FilesOf
  <2>4. Cardinality(0 .. c) = c + 1
    BY <1>1, FS_Interval
  <2>5. Cardinality(0 .. c) <= Cardinality(S)
    <3> HIDE DEF f, S
    <3>1. QED
      BY <1>1, <2>3, FS_Injection
  <2>6. QED
    BY <1>1, <2>4, <2>5 DEF c
<1>3. PICK k \in Free : \A j \in Free : k <= j
  <2>1. Free \in SUBSET Nat /\ Free # {}
    BY <1>2
  <2> HIDE DEF Free
  <2>2. QED
    BY <2>1, LeastOne
<1>4. k \in 0 .. c
  BY <1>1, <1>2, <1>3
<1>5. \A j \in 0 .. k - 1 : Name(l, today, j) \in DOMAIN dir
  <2>1. ASSUME NEW j \in 0 .. k - 1, j \in Free PROVE FALSE
    BY <1>3, <2>1
  <2>2. QED
    BY <1>3, <2>1
<1>6. QED
  BY <1>3, <1>4, <1>5 DEF c

\* log_init leaves a log.
LEMMA LogInitIs ==
  ASSUME NEW dir, IsDir(dir), today \in Nat
  PROVE  IsLog(LogInit(dir)) /\ LogInit(dir).dir = dir
<1>1. ASSUME NEW l \in Levels PROVE RequestLogSeq(dir, l) \in Nat
  <2>1. CASE MaxFiles # 0
    <3> DEFINE old == FilesOf(dir, l)
               greatest == CHOOSE n \in old : \A k \in old : ~Later(k, n)
    <3>1. CASE old = {}
      BY <2>1, <3>1 DEF RequestLogSeq, LogSeqRecycle
    <3>2. CASE old # {}
      <4>1. IsFiniteSet(old) /\ old \subseteq Names
        BY FS_Subset DEF FilesOf, IsDir
      <4>2. \E n \in old : \A k \in old : ~Later(k, n)
        <5> HIDE DEF old
        <5>1. QED
          BY <3>2, <4>1, GreatestName
      <4>3. greatest \in old
        BY <4>2
      <4> HIDE DEF greatest
      <4>4. greatest.seq \in Nat
        BY <4>1, <4>3 DEF Names
      <4> DEFINE q == IF greatest.date = today THEN greatest.seq ELSE greatest.seq + 1
      <4>5. q \in Nat
        BY <4>4
      <4>6. RequestLogSeq(dir, l) = q % MaxFiles
        BY <2>1, <3>2 DEF RequestLogSeq, LogSeqRecycle, greatest
      <4> HIDE DEF q
      <4>7. QED
        BY <2>1, <4>5, <4>6, LogFilesAssumption
    <3>3. QED
      BY <3>1, <3>2
  <2>2. CASE MaxFiles = 0
    <3> DEFINE free == CHOOSE k \in 0 .. Cardinality(FilesOf(dir, l)) :
                         /\ Name(l, today, k) \notin DOMAIN dir
                         /\ \A j \in 0 .. k - 1 : Name(l, today, j) \in DOMAIN dir
    <3>1. free \in 0 .. Cardinality(FilesOf(dir, l))
      BY FirstFree
    <3>2. RequestLogSeq(dir, l) = IF free = 0 THEN 0 ELSE free - 1
      BY <2>2 DEF RequestLogSeq, LogSeqNonrecycle
    <3> HIDE DEF free
    <3>3. QED
      BY <3>1, <3>2
  <2>3. QED
    BY <2>1, <2>2
<1> DEFINE Fresh(l) == [seq |-> RequestLogSeq(dir, l), file |-> NoFile, day |-> -1, count |-> 0]
<1>2. ASSUME NEW l \in Levels PROVE Fresh(l) \in Fds /\ Fresh(l).file = NoFile
  BY <1>1 DEF Fds
<1>3. LogInit(dir) = [fds |-> [l \in Levels |-> Fresh(l)], max |-> MaxFiles, dir |-> dir]
  BY DEF LogInit
<1> HIDE DEF Fresh
<1>4. QED
  BY <1>2, <1>3 DEF IsLog, OpenOK

LEMMA EmptyDir == IsDir(<<>>) /\ DOMAIN <<>> = {}
  BY FS_EmptySet DEF IsDir

LEMMA KeptInit == Init => KeptInv
<1> SUFFICES ASSUME Init PROVE KeptInv
  OBVIOUS
<1>1. today = 0 /\ today \in Dates /\ today \in Nat /\ 0 .. today = {0}
  BY LogFilesAssumption DEF Init, Dates
<1>2. IsLog(log) /\ log.dir = <<>>
  BY <1>1, EmptyDir, LogInitIs DEF Init
<1>3. DOMAIN tar = {} /\ DOMAIN archives = {}
  BY EmptyDir DEF Init
<1>4. owed \in [Dates -> Int] /\ \A d \in Dates : owed[d] = 0
  BY DEF Init
<1>5. Types
  BY <1>1, <1>2, <1>3, <1>4 DEF Init, Types
<1>6. LinesIn(log.dir, 0) = 0 /\ Archived(0) = 0
  BY <1>2, <1>3, EmptyDir, SumNothing DEF LinesIn, Dated, Archived
<1>7. QED
  BY <1>1, <1>2, <1>3, <1>4, <1>5, <1>6, EmptyDir DEF KeptInv, Found, Packed

\* A line: what is gone is recycled, and one line is more in a file of today.
LEMMA KeptWrite ==
  ASSUME KeptInv, NEW l \in Levels, WriteLog(l)
  PROVE  KeptInv'
<1>1. /\ Types /\ Found /\ Packed /\ IsLog(log) /\ today \in Nat /\ today \in Dates
      /\ today' = today /\ pass' = pass /\ tar' = tar /\ archives' = archives
      /\ partly' = partly /\ repacked' = repacked
  <2>1. /\ today' = today /\ pass' = pass /\ tar' = tar /\ archives' = archives
        /\ partly' = partly /\ repacked' = repacked
    BY DEF WriteLog, packings
  <2>2. Types /\ Found /\ Packed
    BY DEF KeptInv
  <2>3. IsLog(log) /\ today \in Nat /\ today \in Dates
    BY <2>2, LogFilesAssumption DEF Types, Dates
  <2>4. QED
    BY <2>1, <2>2, <2>3
<1>2. PICK fails \in Failures \X Failures : \E s \in ShiftFd(log, l, fails) :
        LET file == s.fds[l].file
            recycled == DOMAIN log.dir \ DOMAIN s.dir
        IN /\ log' = IF file \in DOMAIN s.dir THEN [s EXCEPT !.dir[file] = @ + 1] ELSE s
           /\ owed' = [d \in Dates |->
                owed[d] + (IF d = today /\ file # NoFile THEN 1 ELSE 0)
                  - SumFunctionOnSet(log.dir, {n \in recycled : n.date = d})]
  BY DEF WriteLog
<1>3. PICK s \in ShiftFd(log, l, fails) :
        LET file == s.fds[l].file
            recycled == DOMAIN log.dir \ DOMAIN s.dir
        IN /\ log' = IF file \in DOMAIN s.dir THEN [s EXCEPT !.dir[file] = @ + 1] ELSE s
           /\ owed' = [d \in Dates |->
                owed[d] + (IF d = today /\ file # NoFile THEN 1 ELSE 0)
                  - SumFunctionOnSet(log.dir, {n \in recycled : n.date = d})]
  BY <1>2
<1>4. faults' \in Nat
  BY <1>1 DEF WriteLog, Fault, Types
<1> DEFINE file == s.fds[l].file
           Gone(d) == {n \in DOMAIN log.dir \ DOMAIN s.dir : n.date = d}
<1>5. Shifts(log, s, l)
  BY <1>1, ShiftShifts
<1>6. IsLog(s) /\ Turns(log.dir, s.dir, l) /\ IsDir(s.dir) /\ IsDir(log.dir)
  BY <1>1, <1>5 DEF Shifts, IsLog
<1>7. file # NoFile => file \in DOMAIN s.dir /\ file.date = today
  BY <1>5, <1>6 DEF Shifts, IsLog, OpenOK
<1>8. file \in DOMAIN s.dir => file # NoFile
  <2>1. ASSUME file \in DOMAIN s.dir PROVE file \in [level : Levels, date : Int, seq : Int]
    BY <1>6, <2>1 DEF IsDir, Names
  <2>2. QED
    BY <2>1, LogFilesAssumption
<1>9. \A d : /\ SumFunctionOnSet(log.dir, Gone(d)) \in Int
             /\ LinesIn(s.dir, d) = LinesIn(log.dir, d) - SumFunctionOnSet(log.dir, Gone(d))
             /\ LinesIn(s.dir, d) \in Int /\ LinesIn(log.dir, d) \in Int
  BY <1>6, TurnsLines, DatedIs
<1>10. /\ IsLog(log') /\ DOMAIN log'.dir = DOMAIN s.dir
      /\ \A d : LinesIn(log'.dir, d) = LinesIn(s.dir, d)
                                         + (IF d = today /\ file # NoFile THEN 1 ELSE 0)
  <2>1. CASE file \notin DOMAIN s.dir
    <3>1. log' = s
      BY <1>3, <2>1
    <3>2. file = NoFile
      BY <1>7, <2>1
    <3>3. \A d : LinesIn(s.dir, d) \in Int
      BY <1>9
    <3> HIDE DEF file, Gone
    <3>4. \A d : LinesIn(s.dir, d)
                   = LinesIn(s.dir, d) + (IF d = today /\ file # NoFile THEN 1 ELSE 0)
      BY <3>2, <3>3
    <3>5. QED
      BY <1>6, <3>1, <3>4
  <2>2. CASE file \in DOMAIN s.dir
    <3> DEFINE new == [s.dir EXCEPT ![file] = @ + 1]
    <3>1. log' = [fds |-> s.fds, max |-> s.max, dir |-> new]
      <4>1. log' = [s EXCEPT !.dir[file] = @ + 1]
        BY <1>3, <2>2
      <4>2. s = [fds |-> s.fds, max |-> s.max, dir |-> s.dir]
        BY <1>6 DEF IsLog
      <4>3. QED
        BY <4>1, <4>2
    <3>2. /\ IsDir(new) /\ DOMAIN new = DOMAIN s.dir
          /\ \A d : LinesIn(new, d) = LinesIn(s.dir, d) + (IF d = file.date THEN 1 ELSE 0)
      BY <1>6, <2>2, LineMore
    <3> HIDE DEF new, file
    <3>3. log'.fds = s.fds /\ log'.max = s.max /\ log'.dir = new
          /\ log' = [fds |-> log'.fds, max |-> log'.max, dir |-> log'.dir]
      BY <3>1
    <3>4. IsLog(log')
      BY <1>6, <3>2, <3>3 DEF IsLog, OpenOK
    <3>5. QED
      BY <1>7, <1>8, <2>2, <3>2, <3>3, <3>4
  <2>3. QED
    BY <2>1, <2>2
<1>11. IsLog(log)'
  BY <1>1, <1>10 DEF IsLog, IsDir, OpenOK, Fds, Names
<1>12. owed' \in [Dates -> Int]
       /\ \A d \in Dates : owed'[d] = owed[d] + (IF d = today /\ file # NoFile THEN 1 ELSE 0)
                                        - SumFunctionOnSet(log.dir, Gone(d))
  <2>1. owed' = [d \in Dates |->
                  owed[d] + (IF d = today /\ file # NoFile THEN 1 ELSE 0)
                    - SumFunctionOnSet(log.dir, Gone(d))]
    BY <1>3
  <2>2. \A d \in Dates : owed[d] \in Int /\ SumFunctionOnSet(log.dir, Gone(d)) \in Int
    BY <1>1, <1>9 DEF Types
  <2> HIDE DEF file, Gone
  <2>3. QED
    BY <2>1, <2>2
<1> HIDE DEF file, Gone
<1>13. Types'
  BY <1>1, <1>4, <1>11, <1>12 DEF Types
<1>14. \A n \in DOMAIN log'.dir : n \in DOMAIN log.dir \/ n.date = today
  BY <1>6, <1>10 DEF Turns
<1>15. Archived(today) = 0 /\ \A d : Archived(d)' = Archived(d)
  BY <1>1 DEF Packed, Archived
<1>16. ArchiveDays \in Nat \ {0} /\ Age(today) = 0
  BY <1>1, DaysAre DEF Age
<1>17. Packed'
  BY <1>1, <1>14, <1>15, <1>16 DEF Packed, Age
<1>18. Found'
  <2>1. ASSUME NEW d \in (0 .. today) \ repacked, Age(d) <= RemoveDays
        PROVE  LinesIn(log'.dir, d) + Archived(d) = owed'[d]
    <3>1. d \in Dates /\ LinesIn(log.dir, d) + Archived(d) = owed[d] /\ owed[d] \in Int
      <4>1. d \in Dates
        BY <1>1, LogFilesAssumption DEF Dates
      <4>2. QED
        BY <1>1, <2>1, <4>1 DEF Found, Types
    <3>2. Archived(d) \in Int
      BY <1>1 DEF Archived, Types
    <3>3. LinesIn(s.dir, d) = LinesIn(log.dir, d) - SumFunctionOnSet(log.dir, Gone(d))
          /\ LinesIn(log.dir, d) \in Int /\ SumFunctionOnSet(log.dir, Gone(d)) \in Int
      BY <1>9 DEF Gone
    <3>4. QED
      BY <1>10, <1>12, <3>1, <3>2, <3>3
  <2>2. ASSUME NEW d \in Dates, d > today PROVE owed'[d] = 0
    <3>1. Gone(d) = {}
      <4>1. \A n \in DOMAIN log.dir : n.date \in 0 .. today
        BY <1>6 DEF IsDir, Names
      <4>2. d \notin 0 .. today
        BY <1>1, <2>2 DEF Dates
      <4>3. QED
        BY <4>1, <4>2 DEF Gone
    <3>2. SumFunctionOnSet(log.dir, Gone(d)) = 0
      BY <3>1, SumNothing
    <3>3. owed[d] = 0 /\ d # today
      BY <1>1, <2>2 DEF Found, Dates
    <3>4. QED
      BY <1>12, <3>2, <3>3
  <2>3. QED
    BY <1>1, <1>15, <2>1, <2>2 DEF Found, Age, LinesIn, Dated
<1>19. QED
  BY <1>13, <1>17, <1>18 DEF KeptInv

\* Files of other days are removed.
Without(s, names) == [s EXCEPT !.dir = Remove(@, names)]

LEMMA RemoveLog ==
  ASSUME NEW s, IsLog(s), NEW names, \A n \in names \cap DOMAIN s.dir : n.date # today
  PROVE  /\ IsLog(Without(s, names))
         /\ DOMAIN Without(s, names).dir = DOMAIN s.dir \ names
         /\ \A n \in DOMAIN s.dir \ names : Without(s, names).dir[n] = s.dir[n]
<1> DEFINE dir == Remove(s.dir, names)
           t == Without(s, names)
<1>1. s = [fds |-> s.fds, max |-> s.max, dir |-> s.dir] /\ IsDir(s.dir)
  BY DEF IsLog
<1>2. t.fds = s.fds /\ t.max = s.max /\ t.dir = dir
      /\ t = [fds |-> t.fds, max |-> t.max, dir |-> t.dir]
  BY <1>1 DEF Without
<1>3. IsDir(dir) /\ DOMAIN dir = DOMAIN s.dir \ names
      /\ \A n \in DOMAIN s.dir \ names : dir[n] = s.dir[n]
  BY <1>1, RemoveIs
<1> HIDE DEF t, dir
<1>4. \A l \in Levels : OpenOK(t, l)
  BY <1>2, <1>3 DEF IsLog, OpenOK
<1>5. IsLog(t)
  BY <1>2, <1>3, <1>4 DEF IsLog
<1>6. QED
  BY <1>2, <1>3, <1>5 DEF t, dir

\* The same of the log, primed.
LEMMA LogPrimed ==
  ASSUME IsLog(log'), today' = today
  PROVE  IsLog(log)'
  BY DEF IsLog, IsDir, OpenOK, Fds, Names

LEMMA KeptRestart ==
  ASSUME KeptInv, Restart
  PROVE  KeptInv'
<1>1. Types /\ Found /\ Packed /\ today \in Nat /\ IsDir(log.dir)
  BY LogFilesAssumption DEF KeptInv, Types, Dates, IsLog
<1>2. /\ today' = today /\ pass' = pass /\ tar' = tar /\ archives' = archives
      /\ owed' = owed /\ faults' = faults /\ log' = LogInit(log.dir)
      /\ partly' = partly /\ repacked' = repacked
  BY DEF Restart, packings
<1>3. IsLog(log') /\ log'.dir = log.dir
  BY <1>1, <1>2, LogInitIs
<1>4. Types'
  BY <1>1, <1>2, <1>3, LogPrimed DEF Types
<1>5. Found' /\ Packed'
  BY <1>1, <1>2, <1>3 DEF Found, Packed, Archived, Age, LinesIn, Dated
<1>6. QED
  BY <1>4, <1>5 DEF KeptInv

LEMMA KeptTick ==
  ASSUME KeptInv, Tick
  PROVE  KeptInv'
<1>1. Types /\ Found /\ Packed /\ today \in Dates /\ IsLog(log)
  BY DEF KeptInv, Types
<1>2. /\ log' = log /\ pass' = pass /\ tar' = tar /\ archives' = archives
      /\ owed' = owed /\ faults' = faults
      /\ partly' = partly /\ repacked' = repacked
      /\ today' = today \/ (today' = today + 1 /\ today < MaxDay)
  BY DEF Tick, packings
<1>3. CASE today' = today
  <2>1. Types'
    BY <1>1, <1>2, <1>3, LogPrimed DEF Types
  <2>2. Found' /\ Packed'
    BY <1>1, <1>2, <1>3 DEF Found, Packed, Archived, Age, LinesIn, Dated
  <2>3. QED
    BY <2>1, <2>2 DEF KeptInv
<1>4. CASE today' = today + 1 /\ today < MaxDay
  <2>1. today \in Nat /\ today' \in Dates /\ 0 .. today \subseteq 0 .. today' /\ -1 .. today \subseteq -1 .. today'
    BY <1>1, <1>4, LogFilesAssumption DEF Dates
  <2>2. Names \subseteq Names' /\ \A f \in Fds : f \in Fds' /\ f.day # today'
    BY <1>4, <2>1 DEF Names, Fds
  <2>3. IsDir(log.dir)'
    BY <1>1, <1>2, <2>2 DEF IsLog, IsDir
  <2>4. \A l \in Levels : OpenOK(log, l)'
    BY <1>1, <1>2, <2>2 DEF IsLog, OpenOK
  <2>5. log.fds \in [Levels -> Fds']
    BY <1>1, <2>2 DEF IsLog
  <2>6. IsLog(log)'
    BY <1>1, <1>2, <2>3, <2>4, <2>5 DEF IsLog
  <2>7. Types'
    BY <1>1, <1>2, <2>1, <2>6 DEF Types
  <2>8. \A n \in DOMAIN log.dir : n.date # today'
    BY <1>1, <1>4, <2>1 DEF IsLog, IsDir, Names
  <2>9. LinesIn(log.dir, today') = 0
    <3>1. Dated(log.dir, today') = {}
      BY <2>8 DEF Dated
    <3>2. QED
      BY <3>1, SumNothing DEF LinesIn
  <2>10. \A d : Archived(d)' = Archived(d)
    BY <1>2 DEF Archived
  <2>11. Packed'
    BY <1>1, <1>2, <1>4, <2>1, <2>10, DaysAre DEF Packed, Age, Types, Dates
  <2>12. Archived(today') = 0 /\ owed[today'] = 0
    BY <1>1, <1>4, <2>1 DEF Packed, Found, Archived
  <2>13. ASSUME NEW d \in (0 .. today') \ repacked, today' - d <= RemoveDays
         PROVE  LinesIn(log.dir, d) + Archived(d) = owed[d]
    <3>1. CASE d = today'
      BY <2>9, <2>12, <3>1
    <3>2. CASE d # today'
      <4>1. d \in 0 .. today /\ today - d <= RemoveDays
        BY <1>4, <2>1, <2>13, <3>2, DaysAre
      <4>2. QED
        BY <1>1, <4>1 DEF Found, Age
    <3>3. QED
      BY <3>1, <3>2
  <2>14. Found'
    BY <1>1, <1>2, <1>4, <2>1, <2>10, <2>13 DEF Found, Age, LinesIn, Dated, Dates
  <2>15. QED
    BY <2>7, <2>11, <2>14 DEF KeptInv
<1>5. QED
  BY <1>2, <1>3, <1>4

LEMMA KeptDoRemove ==
  ASSUME KeptInv, DoRemove
  PROVE  KeptInv'
<1>1. Types /\ Found /\ Packed /\ today \in Dates /\ today \in Nat /\ IsLog(log)
      /\ IsDir(log.dir)
  BY LogFilesAssumption DEF KeptInv, Types, Dates, IsLog
<1>2. /\ today' = today /\ tar' = tar /\ owed' = owed
      /\ pass' = [pass EXCEPT !.at = "sort"]
      /\ partly' = partly /\ repacked' = repacked
  BY DEF DoRemove, packings
<1>3. pass' = [at |-> pass'.at, date |-> pass'.date, count |-> pass'.count] /\ pass'.at = "sort"
  BY <1>1, <1>2 DEF Types
<1> DEFINE files == {n \in DOMAIN log.dir : Age(n.date) > RemoveDays}
           dates == {d \in DOMAIN archives : Age(d) > RemoveDays}
<1>4. CASE log' = [log EXCEPT !.dir = Remove(@, files)] /\ archives' = Remove(archives, dates)
           /\ faults' = faults
  <2>1. \A n \in files \cap DOMAIN log.dir : n.date # today
    BY <1>1, DaysAre DEF Age
  <2> DEFINE t == Without(log, files)
  <2>2. /\ IsLog(t) /\ DOMAIN t.dir = DOMAIN log.dir \ files
        /\ \A n \in DOMAIN log.dir \ files : t.dir[n] = log.dir[n]
    <3> HIDE DEF files
    <3>1. QED
      BY <1>1, <2>1, RemoveLog
  <2>3. t = log'
    BY <1>4 DEF Without
  <2> HIDE DEF t
  <2>4. archives' = [d \in DOMAIN archives \ dates |-> archives[d]]
    BY <1>4 DEF Remove, Restrict
  <2>5. Types'
    BY <1>1, <1>2, <1>3, <1>4, <2>2, <2>3, <2>4, LogPrimed DEF Types
  <2>6. \A d : Archived(d)' = IF d \in dates THEN 0 ELSE Archived(d)
    BY <2>4 DEF Archived
  <2>7. Packed'
    BY <1>1, <1>2, <2>2, <2>3, <2>4, <2>6 DEF Packed, Age
  <2>8. ASSUME NEW d \in (0 .. today) \ repacked, Age(d) <= RemoveDays
        PROVE  LinesIn(log'.dir, d) + Archived(d)' = owed'[d]
    <3>1. Dated(log.dir, d) = Dated(log'.dir, d) /\ d \notin dates
      BY <2>2, <2>3, <2>8, DaysAre, <1>1 DEF Dated, Age
    <3>2. \A n \in Dated(log.dir, d) : log'.dir[n] = log.dir[n]
      BY <2>2, <2>3, <3>1 DEF Dated
    <3>3. LinesIn(log'.dir, d) = LinesIn(log.dir, d)
      BY <1>1, <3>1, <3>2, LinesSame
    <3>4. QED
      BY <1>1, <1>2, <2>6, <2>8, <3>1, <3>3 DEF Found
  <2>9. Found'
    BY <1>1, <1>2, <2>8 DEF Found, Age, LinesIn, Dated
  <2>10. QED
    BY <2>5, <2>7, <2>9 DEF KeptInv
<1>5. CASE log' = log /\ archives' = archives /\ faults' = faults + 1
  <2>1. Types'
    BY <1>1, <1>2, <1>3, <1>5, LogPrimed DEF Types
  <2>2. Found' /\ Packed'
    BY <1>1, <1>2, <1>5 DEF Found, Packed, Archived, Age, LinesIn, Dated
  <2>3. QED
    BY <2>1, <2>2 DEF KeptInv
<1>6. QED
  BY <1>4, <1>5 DEF DoRemove, Fault

LEMMA KeptSort ==
  ASSUME KeptInv, SortFilesToMap
  PROVE  KeptInv'
<1>1. Types /\ Found /\ Packed /\ today \in Dates /\ today \in Nat /\ IsLog(log)
      /\ IsDir(log.dir)
  BY LogFilesAssumption DEF KeptInv, Types, Dates, IsLog
<1>2. /\ today' = today /\ owed' = owed /\ log' = log /\ archives' = archives
      /\ pass' = [at |-> "tar", date |-> 0, count |-> 0]
      /\ partly' = partly /\ repacked' = repacked
  BY DEF SortFilesToMap, packings
<1> DEFINE old == {n \in DOMAIN log.dir :
                     Age(n.date) > ArchiveDays /\ Age(n.date) < RemoveDays + 1}
           left(d) == IF d \in DOMAIN tar THEN tar[d] ELSE {}
           dates == DOMAIN tar \cup {n.date : n \in old}
<1>3. CASE /\ tar' = [d \in dates |-> left(d) \cup {n \in old : n.date = d}]
           /\ faults' = faults
  <2>1. \A n \in old : /\ n.date \in Dates /\ Age(n.date) > ArchiveDays
                       /\ n.date \in partly \/ Archived(n.date) = 0
    <3>1. 0 .. today \subseteq Dates
      BY <1>1, LogFilesAssumption DEF Dates
    <3>2. QED
      BY <1>1, <3>1 DEF IsDir, Names, Packed
  <2>2. Types'
    <3>1. DOMAIN tar' \subseteq Dates
      BY <1>1, <1>3, <2>1 DEF Types
    <3>2. QED
      BY <1>1, <1>2, <1>3, <3>1, LogPrimed DEF Types
  <2>3. ASSUME NEW d \in DOMAIN tar'
        PROVE  /\ Age(d) > ArchiveDays /\ (d \in partly \/ Archived(d) = 0)
               /\ \A n \in DOMAIN log.dir : n.date = d => n \in tar'[d]
               /\ \A n \in tar'[d] : n.date = d
    <3>1. d \in dates /\ tar'[d] = left(d) \cup {n \in old : n.date = d}
      BY <1>3, <2>3
    <3>2. CASE d \in DOMAIN tar
      BY <1>1, <3>1, <3>2 DEF Packed
    <3>3. CASE d \notin DOMAIN tar
      <4>1. PICK m \in old : m.date = d
        BY <3>1, <3>3
      <4>2. /\ Age(d) > ArchiveDays /\ Age(d) < RemoveDays + 1
            /\ d \in partly \/ Archived(d) = 0
        BY <2>1, <4>1
      <4> HIDE DEF left, dates
      <4>3. \A n \in DOMAIN log.dir : n.date = d => n \in {k \in old : k.date = d}
        BY <4>2
      <4>4. QED
        BY <3>1, <3>3, <4>2, <4>3 DEF left
    <3>4. QED
      BY <3>2, <3>3
  <2>4. Packed'
    BY <1>1, <1>2, <2>3 DEF Packed, Archived, Age
  <2>5. Found'
    BY <1>1, <1>2 DEF Found, Archived, Age, LinesIn, Dated
  <2>6. QED
    BY <2>2, <2>4, <2>5 DEF KeptInv
<1>4. CASE tar' = tar /\ faults' = faults + 1
  <2>1. Types'
    BY <1>1, <1>2, <1>4, LogPrimed DEF Types
  <2>2. Found' /\ Packed'
    BY <1>1, <1>2, <1>4 DEF Found, Packed, Archived, Age, LinesIn, Dated
  <2>3. QED
    BY <2>1, <2>2 DEF KeptInv
<1>5. QED
  BY <1>3, <1>4 DEF SortFilesToMap, Listed, Fault

\* Some files of a date are packed and removed: its archive holds what they held.
LinesMove(s, d, packed) ==
  /\ IsLog(Without(s, packed)) /\ DOMAIN Without(s, packed).dir = DOMAIN s.dir \ packed
  /\ SumFunctionOnSet(s.dir, packed) \in Int
  /\ LinesIn(Without(s, packed).dir, d) + SumFunctionOnSet(s.dir, packed) = LinesIn(s.dir, d)
  /\ \A e : e # d => LinesIn(Without(s, packed).dir, e) = LinesIn(s.dir, e)

PartOf(packed, s, d) == packed \in SUBSET Dated(s.dir, d)

LEMMA PackedLines ==
  ASSUME NEW s, IsLog(s), NEW d, d # today, NEW packed, PartOf(packed, s, d)
  PROVE  LinesMove(s, d, packed)
<1>1. packed \in SUBSET Dated(s.dir, d)
  BY DEF PartOf
<1> DEFINE t == Without(s, packed)
           S == Dated(s.dir, d)
<1>2. /\ IsDir(s.dir) /\ IsFiniteSet(S) /\ \A n \in S : s.dir[n] \in Int
  BY DatedIs DEF IsLog, IsDir, Dated
<1>3. /\ IsLog(t) /\ DOMAIN t.dir = DOMAIN s.dir \ packed
      /\ \A n \in DOMAIN s.dir \ packed : t.dir[n] = s.dir[n]
  <2>1. \A n \in packed \cap DOMAIN s.dir : n.date # today
    BY <1>1 DEF Dated
  <2> HIDE DEF S
  <2>2. QED
    BY <2>1, RemoveLog
<1> HIDE DEF t
<1>4. SumFunctionOnSet(s.dir, S)
        = SumFunctionOnSet(s.dir, packed) + SumFunctionOnSet(s.dir, S \ packed)
  <2> HIDE DEF S
  <2>1. packed \in SUBSET S
    BY <1>1 DEF S
  <2>2. QED
    BY <1>2, <2>1, SumSplit
<1>5. SumFunctionOnSet(s.dir, packed) \in Int /\ SumFunctionOnSet(s.dir, S \ packed) \in Int
  <2>1. \A R \in SUBSET S : SumFunctionOnSet(s.dir, R) \in Int
    <3> SUFFICES ASSUME NEW R \in SUBSET S PROVE SumFunctionOnSet(s.dir, R) \in Int
      OBVIOUS
    <3>1. IsFiniteSet(R) /\ \A n \in R : s.dir[n] \in Int
      BY <1>2, FS_Subset
    <3>2. QED
      BY <3>1, SumOne
  <2>2. QED
    BY <1>1, <2>1
<1>6. Dated(t.dir, d) = S \ packed
  BY <1>3 DEF Dated
<1>7. SumFunctionOnSet(t.dir, S \ packed) = SumFunctionOnSet(s.dir, S \ packed)
  <2> DEFINE R == S \ packed
  <2>1. IsFiniteSet(R)
    BY <1>2, FS_Subset
  <2>2. \A n \in R : t.dir[n] = s.dir[n]
    BY <1>3 DEF Dated
  <2> HIDE DEF R, S
  <2>3. QED
    BY <2>1, <2>2, SumSame DEF R
<1>8. LinesIn(t.dir, d) + SumFunctionOnSet(s.dir, packed) = LinesIn(s.dir, d)
  BY <1>4, <1>5, <1>6, <1>7 DEF LinesIn
<1>9. ASSUME NEW e, e # d PROVE LinesIn(t.dir, e) = LinesIn(s.dir, e)
  <2>1. Dated(t.dir, e) = Dated(s.dir, e)
    BY <1>1, <1>3, <1>9 DEF Dated
  <2>2. \A n \in Dated(s.dir, e) : t.dir[n] = s.dir[n]
    BY <1>1, <1>3, <1>9 DEF Dated
  <2>3. IsDir(t.dir)
    BY <1>3 DEF IsLog
  <2>4. QED
    BY <1>2, <2>1, <2>2, <2>3, LinesSame
<1>10. QED
  BY <1>3, <1>5, <1>8, <1>9 DEF t, LinesMove

\* An archive is written of files that are still there, which are of the date: the lines
\* of the date are as many as before if the archive held nothing.
LEMMA KeptTar ==
  ASSUME KeptInv, NEW d \in Dates, TarDate(d)
  PROVE  KeptInv'
<1>1. Types /\ Found /\ Packed /\ today \in Dates /\ today \in Nat /\ IsLog(log)
      /\ IsDir(log.dir)
  <2>1. Types /\ Found /\ Packed
    BY DEF KeptInv
  <2>2. today \in Dates /\ today \in Nat /\ IsLog(log)
    BY <2>1, LogFilesAssumption DEF Types, Dates
  <2>3. QED
    BY <2>1, <2>2 DEF IsLog
<1>2. /\ today' = today /\ owed' = owed
      /\ pass' = [pass EXCEPT !.date = d + 1, !.count = @ + 1]
      /\ pass.at = "tar" /\ d \in DOMAIN tar
  BY DEF TarDate, Waiting
<1>3. pass' = [at |-> pass'.at, date |-> pass'.date, count |-> pass'.count] /\ pass'.at = "tar"
  BY <1>1, <1>2 DEF Types
<1>4. /\ d < today /\ (d \in partly \/ Archived(d) = 0) /\ \A n \in tar[d] : n.date = d
      /\ \A n \in DOMAIN log.dir : n.date = d => n \in tar[d]
  BY <1>1, <1>2, DaysAre DEF Packed, Age, Dates
<1> DEFINE there == tar[d] \cap DOMAIN log.dir
<1>5. there = Dated(log.dir, d)
  BY <1>4 DEF Dated
<1>6. CASE /\ log' = log /\ tar' = tar /\ archives' = archives /\ faults' = faults + 1
           /\ partly' = partly /\ repacked' = repacked
  <2>1. Types'
    BY <1>1, <1>2, <1>3, <1>6, LogPrimed DEF Types
  <2>2. Found' /\ Packed'
    BY <1>1, <1>2, <1>6 DEF Found, Packed, Archived, Age, LinesIn, Dated
  <2>3. QED
    BY <2>1, <2>2 DEF KeptInv
<1>7. ASSUME NEW packed \in SUBSET there,
             archives' = With(archives, d, SumFunctionOnSet(log.dir, packed)),
             log' = [log EXCEPT !.dir = Remove(@, packed)],
             tar' = Remove(tar, {d}), faults' \in {faults, faults + 1},
             partly' = (IF packed \in {{}, there} THEN partly ELSE partly \cup {d}),
             repacked' = repacked \cup ({d} \cap partly)
      PROVE  KeptInv'
  <2> DEFINE some == SumFunctionOnSet(log.dir, packed)
  <2>1. /\ IsLog(log') /\ DOMAIN log'.dir = DOMAIN log.dir \ packed /\ some \in Int
        /\ LinesIn(log'.dir, d) + some = LinesIn(log.dir, d)
        /\ \A e : e # d => LinesIn(log'.dir, e) = LinesIn(log.dir, e)
    <3>1. packed \in SUBSET Dated(log.dir, d) /\ d # today
      BY <1>1, <1>4, <1>5 DEF Dates
    <3>2. Without(log, packed) = log'
      BY <1>7 DEF Without
    <3> HIDE DEF there, some
    <3>3. /\ IsLog(Without(log, packed))
          /\ DOMAIN Without(log, packed).dir = DOMAIN log.dir \ packed
          /\ SumFunctionOnSet(log.dir, packed) \in Int
          /\ LinesIn(Without(log, packed).dir, d) + SumFunctionOnSet(log.dir, packed)
               = LinesIn(log.dir, d)
          /\ \A e : e # d => LinesIn(Without(log, packed).dir, e) = LinesIn(log.dir, e)
      <4>1. IsLog(log)
        BY <1>1
      <4>2. PartOf(packed, log, d) /\ d # today
        BY <3>1 DEF PartOf
      <4>3. LinesMove(log, d, packed)
        BY <4>1, <4>2, PackedLines
      <4>4. QED
        BY <4>3 DEF LinesMove
    <3>4. QED
      BY <3>2, <3>3 DEF some
  <2>2. packed = {} => some = 0
    BY SumNothing
  <2>3. archives' = With(archives, d, some)
    BY <1>7
  <2> HIDE DEF some
  <2>4. \A e : Archived(e)' = IF e = d THEN some ELSE Archived(e)
    BY <2>3 DEF Archived, With
  <2>5. DOMAIN archives' = DOMAIN archives \cup {d} /\ DOMAIN tar' = DOMAIN tar \ {d}
        /\ \A e \in DOMAIN tar' : tar'[e] = tar[e]
    BY <1>7, <2>3 DEF With, Remove, Restrict
  <2>6. \A e \in DOMAIN archives' : archives'[e] \in Int
    BY <1>1, <2>1, <2>3 DEF With, Types
  <2>7. /\ partly \subseteq partly' /\ partly' \subseteq Dates /\ repacked' \subseteq partly'
        /\ repacked \subseteq repacked'
    BY <1>1, <1>7 DEF Types
  <2>8. Types'
    BY <1>1, <1>2, <1>3, <1>7, <2>1, <2>5, <2>6, <2>7, LogPrimed DEF Types
  <2>9. \A n \in DOMAIN log'.dir : n.date = d => packed # there
    BY <1>5, <2>1 DEF Dated
  <2>10. \A n \in DOMAIN log'.dir : n.date \in partly' \/ Archived(n.date)' = 0
    <3>1. SUFFICES ASSUME NEW n \in DOMAIN log'.dir, n.date \notin partly'
                   PROVE  Archived(n.date)' = 0
      OBVIOUS
    <3>2. CASE n.date = d
      BY <1>7, <2>2, <2>4, <2>9, <3>1, <3>2
    <3>3. CASE n.date # d
      BY <1>1, <2>1, <2>4, <2>7, <3>1, <3>3 DEF Packed
    <3>4. QED
      BY <3>2, <3>3
  <2>11. Packed'
    BY <1>1, <1>2, <1>4, <2>1, <2>4, <2>5, <2>7, <2>10 DEF Packed, Age
  <2>12. ASSUME NEW e \in (0 .. today) \ repacked', Age(e) <= RemoveDays
        PROVE  LinesIn(log'.dir, e) + Archived(e)' = owed'[e]
    <3>1. LinesIn(log.dir, e) + Archived(e) = owed[e]
      BY <1>1, <2>7, <2>12 DEF Found
    <3>2. CASE e = d
      <4>1. d \notin partly
        BY <1>7, <2>12, <3>2
      <4>2. LinesIn(log.dir, d) \in Int
        BY <1>1, DatedIs DEF LinesIn
      <4>3. LinesIn(log.dir, d) = owed[d]
        BY <1>4, <3>1, <3>2, <4>1, <4>2
      <4>4. QED
        BY <1>2, <2>1, <2>4, <3>2, <4>3
    <3>3. CASE e # d
      BY <1>2, <2>1, <2>4, <3>1, <3>3
    <3>4. QED
      BY <3>2, <3>3
  <2>13. Found'
    BY <1>1, <1>2, <2>12 DEF Found, Age, LinesIn, Dated
  <2>14. QED
    BY <2>8, <2>11, <2>13 DEF KeptInv
<1>8. \/ /\ log' = log /\ tar' = tar /\ archives' = archives /\ faults' = faults + 1
         /\ partly' = partly /\ repacked' = repacked
      \/ \E packed \in SUBSET there :
           /\ archives' = With(archives, d, SumFunctionOnSet(log.dir, packed))
           /\ log' = [log EXCEPT !.dir = Remove(@, packed)]
           /\ tar' = Remove(tar, {d}) /\ faults' \in {faults, faults + 1}
           /\ partly' = (IF packed \in {{}, there} THEN partly ELSE partly \cup {d})
           /\ repacked' = repacked \cup ({d} \cap partly)
  BY DEF TarDate, Fault, packings
<1> HIDE DEF there
<1>9. QED
  BY <1>6, <1>7, <1>8

LEMMA KeptNext ==
  ASSUME KeptInv, [Next]_vars
  PROVE  KeptInv'
<1>1. CASE log' = log /\ today' = today /\ archives' = archives /\ owed' = owed
           /\ faults' = faults /\ (tar' = tar \/ tar' = <<>>)
           /\ (pass' = pass \/ pass' = [pass EXCEPT !.at = "idle"])
           /\ packings' = packings
  <2>1. DOMAIN tar' \subseteq DOMAIN tar /\ \A d \in DOMAIN tar' : tar'[d] = tar[d]
    BY <1>1, EmptyDir
  <2>2. pass' = [at |-> pass'.at, date |-> pass'.date, count |-> pass'.count]
        /\ pass'.at \in {"idle", "sort", "tar"}
    BY <1>1 DEF KeptInv, Types
  <2>3. Types'
    BY <1>1, <2>1, <2>2, LogPrimed DEF KeptInv, Types, packings
  <2>4. Found' /\ Packed'
    BY <1>1, <2>1 DEF KeptInv, Found, Packed, Archived, Age, LinesIn, Dated, packings
  <2>5. QED
    BY <2>3, <2>4 DEF KeptInv
<1>2. CASE TarEnds
  BY <1>1, <1>2 DEF TarEnds
<1>3. CASE ControlRestart
  BY <1>1, <1>3 DEF ControlRestart
<1>4. CASE UNCHANGED vars
  BY <1>1, <1>4 DEF vars
<1>5. QED
  BY <1>2, <1>3, <1>4, KeptWrite, KeptRestart, KeptTick, KeptDoRemove, KeptSort, KeptTar
  DEF Next

LEMMA KeptAlways == Spec => []KeptInv
<1>1. Init => KeptInv
  BY KeptInit
<1>2. KeptInv /\ [Next]_vars => KeptInv'
  BY KeptNext
<1>3. QED
  BY <1>1, <1>2, PTL DEF Spec

\* Whoever is restarted, and when .tmp cannot be written or tar packs nothing, each line
\* that was written and not recycled is in a file of its date or in the archive of it for
\* log_remove_days; if tar packs a part of a date, until that date is packed again.
THEOREM LinesAreKept == Spec => []LinesKept
<1>1. KeptInv => LinesKept
  <2> SUFFICES ASSUME KeptInv PROVE LinesKept
    OBVIOUS
  <2>1. TypeOK
    <3>1. IsLog(log) /\ IsDir(log.dir) /\ log.fds \in [Levels -> Fds] /\ log.max \in {0, MaxFiles}
      BY DEF KeptInv, Types, IsLog
    <3>2. \A n \in DOMAIN log.dir : n.level \in Levels /\ n.date \in 0 .. today /\ n.seq \in Nat
      BY <3>1 DEF IsDir, Names
    <3>3. \A l \in Levels : log.fds[l].file = NoFile \/ log.fds[l].file.level = l
      BY <3>1 DEF IsLog, OpenOK
    <3>4. QED
      BY <3>1, <3>2, <3>3 DEF KeptInv, Types, TypeOK
  <2>2. \A d : LinesOf(d) = LinesIn(log.dir, d) + Archived(d)
    BY DEF LinesOf, LinesIn, Dated, Archived
  <2>3. QED
    BY <2>1, <2>2 DEF KeptInv, Found, LinesKept
<1>2. QED
  BY <1>1, KeptAlways, PTL

-----------------------------------------------------------------------------
(***************************************************************************)
(* Sequence numbers: no two files of a level share one.                    *)
(***************************************************************************)
Numbered(s) ==
  /\ s.max = MaxFiles
  /\ \A l \in Levels : s.fds[l].seq < MaxFiles
  /\ \A n \in DOMAIN s.dir : n.seq < MaxFiles
  /\ \A m, n \in DOMAIN s.dir : m.level = n.level /\ m.seq = n.seq => m = n

LEMMA NamesSame ==
  ASSUME NEW m \in Names, NEW n \in Names, m.level = n.level, m.date = n.date, m.seq = n.seq
  PROVE  m = n
  BY DEF Names

\* The file that is opened takes the number of the one that goes.
LEMMA OpenNumbered ==
  ASSUME NEW s, IsLog(s), MaxFiles # 0, Numbered(s), NEW l \in Levels, today \in Nat,
         NEW fails \in {"none", "open"}, NEW t \in OpenFd(s, l, fails), t.max # 0
  PROVE  Numbered(t)
<1>1. /\ s = [fds |-> s.fds, max |-> s.max, dir |-> s.dir]
      /\ s.fds \in [Levels -> Fds] /\ s.fds[l] \in Fds /\ s.fds[l].seq \in Nat /\ IsDir(s.dir)
  BY DEF IsLog, Fds
<1>2. CASE t = [s EXCEPT !.fds[l].file = NoFile]
  <2>1. t.max = s.max /\ t.dir = s.dir /\ \A k \in Levels : t.fds[k].seq = s.fds[k].seq
    BY <1>1, <1>2 DEF Fds
  <2>2. QED
    BY <2>1 DEF Numbered
<1>3. ASSUME NEW gone, fails # "open", Opened(s, t, l, gone, fails) PROVE Numbered(t)
  <2> DEFINE name == Name(l, today, s.fds[l].seq)
             new == Added(s.dir, name)
             old == Old(new, l, s.fds[l].seq)
  <2>1. /\ t.fds = [s.fds EXCEPT ![l] = [seq |-> t.fds[l].seq, file |-> name, day |-> today,
                                         count |-> t.fds[l].count]]
        /\ t.fds[l].seq = s.fds[l].seq /\ t.max = MaxFiles
        /\ gone \subseteq old /\ t.dir = Remove(new, gone)
        /\ (gone = {} /\ old = {}) \/ (\E n \in old : gone = {n})
    BY <1>3 DEF Opened
  <2>2. name \in Names /\ name.level = l /\ name.date = today /\ name.seq = s.fds[l].seq
    BY <1>1, NameIs
  <2>3. IsDir(new) /\ DOMAIN new = DOMAIN s.dir \cup {name}
    BY <1>1, AddedIs
  <2> HIDE DEF name, new, old
  <2>4. DOMAIN t.dir = DOMAIN new \ gone
    <3> DEFINE left == Remove(new, gone)
    <3>1. DOMAIN left = DOMAIN new \ gone
      BY <2>3, RemoveIs
    <3> HIDE DEF left
    <3>2. t.dir = left
      BY <2>1 DEF left
    <3>3. QED
      BY <3>1, <3>2
  <2>5. \A k \in Levels : t.fds[k].seq < MaxFiles
    BY <1>1, <2>1 DEF Numbered
  <2>6. \A n \in DOMAIN t.dir : n \in Names /\ n.seq < MaxFiles
    BY <2>2, <2>3, <2>4 DEF Numbered, IsDir
  <2>7. ASSUME NEW n \in DOMAIN t.dir, n.level = l, n.seq = name.seq PROVE n = name
    <3>1. n \in DOMAIN new /\ n \notin gone /\ n \in Names
      BY <2>4, <2>6
    <3>2. CASE n.date = today
      BY <2>2, <2>7, <3>1, <3>2, NamesSame
    <3>3. CASE n.date # today
      <4>1. n \in old
        BY <2>2, <2>7, <3>1, <3>3 DEF old, Old, FilesOf
      <4>2. PICK k \in old : gone = {k}
        BY <2>1, <4>1
      <4>3. k \in DOMAIN new /\ k.level = l /\ k.seq = name.seq /\ k.date # today
        BY <2>2, <4>2 DEF old, Old, FilesOf
      <4>4. n # name /\ k # name
        BY <2>2, <3>3, <4>3
      <4>5. n \in DOMAIN s.dir /\ k \in DOMAIN s.dir
        BY <2>3, <3>1, <4>3, <4>4
      <4>6. n = k
        BY <2>7, <4>3, <4>5 DEF Numbered
      <4>7. QED
        BY <3>1, <4>2, <4>6
    <3>4. QED
      BY <3>2, <3>3
  <2>8. ASSUME NEW m \in DOMAIN t.dir, NEW n \in DOMAIN t.dir, m.level = n.level, m.seq = n.seq
        PROVE  m = n
    <3>1. CASE n = name \/ m = name
      BY <2>2, <2>7, <2>8, <3>1
    <3>2. CASE n # name /\ m # name
      BY <2>3, <2>4, <2>8, <3>2 DEF Numbered
    <3>3. QED
      BY <3>1, <3>2
  <2>9. QED
    BY <2>1, <2>5, <2>6, <2>8 DEF Numbered
<1>4. QED
  BY <1>2, <1>3, OpenFdIs

LEMMA NextNumbered ==
  ASSUME NEW s, IsLog(s), MaxFiles # 0, Numbered(s), NEW l \in Levels
  PROVE  /\ Numbered(Advanced(s, l)) /\ Advanced(s, l).fds[l].seq = NextSeq(s, l)
         /\ Advanced(s, l).fds[l].day = s.fds[l].day
         /\ NextSeq(s, l) = (IF s.fds[l].seq + 1 = MaxFiles THEN 0 ELSE s.fds[l].seq + 1)
<1>1. s.fds \in [Levels -> Fds] /\ s.fds[l] \in Fds /\ s.fds[l].seq \in Nat
  BY DEF IsLog, Fds
<1>2. s.fds[l].seq < MaxFiles /\ s.max = MaxFiles /\ MaxFiles \in Nat \ {0}
  BY LogFilesAssumption DEF Numbered
<1>3. NextSeq(s, l) = (IF s.fds[l].seq + 1 = MaxFiles THEN 0 ELSE s.fds[l].seq + 1)
  BY <1>1, <1>2, NextNumber DEF NextSeq
<1>4. NextSeq(s, l) < MaxFiles
  BY <1>1, <1>2, <1>3
<1>5. /\ Advanced(s, l).dir = s.dir /\ Advanced(s, l).max = s.max
      /\ Advanced(s, l).fds = [s.fds EXCEPT ![l] = [@ EXCEPT !.seq = NextSeq(s, l)]]
  BY NextShifts
<1>6. /\ Advanced(s, l).fds[l].seq = NextSeq(s, l)
      /\ Advanced(s, l).fds[l].day = s.fds[l].day
      /\ \A k \in Levels \ {l} : Advanced(s, l).fds[k] = s.fds[k]
  BY <1>1, <1>5 DEF Fds
<1>7. QED
  BY <1>3, <1>4, <1>5, <1>6 DEF Numbered

\* A second file of a line is opened with recycling on only if the first one was.
LEMMA AgainRecycles ==
  ASSUME NEW s, IsLog(s), NEW l \in Levels, today \in Nat, NEW fails, NEW again,
         NEW u \in OpenFd(s, l, fails), u.fds[l].file # NoFile,
         NEW t \in OpenFd(Advanced(u, l), l, again), t.max # 0
  PROVE  IsLog(u) /\ u.max # 0
<1>1. IsLog(u) /\ u.fds[l].day = today /\ u.fds[l] \in Fds /\ u.max \in {0, MaxFiles}
  BY OpenShifts DEF Shifts, IsLog
<1>2. IsLog(Advanced(u, l)) /\ Advanced(u, l).max = u.max
      /\ Advanced(u, l).fds[l].day = today
  <2>1. u.fds \in [Levels -> Fds]
    BY <1>1 DEF IsLog
  <2>2. Advanced(u, l).fds = [u.fds EXCEPT ![l] = [@ EXCEPT !.seq = NextSeq(u, l)]]
    BY <1>1, NextShifts
  <2>3. Advanced(u, l).fds[l] = [u.fds[l] EXCEPT !.seq = NextSeq(u, l)]
    BY <2>1, <2>2
  <2>4. Advanced(u, l).fds[l].day = today
    BY <1>1, <2>3 DEF Fds
  <2>5. QED
    BY <1>1, <2>4, NextShifts
<1>3. CASE t = [Advanced(u, l) EXCEPT !.fds[l].file = NoFile]
  BY <1>1, <1>2, <1>3 DEF IsLog
<1>4. ASSUME NEW gone, Opened(Advanced(u, l), t, l, gone, again) PROVE u.max # 0
  BY <1>2, <1>4 DEF Opened
<1>5. QED
  BY <1>1, <1>2, <1>3, <1>4, OpenFdIs

LEMMA ShiftNumbered ==
  ASSUME NEW s, IsLog(s), MaxFiles # 0, Numbered(s), NEW l \in Levels, today \in Nat,
         NEW fails, {fails[1], fails[2]} \subseteq {"none", "open"},
         NEW t \in ShiftFd(s, l, fails), t.max # 0
  PROVE  Numbered(t)
<1>1. ASSUME NEW u, IsLog(u), Numbered(u), t \in OpenFd(Advanced(u, l), l, fails[2])
      PROVE  Numbered(t)
  <2>1. IsLog(Advanced(u, l)) /\ Numbered(Advanced(u, l))
    BY <1>1, NextShifts, NextNumbered
  <2>2. QED
    BY <1>1, <2>1, OpenNumbered
<1>2. CASE t = s
  BY <1>2
<1>3. CASE t \in OpenFd(Advanced(s, l), l, fails[2])
  BY <1>1, <1>3
<1>4. ASSUME NEW u \in OpenFd(s, l, fails[1]), t = u
      PROVE  Numbered(t)
  BY <1>4, OpenNumbered
<1>5. ASSUME NEW u \in OpenFd(s, l, fails[1]), u.fds[l].file # NoFile,
             t \in OpenFd(Advanced(u, l), l, fails[2])
      PROVE  Numbered(t)
  <2>1. IsLog(u) /\ u.max # 0
    BY <1>5, AgainRecycles
  <2>2. Numbered(u)
    BY <1>5, <2>1, OpenNumbered
  <2>3. QED
    BY <1>1, <1>5, <2>1, <2>2
<1>6. QED
  BY <1>2, <1>3, <1>4, <1>5, ShiftWays

\* Neither open nor opendir fails.
None == <<"none", "none">>

\* What a line leaves in the log, apart from the line.
LEMMA Written ==
  ASSUME KeptInv, NEW l \in Levels, WriteLog(l)
  PROVE  \E fails \in Failures \X Failures : \E s \in ShiftFd(log, l, fails) :
           /\ log'.fds = s.fds /\ log'.max = s.max /\ DOMAIN log'.dir = DOMAIN s.dir
           /\ disturbed' = (disturbed \/ "opendir" \in {fails[1], fails[2]} \/ s.max # MaxFiles)
           /\ faults' = (IF fails = None THEN faults ELSE faults + 1)
           /\ Shifts(log, s, l)
<1>1. IsLog(log) /\ today \in Nat
  BY LogFilesAssumption DEF KeptInv, Types, Dates
<1>2. PICK fails \in Failures \X Failures :
        /\ IF fails = None THEN UNCHANGED faults ELSE Fault
        /\ \E s \in ShiftFd(log, l, fails) :
             /\ log' = IF s.fds[l].file \in DOMAIN s.dir THEN [s EXCEPT !.dir[s.fds[l].file] = @ + 1]
                       ELSE s
             /\ disturbed' = (disturbed \/ "opendir" \in {fails[1], fails[2]} \/ s.max # MaxFiles)
  BY DEF WriteLog, None
<1>3. PICK s \in ShiftFd(log, l, fails) :
        /\ log' = IF s.fds[l].file \in DOMAIN s.dir THEN [s EXCEPT !.dir[s.fds[l].file] = @ + 1]
                  ELSE s
        /\ disturbed' = (disturbed \/ "opendir" \in {fails[1], fails[2]} \/ s.max # MaxFiles)
  BY <1>2
<1>4. Shifts(log, s, l)
  BY <1>1, ShiftShifts
<1>5. s = [fds |-> s.fds, max |-> s.max, dir |-> s.dir] /\ IsDir(s.dir)
  BY <1>4 DEF Shifts, IsLog
<1>6. log'.fds = s.fds /\ log'.max = s.max /\ DOMAIN log'.dir = DOMAIN s.dir
  BY <1>3, <1>5
<1>7. faults' = (IF fails = None THEN faults ELSE faults + 1)
  BY <1>2 DEF Fault
<1>8. QED
  BY <1>3, <1>4, <1>6, <1>7

\* What the other steps leave: Control only takes files away.
LEMMA NotWritten ==
  ASSUME KeptInv, [Next]_vars, ~ \E l \in Levels : WriteLog(l), ~Restart
  PROVE  /\ log'.fds = log.fds /\ log'.max = log.max /\ DOMAIN log'.dir \subseteq DOMAIN log.dir
         /\ disturbed' = disturbed
<1>1. IsLog(log) /\ IsDir(log.dir) /\ log = [fds |-> log.fds, max |-> log.max, dir |-> log.dir]
  BY DEF KeptInv, Types, IsLog
<1>2. CASE log' = log /\ disturbed' = disturbed
  BY <1>2
<1>3. ASSUME NEW names, log' = [log EXCEPT !.dir = Remove(@, names)], disturbed' = disturbed
      PROVE  /\ log'.fds = log.fds /\ log'.max = log.max
             /\ DOMAIN log'.dir \subseteq DOMAIN log.dir /\ disturbed' = disturbed
  <2>1. log'.fds = log.fds /\ log'.max = log.max /\ log'.dir = Remove(log.dir, names)
    BY <1>1, <1>3
  <2>2. DOMAIN Remove(log.dir, names) = DOMAIN log.dir \ names
    BY <1>1, RemoveIs
  <2>3. QED
    BY <1>3, <2>1, <2>2
<1>4. CASE Tick \/ SortFilesToMap \/ TarEnds \/ ControlRestart \/ UNCHANGED vars
  BY <1>2, <1>4 DEF Tick, SortFilesToMap, TarEnds, ControlRestart, vars
<1>5. CASE DoRemove
  BY <1>2, <1>3, <1>5 DEF DoRemove
<1>6. ASSUME NEW d \in Dates, TarDate(d)
      PROVE  /\ log'.fds = log.fds /\ log'.max = log.max
             /\ DOMAIN log'.dir \subseteq DOMAIN log.dir /\ disturbed' = disturbed
  BY <1>2, <1>3, <1>6 DEF TarDate
<1>7. QED
  BY <1>4, <1>5, <1>6 DEF Next

NumInv == ~disturbed /\ MaxFiles # 0 => Numbered(log)

LEMMA NumInit == Init => NumInv
<1> SUFFICES ASSUME Init, MaxFiles # 0 PROVE Numbered(log)
  BY DEF NumInv
<1>1. log = [fds |-> [l \in Levels |-> [seq |-> RequestLogSeq(<<>>, l), file |-> NoFile,
                                        day |-> -1, count |-> 0]],
             max |-> MaxFiles, dir |-> <<>>]
  BY DEF Init, LogInit
<1>2. DOMAIN <<>> = {}
  BY EmptyDir
<1>3. \A l \in Levels : RequestLogSeq(<<>>, l) = 0
  BY <1>2 DEF RequestLogSeq, LogSeqRecycle, FilesOf
<1>4. 0 < MaxFiles
  BY LogFilesAssumption
<1>5. QED
  BY <1>1, <1>2, <1>3, <1>4 DEF Numbered

LEMMA NumNext ==
  ASSUME KeptInv, NumInv, [Next]_vars
  PROVE  NumInv'
<1> SUFFICES ASSUME ~disturbed', MaxFiles # 0 PROVE Numbered(log')
  BY DEF NumInv, Numbered
<1>1. IsLog(log) /\ today \in Nat
  BY LogFilesAssumption DEF KeptInv, Types, Dates
<1>2. ASSUME NEW l \in Levels, WriteLog(l) PROVE Numbered(log')
  <2>1. PICK fails \in Failures \X Failures : \E s \in ShiftFd(log, l, fails) :
           /\ log'.fds = s.fds /\ log'.max = s.max /\ DOMAIN log'.dir = DOMAIN s.dir
           /\ disturbed' = (disturbed \/ "opendir" \in {fails[1], fails[2]} \/ s.max # MaxFiles)
    BY <1>2, Written
  <2>2. PICK s \in ShiftFd(log, l, fails) :
           /\ log'.fds = s.fds /\ log'.max = s.max /\ DOMAIN log'.dir = DOMAIN s.dir
           /\ disturbed' = (disturbed \/ "opendir" \in {fails[1], fails[2]} \/ s.max # MaxFiles)
    BY <2>1
  <2>3. Numbered(log) /\ {fails[1], fails[2]} \subseteq {"none", "open"} /\ s.max # 0
    BY <2>2 DEF NumInv, Failures
  <2>4. Numbered(s)
    BY <1>1, <2>2, <2>3, ShiftNumbered
  <2>5. QED
    BY <2>2, <2>4 DEF Numbered
<1>3. CASE ~Restart /\ ~ \E l \in Levels : WriteLog(l)
  BY <1>3, NotWritten DEF NumInv, Numbered
<1>4. QED
  BY <1>2, <1>3 DEF Restart

LEMMA NumAlways == Spec => []NumInv
<1>1. Init => NumInv
  BY NumInit
<1>2. KeptInv /\ NumInv /\ [Next]_vars => NumInv'
  BY NumNext
<1>3. QED
  BY <1>1, <1>2, KeptAlways, PTL DEF Spec

\* While nobody turns recycling off or starts the numbers over, a level has at most as
\* many files as there are numbers.
THEOREM FilesAreBounded == Spec => []FilesBounded
<1>1. KeptInv /\ NumInv => FilesBounded
  <2> SUFFICES ASSUME KeptInv, Numbered(log), MaxFiles # 0, NEW l \in Levels
               PROVE  Cardinality(FilesOf(log.dir, l)) <= MaxFiles
    BY DEF NumInv, FilesBounded
  <2> DEFINE S == FilesOf(log.dir, l)
             T == 0 .. MaxFiles - 1
             f == [n \in S |-> n.seq]
  <2>1. IsDir(log.dir) /\ MaxFiles \in Nat \ {0}
    BY LogFilesAssumption DEF KeptInv, Types, IsLog
  <2>2. IsFiniteSet(S) /\ S \subseteq DOMAIN log.dir /\ S \subseteq Names
    BY <2>1, FS_Subset DEF IsDir, FilesOf
  <2>3. \A n \in S : n.seq \in T
    BY <2>1, <2>2 DEF Numbered, Names
  <2>4. \A m, n \in S : m.seq = n.seq => m = n
    BY DEF Numbered, FilesOf
  <2>5. f \in Injection(S, T)
    BY <2>3, <2>4 DEF Injection, IsInjective
  <2>6. IsFiniteSet(T) /\ Cardinality(T) = MaxFiles
    BY <2>1, FS_Interval
  <2> HIDE DEF S, T, f
  <2>7. Cardinality(S) <= Cardinality(T)
    BY <2>5, <2>6, FS_Injection
  <2>8. QED
    BY <2>6, <2>7 DEF S
<1>2. QED
  BY <1>1, KeptAlways, NumAlways, PTL

-----------------------------------------------------------------------------
(***************************************************************************)
(* The ring of numbers: going back from the number in use, the files get   *)
(* older, and none is missing up to the oldest.                            *)
(***************************************************************************)

\* How many files were opened after the one with number q, when c is in use.
Behind(c, q) == IF q <= c THEN c - q ELSE c - q + MaxFiles

Ringed(s, l) ==
  LET files == FilesOf(s.dir, l)
      c == s.fds[l].seq
  IN /\ files # {} => s.fds[l].file # NoFile
     /\ \A m, n \in files : Behind(c, m.seq) < Behind(c, n.seq) => m.date >= n.date
     /\ \A n \in files : \A i \in 0 .. Behind(c, n.seq) :
          \E m \in files : Behind(c, m.seq) = i

LEMMA BehindIs ==
  ASSUME MaxFiles # 0, NEW c \in 0 .. MaxFiles - 1
  PROVE  LET d == IF c + 1 = MaxFiles THEN 0 ELSE c + 1
         IN  /\ \A q \in 0 .. MaxFiles - 1 :
                  /\ Behind(c, q) \in 0 .. MaxFiles - 1
                  /\ Behind(d, q) = IF q = d THEN 0 ELSE Behind(c, q) + 1
                  /\ q = d <=> Behind(c, q) = MaxFiles - 1
             /\ \A p, q \in 0 .. MaxFiles - 1 : Behind(c, p) = Behind(c, q) => p = q
             /\ Behind(c, c) = 0
  BY LogFilesAssumption DEF Behind

\* The numbers of files that are told apart by them.
LEMMA NumbersAre ==
  ASSUME NEW s, IsLog(s), MaxFiles # 0, Numbered(s), NEW l \in Levels
  PROVE  /\ s.fds[l].seq \in 0 .. MaxFiles - 1
         /\ \A n \in FilesOf(s.dir, l) : /\ n \in Names /\ n \in DOMAIN s.dir /\ n.level = l
                                         /\ n.seq \in 0 .. MaxFiles - 1
                                         /\ n.date \in 0 .. today
         /\ \A m, n \in FilesOf(s.dir, l) : m.seq = n.seq => m = n
<1>1. MaxFiles \in Nat \ {0} /\ s.fds[l] \in Fds /\ s.fds[l].seq \in Nat
  BY LogFilesAssumption DEF IsLog, Fds
<1>2. s.fds[l].seq < MaxFiles
  BY DEF Numbered
<1>3. \A n \in FilesOf(s.dir, l) : n \in Names /\ n \in DOMAIN s.dir /\ n.level = l
  BY DEF FilesOf, IsLog, IsDir
<1>4. \A n \in FilesOf(s.dir, l) : n.seq \in Nat /\ n.date \in 0 .. today /\ n.seq < MaxFiles
  BY <1>3 DEF Names, Numbered
<1>5. \A m, n \in FilesOf(s.dir, l) : m.seq = n.seq => m = n
  BY <1>3 DEF Numbered
<1>6. QED
  BY <1>1, <1>2, <1>3, <1>4, <1>5

\* What open_fd removes when nothing fails and numbers are still recycled.
LEMMA OpenedFiles ==
  ASSUME NEW s, IsLog(s), NEW l \in Levels, today \in Nat,
         NEW t, NEW gone, Opened(s, t, l, gone, "none"), t.max # 0
  PROVE  LET name == Name(l, today, s.fds[l].seq)
             old == {n \in FilesOf(s.dir, l) : n.seq = s.fds[l].seq /\ n.date # today}
         IN  /\ t.fds[l].file = name /\ t.fds[l].seq = s.fds[l].seq
             /\ \A k \in Levels \ {l} : t.fds[k] = s.fds[k]
             /\ FilesOf(t.dir, l) = (FilesOf(s.dir, l) \cup {name}) \ gone
             /\ (gone = {} /\ old = {}) \/ (\E n \in old : gone = {n})
             /\ \A k \in Levels \ {l} : FilesOf(t.dir, k) = FilesOf(s.dir, k)
             /\ DOMAIN s.dir \ DOMAIN t.dir = gone
             /\ name \notin DOMAIN s.dir => t.dir[name] = 0
<1>1. /\ s.fds \in [Levels -> Fds] /\ s.fds[l] \in Fds /\ s.fds[l].seq \in Nat /\ IsDir(s.dir)
  BY DEF IsLog, Fds
<1> DEFINE name == Name(l, today, s.fds[l].seq)
           new == Added(s.dir, name)
           old == {n \in FilesOf(s.dir, l) : n.seq = s.fds[l].seq /\ n.date # today}
<1>2. name \in Names /\ name.level = l /\ name.date = today /\ name.seq = s.fds[l].seq
  BY <1>1, NameIs
<1>3. IsDir(new) /\ DOMAIN new = DOMAIN s.dir \cup {name}
  BY <1>1, AddedIs
<1>4. name \notin DOMAIN s.dir => new[name] = 0
  BY DEF Added, With
<1>5. /\ t.fds = [s.fds EXCEPT ![l] = [seq |-> t.fds[l].seq, file |-> name, day |-> today,
                                       count |-> t.fds[l].count]]
      /\ t.fds[l].seq = s.fds[l].seq /\ t.dir = Remove(new, gone)
      /\ (gone = {} /\ Old(new, l, s.fds[l].seq) = {})
           \/ (\E n \in Old(new, l, s.fds[l].seq) : gone = {n})
  BY DEF Opened
<1>6. Old(new, l, s.fds[l].seq) = old
  <2> HIDE DEF name, new
  <2>1. FilesOf(new, l) = FilesOf(s.dir, l) \cup {name}
    BY <1>2, <1>3 DEF FilesOf
  <2>2. QED
    BY <1>2, <2>1 DEF Old
<1> HIDE DEF name, new
<1>7. DOMAIN t.dir = DOMAIN new \ gone /\ \A n \in DOMAIN new \ gone : t.dir[n] = new[n]
  <2> DEFINE left == Remove(new, gone)
  <2>1. DOMAIN left = DOMAIN new \ gone /\ \A n \in DOMAIN new \ gone : left[n] = new[n]
    BY <1>3, RemoveIs
  <2> HIDE DEF left
  <2>2. t.dir = left
    BY <1>5 DEF left
  <2>3. QED
    BY <2>1, <2>2
<1>8. (gone = {} /\ old = {}) \/ (\E n \in old : gone = {n})
  BY <1>5, <1>6
<1>9. gone \subseteq old
  BY <1>8
<1>10. \A n \in gone : n \in DOMAIN s.dir /\ n.level = l /\ n.date # today
  BY <1>9 DEF FilesOf
<1>11. name \notin gone
  BY <1>2, <1>10
<1>12. FilesOf(t.dir, l) = (FilesOf(s.dir, l) \cup {name}) \ gone
  BY <1>2, <1>3, <1>7 DEF FilesOf
<1>13. \A k \in Levels \ {l} : FilesOf(t.dir, k) = FilesOf(s.dir, k)
  BY <1>2, <1>3, <1>7, <1>10 DEF FilesOf
<1>14. DOMAIN s.dir \ DOMAIN t.dir = gone
  BY <1>3, <1>7, <1>10
<1>15. name \notin DOMAIN s.dir => t.dir[name] = 0
  BY <1>3, <1>4, <1>7, <1>11
<1>16. t.fds[l].file = name /\ \A k \in Levels \ {l} : t.fds[k] = s.fds[k]
  BY <1>1, <1>5
<1>17. QED
  BY <1>5, <1>8, <1>12, <1>13, <1>14, <1>15, <1>16 DEF name

\* The first file of a level: nothing is removed, and the file has room.
LEMMA FirstRinged ==
  ASSUME NEW s, IsLog(s), MaxFiles # 0, Numbered(s), NEW l \in Levels, today \in Nat,
         Ringed(s, l), s.fds[l].file = NoFile,
         NEW t \in OpenFd(s, l, "none"), t.max # 0
  PROVE  /\ Ringed(t, l) /\ t.fds[l].file # NoFile /\ Fits(t, l)
         /\ DOMAIN s.dir \subseteq DOMAIN t.dir
         /\ \A k \in Levels \ {l} : /\ t.fds[k] = s.fds[k]
                                    /\ FilesOf(t.dir, k) = FilesOf(s.dir, k)
<1>1. FilesOf(s.dir, l) = {}
  BY DEF Ringed
<1>2. PICK gone : Opened(s, t, l, gone, "none")
  BY OpenFdIs
<1> DEFINE name == Name(l, today, s.fds[l].seq)
<1>3. name.level = l /\ name.seq = s.fds[l].seq /\ name # NoFile /\ s.fds[l].seq \in 0 .. MaxFiles - 1
  BY NumbersAre, NameIs
<1>4. /\ t.fds[l].file = name /\ t.fds[l].seq = s.fds[l].seq
      /\ \A k \in Levels \ {l} : t.fds[k] = s.fds[k]
      /\ FilesOf(t.dir, l) = {name}
      /\ gone = {} /\ DOMAIN s.dir \ DOMAIN t.dir = gone
      /\ \A k \in Levels \ {l} : FilesOf(t.dir, k) = FilesOf(s.dir, k)
      /\ name \notin DOMAIN s.dir => t.dir[name] = 0
  BY <1>1, <1>2, OpenedFiles
<1>5. name \notin DOMAIN s.dir
  BY <1>1, <1>3 DEF FilesOf
<1> HIDE DEF name
<1>6. Ringed(t, l)
  <2>1. Behind(t.fds[l].seq, name.seq) = 0
    BY <1>3, <1>4, BehindIs
  <2>2. QED
    BY <1>3, <1>4, <2>1 DEF Ringed
<1>7. t.fds[l].day = today
  BY <1>3, <1>4, OpenShifts DEF Shifts
<1>8. Fits(t, l)
  BY <1>4, <1>5, <1>7, LogFilesAssumption DEF Fits
<1>9. QED
  BY <1>3, <1>4, <1>6, <1>8

\* The next file of a level: the number is free, or the oldest file of all has it.
LEMMA NextRinged ==
  ASSUME NEW s, IsLog(s), MaxFiles # 0, Numbered(s), NEW l \in Levels, today \in Nat,
         Ringed(s, l),
         NEW t \in OpenFd(Advanced(s, l), l, "none"), t.max # 0
  PROVE  /\ Ringed(t, l)
         /\ \A k \in Levels \ {l} : /\ t.fds[k] = s.fds[k]
                                    /\ FilesOf(t.dir, k) = FilesOf(s.dir, k)
         /\ \A n \in DOMAIN s.dir \ DOMAIN t.dir :
              /\ n \in FilesOf(s.dir, l) /\ Cardinality(FilesOf(s.dir, l)) = MaxFiles
              /\ \A k \in FilesOf(s.dir, l) : n.date <= k.date
<1> DEFINE a == Advanced(s, l)
           c == s.fds[l].seq
           d == IF c + 1 = MaxFiles THEN 0 ELSE c + 1
           files == FilesOf(s.dir, l)
           name == Name(l, today, d)
<1>1. /\ IsLog(a) /\ a.dir = s.dir /\ a.fds[l].seq = d
      /\ \A k \in Levels \ {l} : a.fds[k] = s.fds[k]
  <2>1. a.fds = [s.fds EXCEPT ![l] = [@ EXCEPT !.seq = NextSeq(s, l)]]
    BY NextShifts
  <2>2. s.fds \in [Levels -> Fds]
    BY DEF IsLog
  <2>3. \A k \in Levels \ {l} : a.fds[k] = s.fds[k]
    BY <2>1, <2>2
  <2>4. IsLog(a) /\ a.dir = s.dir
    BY NextShifts
  <2>5. a.fds[l].seq = NextSeq(s, l) /\ NextSeq(s, l) = d
    BY NextNumbered
  <2> HIDE DEF a, d
  <2>6. QED
    BY <2>3, <2>4, <2>5
<1> HIDE DEF a
<1>2. PICK gone : Opened(a, t, l, gone, "none")
  BY <1>1, OpenFdIs DEF a
<1>3. c \in 0 .. MaxFiles - 1 /\ d \in 0 .. MaxFiles - 1 /\ MaxFiles \in Nat \ {0}
  BY NumbersAre, LogFilesAssumption
<1>4. /\ \A n \in files : /\ n \in Names /\ n.seq \in 0 .. MaxFiles - 1 /\ n.date \in 0 .. today
                          /\ n \in DOMAIN s.dir /\ n.level = l
      /\ \A m, n \in files : m.seq = n.seq => m = n
  BY NumbersAre
<1>5. name.level = l /\ name.seq = d /\ name.date = today /\ name # NoFile /\ name \in Names
  BY <1>3, NameIs
<1>6. /\ \A q \in 0 .. MaxFiles - 1 :
           /\ Behind(c, q) \in 0 .. MaxFiles - 1
           /\ Behind(d, q) = (IF q = d THEN 0 ELSE Behind(c, q) + 1)
           /\ q = d <=> Behind(c, q) = MaxFiles - 1
      /\ \A p, q \in 0 .. MaxFiles - 1 : Behind(c, p) = Behind(c, q) => p = q
  BY <1>3, BehindIs
<1>7. /\ t.fds[l].file = name /\ t.fds[l].seq = d
      /\ \A k \in Levels \ {l} : t.fds[k] = s.fds[k]
      /\ FilesOf(t.dir, l) = (files \cup {name}) \ gone
      /\ (gone = {} /\ {n \in files : n.seq = d /\ n.date # today} = {})
           \/ (\E n \in {n \in files : n.seq = d /\ n.date # today} : gone = {n})
      /\ \A k \in Levels \ {l} : FilesOf(t.dir, k) = FilesOf(s.dir, k)
      /\ DOMAIN s.dir \ DOMAIN t.dir = gone
  BY <1>1, <1>2, OpenedFiles
<1> HIDE DEF c, d, files, name
<1>8. /\ \A m, n \in files : Behind(c, m.seq) < Behind(c, n.seq) => m.date >= n.date
      /\ \A n \in files : \A i \in 0 .. Behind(c, n.seq) :
           \E m \in files : Behind(c, m.seq) = i
  BY DEF Ringed, c, files
<1>9. \A n \in gone : n \in files /\ n.seq = d
  BY <1>7
<1>10. \A n \in FilesOf(t.dir, l) : n # name => n \in files /\ n.seq # d /\ n.seq \in 0 .. MaxFiles - 1
  <2>1. SUFFICES ASSUME NEW n \in FilesOf(t.dir, l), n # name PROVE n.seq # d /\ n \in files
    BY <1>4
  <2>2. n \in files /\ n \notin gone
    BY <1>7, <2>1
  <2>3. ASSUME n.seq = d PROVE FALSE
    <3>1. CASE n.date = today
      BY <1>4, <1>5, <2>1, <2>2, <2>3, <3>1, NamesSame
    <3>2. CASE n.date # today
      <4>1. PICK k \in files : k.seq = d /\ gone = {k}
        BY <1>7, <2>2, <2>3, <3>2
      <4>2. QED
        BY <1>4, <2>2, <2>3, <4>1
    <3>3. QED
      BY <3>1, <3>2
  <2>4. QED
    BY <2>2, <2>3
<1>11. name \in FilesOf(t.dir, l)
  <2>1. name \notin gone
    BY <1>5, <1>7
  <2>2. QED
    BY <1>7, <2>1
<1>12. Ringed(t, l)
  <2>1. ASSUME NEW m \in FilesOf(t.dir, l), NEW n \in FilesOf(t.dir, l),
               Behind(d, m.seq) < Behind(d, n.seq)
        PROVE  m.date >= n.date
    <3>1. n # name
      <4>1. Behind(d, name.seq) = 0
        BY <1>3, <1>5, <1>6
      <4>2. m.seq \in 0 .. MaxFiles - 1
        BY <1>3, <1>5, <1>10
      <4>3. Behind(d, m.seq) \in Nat
        BY <1>6, <4>2
      <4>4. QED
        BY <2>1, <4>1, <4>3
    <3>2. CASE m = name
      BY <1>4, <1>5, <1>10, <3>1, <3>2
    <3>3. CASE m # name
      <4>1. Behind(c, m.seq) < Behind(c, n.seq)
        BY <1>6, <1>10, <2>1, <3>1, <3>3
      <4>2. QED
        BY <1>8, <1>10, <3>1, <3>3, <4>1
    <3>4. QED
      BY <3>2, <3>3
  <2>2. ASSUME NEW n \in FilesOf(t.dir, l), NEW i \in 0 .. Behind(d, n.seq)
        PROVE  \E m \in FilesOf(t.dir, l) : Behind(d, m.seq) = i
    <3>1. CASE i = 0
      BY <1>3, <1>5, <1>6, <1>11, <3>1
    <3>2. CASE i # 0
      <4>1. n # name
        BY <1>3, <1>5, <1>6, <2>2, <3>2
      <4>2. /\ n \in files /\ Behind(c, n.seq) \in 0 .. MaxFiles - 2
            /\ i - 1 \in 0 .. Behind(c, n.seq)
        BY <1>3, <1>6, <1>10, <2>2, <3>2, <4>1
      <4>3. PICK m \in files : Behind(c, m.seq) = i - 1
        BY <1>8, <4>2
      <4>4. m.seq # d /\ m.seq \in 0 .. MaxFiles - 1
        BY <1>3, <1>4, <1>6, <4>2, <4>3
      <4>5. m \in FilesOf(t.dir, l)
        BY <1>7, <1>9, <4>3, <4>4
      <4>6. Behind(d, m.seq) = i
        BY <1>6, <4>3, <4>4
      <4>7. QED
        BY <4>5, <4>6
    <3>3. QED
      BY <3>1, <3>2
  <2>3. QED
    BY <1>5, <1>7, <2>1, <2>2 DEF Ringed
<1>13. ASSUME NEW n \in DOMAIN s.dir \ DOMAIN t.dir
       PROVE  /\ n \in files /\ Cardinality(files) = MaxFiles
              /\ \A k \in files : n.date <= k.date
  <2>1. n \in files /\ n.seq = d /\ Behind(c, n.seq) = MaxFiles - 1
    BY <1>3, <1>6, <1>7, <1>9, <1>13
  <2>2. ASSUME NEW k \in files PROVE n.date <= k.date
    <3>1. CASE k = n
      BY <1>4, <2>1, <3>1
    <3>2. CASE k # n
      <4>1. Behind(c, k.seq) # Behind(c, n.seq)
        BY <1>4, <1>6, <2>1, <3>2
      <4>2. Behind(c, k.seq) < Behind(c, n.seq)
        BY <1>3, <1>4, <1>6, <2>1, <4>1
      <4>3. QED
        BY <1>4, <1>8, <2>1, <4>2
    <3>3. QED
      BY <3>1, <3>2
  <2> DEFINE T == 0 .. MaxFiles - 1
             f == [m \in files |-> Behind(c, m.seq)]
  <2>3. f \in Injection(files, T)
    BY <1>4, <1>6 DEF Injection, IsInjective
  <2>4. f \in Surjection(files, T)
    BY <1>4, <1>6, <1>8, <2>1 DEF Surjection
  <2>5. IsFiniteSet(T) /\ Cardinality(T) = MaxFiles
    <3>1. MaxFiles \in Nat \ {0}
      BY <1>3
    <3>2. QED
      BY <3>1, FS_Interval
  <2> HIDE DEF T, f
  <2>6. Cardinality(files) = Cardinality(T)
    BY <2>3, <2>4, <2>5, FS_Injection
  <2>7. QED
    BY <2>1, <2>2, <2>5, <2>6
<1>14. QED
  BY <1>7, <1>12, <1>13 DEF files

\* Whatever shift_fd does, the numbers stay a ring.
LEMMA ShiftRinged ==
  ASSUME NEW s, IsLog(s), MaxFiles # 0, Numbered(s), NEW l \in Levels, today \in Nat,
         Ringed(s, l),
         NEW t \in ShiftFd(s, l, None), t.max # 0
  PROVE  /\ Ringed(t, l)
         /\ \A k \in Levels \ {l} : /\ t.fds[k] = s.fds[k]
                                    /\ FilesOf(t.dir, k) = FilesOf(s.dir, k)
         /\ \A n \in DOMAIN s.dir \ DOMAIN t.dir :
              /\ n \in FilesOf(s.dir, l) /\ Cardinality(FilesOf(s.dir, l)) = MaxFiles
              /\ \A k \in FilesOf(s.dir, l) : n.date <= k.date
<1>1. None[1] = "none" /\ None[2] = "none"
  BY DEF None
<1>2. CASE t = s
  BY <1>2
<1>3. CASE t \in OpenFd(Advanced(s, l), l, "none")
  BY <1>3, NextRinged
<1>4. ASSUME NEW u \in OpenFd(s, l, "none"), s.fds[l].file = NoFile,
             \/ (u.fds[l].file = NoFile \/ Fits(u, l)) /\ t = u
             \/ /\ u.fds[l].file # NoFile /\ ~Fits(u, l)
                /\ t \in OpenFd(Advanced(u, l), l, "none")
      PROVE  t = u
  <2>1. SUFFICES ASSUME u.fds[l].file # NoFile, ~Fits(u, l),
                        t \in OpenFd(Advanced(u, l), l, "none")
                 PROVE  FALSE
    BY <1>4
  <2>2. u.max # 0
    BY <1>4, <2>1, AgainRecycles
  <2>3. QED
    BY <1>4, <2>1, <2>2, FirstRinged
<1>5. ASSUME NEW u \in OpenFd(s, l, "none"), s.fds[l].file = NoFile, t = u
      PROVE  /\ Ringed(t, l) /\ DOMAIN s.dir \subseteq DOMAIN t.dir
             /\ \A k \in Levels \ {l} : /\ t.fds[k] = s.fds[k]
                                        /\ FilesOf(t.dir, k) = FilesOf(s.dir, k)
  BY <1>5, FirstRinged
<1>6. QED
  BY <1>2, <1>3, <1>4, <1>5, <1>1, ShiftWays

-----------------------------------------------------------------------------
(* What Control leaves, as long as nothing fails: the later files. *)

PassOK ==
  faults = 0 =>
    /\ pass.at = "sort" => \A n \in DOMAIN log.dir : Age(n.date) <= RemoveDays
    /\ pass.at = "tar" =>
         /\ \A n \in DOMAIN log.dir : Age(n.date) > ArchiveDays => n.date \in DOMAIN tar
         /\ \A d \in DOMAIN tar : d >= pass.date

RingInv == ~disturbed /\ MaxFiles # 0 /\ faults = 0 => \A l \in Levels : Ringed(log, l)

\* The files that go are all of earlier dates than those that stay.
Aged(old, new) ==
  /\ DOMAIN new \subseteq DOMAIN old
  /\ \A m \in DOMAIN old \ DOMAIN new, n \in DOMAIN new : m.date < n.date

LEMMA AgedRinged ==
  ASSUME NEW s, IsLog(s), MaxFiles # 0, Numbered(s), NEW l \in Levels, Ringed(s, l),
         NEW t, t.fds = s.fds, Aged(s.dir, t.dir)
  PROVE  Ringed(t, l)
<1> DEFINE c == s.fds[l].seq
           old == FilesOf(s.dir, l)
           new == FilesOf(t.dir, l)
<1>1. /\ c \in 0 .. MaxFiles - 1
      /\ \A n \in old : n.seq \in 0 .. MaxFiles - 1 /\ n.date \in Nat
      /\ \A n \in old : Behind(c, n.seq) \in 0 .. MaxFiles - 1
  <2>1. c \in 0 .. MaxFiles - 1
    BY NumbersAre
  <2>2. \A n \in old : n.seq \in 0 .. MaxFiles - 1 /\ n.date \in Nat
    BY NumbersAre
  <2>3. \A q \in 0 .. MaxFiles - 1 : Behind(c, q) \in 0 .. MaxFiles - 1
    BY <2>1, BehindIs
  <2>4. QED
    BY <2>1, <2>2, <2>3
<1>2. /\ new \subseteq old
      /\ \A m \in old \ new, n \in new : m.date < n.date
  BY DEF Aged, FilesOf
<1>3. /\ old # {} => s.fds[l].file # NoFile
      /\ \A m, n \in old : Behind(c, m.seq) < Behind(c, n.seq) => m.date >= n.date
      /\ \A n \in old : \A i \in 0 .. Behind(c, n.seq) :
           \E m \in old : Behind(c, m.seq) = i
  BY DEF Ringed
<1> HIDE DEF c, old, new
<1>4. ASSUME NEW n \in new, NEW i \in 0 .. Behind(c, n.seq)
      PROVE  \E m \in new : Behind(c, m.seq) = i
  <2>1. CASE i = Behind(c, n.seq)
    BY <2>1
  <2>2. CASE i # Behind(c, n.seq)
    <3>1. PICK m \in old : Behind(c, m.seq) = i
      BY <1>2, <1>3, <1>4
    <3>2. Behind(c, m.seq) < Behind(c, n.seq) /\ n \in old
      BY <1>1, <1>2, <1>4, <2>2, <3>1
    <3>3. m.date >= n.date /\ m.date \in Nat /\ n.date \in Nat
      BY <1>1, <1>3, <3>1, <3>2
    <3>4. m \in new
      BY <1>2, <3>1, <3>3
    <3>5. QED
      BY <3>1, <3>4
  <2>3. QED
    BY <2>1, <2>2
<1>5. QED
  <2>1. /\ new # {} => s.fds[l].file # NoFile
        /\ \A m, n \in new : Behind(c, m.seq) < Behind(c, n.seq) => m.date >= n.date
    BY <1>2, <1>3
  <2>2. QED
    BY <1>4, <2>1 DEF Ringed, c, new

\* Control's steps, and those that do not touch the files.
LEMMA ControlAges ==
  ASSUME KeptInv, PassOK, [Next]_vars, ~ \E l \in Levels : WriteLog(l), ~Restart, faults' = 0
  PROVE  PassOK' /\ Aged(log.dir, log'.dir) /\ log'.fds = log.fds /\ faults = 0
<1>1. /\ IsLog(log) /\ IsDir(log.dir) /\ log = [fds |-> log.fds, max |-> log.max, dir |-> log.dir]
      /\ pass = [at |-> pass.at, date |-> pass.date, count |-> pass.count]
      /\ today \in Nat /\ DOMAIN tar \subseteq Dates /\ faults \in Nat
      /\ \A n \in DOMAIN log.dir : n.date \in 0 .. today
  BY LogFilesAssumption DEF KeptInv, Types, IsLog, IsDir, Names, Dates
<1>2. ~Fault
  BY <1>1 DEF Fault
<1>3. CASE /\ log' = log /\ faults' = faults /\ (tar' = tar \/ pass'.at = "idle")
           /\ \/ pass' = pass /\ (today' = today \/ pass.at = "idle")
              \/ pass' = [pass EXCEPT !.at = "idle"] /\ today' = today
  <2>1. Aged(log.dir, log'.dir)
    BY <1>3 DEF Aged
  <2>2. pass'.at = "idle" => PassOK'
    BY DEF PassOK
  <2>3. ASSUME pass'.at # "idle" PROVE pass' = pass /\ today' = today /\ tar' = tar
    BY <1>1, <1>3, <2>3
  <2>4. QED
    BY <1>3, <2>1, <2>2, <2>3 DEF PassOK, Age
<1>4. CASE Tick
  BY <1>3, <1>4 DEF Tick
<1>5. CASE TarEnds
  BY <1>1, <1>3, <1>5 DEF TarEnds
<1>6. CASE ControlRestart
  BY <1>1, <1>3, <1>6 DEF ControlRestart
<1>7. CASE UNCHANGED vars
  BY <1>3, <1>7 DEF vars
<1>8. CASE DoRemove
  <2> DEFINE names == {n \in DOMAIN log.dir : Age(n.date) > RemoveDays}
  <2>1. /\ log' = [log EXCEPT !.dir = Remove(@, names)]
        /\ pass' = [pass EXCEPT !.at = "sort"] /\ today' = today /\ faults' = faults
    BY <1>1, <1>2, <1>8 DEF DoRemove
  <2> DEFINE left == Remove(log.dir, names)
  <2>2. DOMAIN left = DOMAIN log.dir \ names
    BY <1>1, RemoveIs
  <2> HIDE DEF left
  <2>3. log'.fds = log.fds /\ log'.dir = left
    BY <1>1, <2>1 DEF left
  <2>4. RemoveDays \in Nat
    BY DaysAre
  <2>5. Aged(log.dir, log'.dir)
    BY <1>1, <2>2, <2>3, <2>4 DEF Aged, Age
  <2>6. PassOK'
    <3>1. pass'.at = "sort"
      BY <1>1, <2>1
    <3>2. \A n \in DOMAIN log'.dir : n \in DOMAIN log.dir /\ ~(Age(n.date) > RemoveDays)
      BY <2>2, <2>3
    <3>3. \A n \in DOMAIN log'.dir : today' - n.date <= RemoveDays
      BY <1>1, <2>1, <2>4, <3>2 DEF Age
    <3>4. QED
      BY <3>1, <3>3 DEF PassOK, Age
  <2>7. QED
    BY <2>1, <2>3, <2>5, <2>6
<1>9. CASE SortFilesToMap
  <2>1. /\ DOMAIN tar' = DOMAIN tar \cup {n.date : n \in {m \in DOMAIN log.dir :
                           Age(m.date) > ArchiveDays /\ Age(m.date) < RemoveDays + 1}}
        /\ pass' = [at |-> "tar", date |-> 0, count |-> 0] /\ pass.at = "sort"
        /\ today' = today /\ faults' = faults /\ log' = log
    BY <1>1, <1>2, <1>9 DEF SortFilesToMap, Listed
  <2>2. \A n \in DOMAIN log.dir : Age(n.date) <= RemoveDays
    BY <2>1 DEF PassOK
  <2>3. RemoveDays \in Nat
    BY DaysAre
  <2>4. \A n \in DOMAIN log.dir : Age(n.date) > ArchiveDays => n.date \in DOMAIN tar'
    BY <1>1, <2>1, <2>2, <2>3 DEF Age
  <2>5. \A d \in DOMAIN tar' : d >= 0
    BY <1>1, <2>1 DEF Dates
  <2>6. PassOK'
    BY <2>1, <2>4, <2>5 DEF PassOK, Age
  <2>7. QED
    BY <2>1, <2>6 DEF Aged
<1>10. ASSUME NEW d \in Dates, TarDate(d)
       PROVE  PassOK' /\ Aged(log.dir, log'.dir) /\ log'.fds = log.fds /\ faults = 0
  <2> DEFINE there == tar[d] \cap DOMAIN log.dir
  <2>1. /\ log' = [log EXCEPT !.dir = Remove(@, there)] /\ tar' = Remove(tar, {d})
        /\ pass' = [pass EXCEPT !.date = d + 1, !.count = @ + 1] /\ pass.at = "tar"
        /\ d \in DOMAIN tar /\ d >= pass.date /\ \A e \in DOMAIN tar : e >= pass.date => d <= e
        /\ today' = today /\ faults' = faults
    BY <1>2, <1>10 DEF TarDate, Waiting
  <2>2. /\ \A n \in DOMAIN log.dir : Age(n.date) > ArchiveDays => n.date \in DOMAIN tar
        /\ \A e \in DOMAIN tar : e >= pass.date
    BY <2>1 DEF PassOK
  <2>3. /\ Age(d) > ArchiveDays /\ \A n \in tar[d] : n.date = d
        /\ \A n \in DOMAIN log.dir : n.date = d => n \in tar[d]
    BY <2>1 DEF KeptInv, Packed
  <2> DEFINE left == Remove(log.dir, there)
  <2>4. DOMAIN left = DOMAIN log.dir \ there
    BY <1>1, RemoveIs
  <2> HIDE DEF left
  <2>5. log'.fds = log.fds /\ log'.dir = left
    BY <1>1, <2>1 DEF left
  <2>6. DOMAIN log'.dir = {n \in DOMAIN log.dir : n.date # d}
    BY <2>3, <2>4, <2>5
  <2>7. ArchiveDays \in Nat
    BY DaysAre
  <2>8. \A n \in DOMAIN log'.dir : n.date > d
    <3>1. SUFFICES ASSUME NEW n \in DOMAIN log.dir, n.date < d PROVE FALSE
      BY <1>1, <2>6 DEF Dates
    <3>2. n.date \in DOMAIN tar
      BY <1>1, <2>2, <2>3, <2>7, <3>1 DEF Age, Dates
    <3>3. d <= n.date
      BY <2>1, <2>2, <3>2
    <3>4. QED
      BY <1>1, <3>1, <3>3 DEF Dates
  <2>9. Aged(log.dir, log'.dir)
    BY <2>6, <2>8 DEF Aged
  <2>10. DOMAIN tar' = DOMAIN tar \ {d}
    BY <2>1 DEF Remove, Restrict
  <2>11. pass'.at = "tar" /\ pass'.date = d + 1
    BY <1>1, <2>1
  <2>12. \A n \in DOMAIN log'.dir : Age(n.date) > ArchiveDays => n.date \in DOMAIN tar'
    BY <2>2, <2>6, <2>10
  <2>13. \A e \in DOMAIN tar' : e >= d + 1
    BY <1>1, <2>1, <2>2, <2>10 DEF Dates
  <2>14. PassOK'
    BY <2>1, <2>11, <2>12, <2>13 DEF PassOK, Age
  <2>15. QED
    BY <2>1, <2>5, <2>9, <2>14
<1>11. QED
  BY <1>4, <1>5, <1>6, <1>7, <1>8, <1>9, <1>10 DEF Next

\* A line that nothing fails for, recycling still being on.
LEMMA WriteRinged ==
  ASSUME KeptInv, NumInv, RingInv, MaxFiles # 0, NEW l \in Levels, WriteLog(l),
         ~disturbed', faults' = 0
  PROVE  /\ faults = 0 /\ \A k \in Levels : Ringed(log', k)
         /\ \A n \in DOMAIN log'.dir : n \in DOMAIN log.dir \/ n.date = today
         /\ \A n \in DOMAIN log.dir \ DOMAIN log'.dir :
              /\ n \in FilesOf(log.dir, l) /\ Cardinality(FilesOf(log.dir, l)) = MaxFiles
              /\ \A k \in FilesOf(log.dir, l) : n.date <= k.date
<1>1. IsLog(log) /\ today \in Nat /\ faults \in Nat
  BY LogFilesAssumption DEF KeptInv, Types, Dates
<1>2. PICK fails \in Failures \X Failures : \E s \in ShiftFd(log, l, fails) :
         /\ log'.fds = s.fds /\ log'.max = s.max /\ DOMAIN log'.dir = DOMAIN s.dir
         /\ disturbed' = (disturbed \/ "opendir" \in {fails[1], fails[2]} \/ s.max # MaxFiles)
         /\ faults' = (IF fails = None THEN faults ELSE faults + 1)
         /\ Shifts(log, s, l)
  BY Written
<1>3. PICK s \in ShiftFd(log, l, fails) :
         /\ log'.fds = s.fds /\ log'.max = s.max /\ DOMAIN log'.dir = DOMAIN s.dir
         /\ disturbed' = (disturbed \/ "opendir" \in {fails[1], fails[2]} \/ s.max # MaxFiles)
         /\ faults' = (IF fails = None THEN faults ELSE faults + 1)
         /\ Shifts(log, s, l)
  BY <1>2
<1>4. fails = None /\ faults = 0 /\ ~disturbed /\ s.max # 0
  <2>1. ~disturbed /\ s.max = MaxFiles
    BY <1>3
  <2>2. fails = None /\ faults = 0
    <3>1. faults' = (IF fails = None THEN faults ELSE faults + 1)
      BY <1>3
    <3>2. QED
      BY <1>1, <3>1
  <2>3. QED
    BY <2>1, <2>2
<1>5. Numbered(log) /\ \A k \in Levels : Ringed(log, k)
  BY <1>4 DEF NumInv, RingInv
<1>6. /\ Ringed(s, l)
      /\ \A k \in Levels \ {l} : /\ s.fds[k] = log.fds[k]
                                 /\ FilesOf(s.dir, k) = FilesOf(log.dir, k)
      /\ \A n \in DOMAIN log.dir \ DOMAIN s.dir :
           /\ n \in FilesOf(log.dir, l) /\ Cardinality(FilesOf(log.dir, l)) = MaxFiles
           /\ \A k \in FilesOf(log.dir, l) : n.date <= k.date
  <2>1. s \in ShiftFd(log, l, None)
    BY <1>3, <1>4
  <2>2. QED
    BY <1>1, <1>4, <1>5, <2>1, ShiftRinged
<1>7. \A k \in Levels : Ringed(s, k)
  BY <1>5, <1>6 DEF Ringed
<1>8. \A k : FilesOf(log'.dir, k) = FilesOf(s.dir, k)
  BY <1>3 DEF FilesOf
<1>9. \A k \in Levels : Ringed(log', k)
  BY <1>3, <1>7, <1>8 DEF Ringed
<1>10. \A n \in DOMAIN s.dir : n \in DOMAIN log.dir \/ n.date = today
  BY <1>3 DEF Shifts, Turns
<1>11. QED
  BY <1>3, <1>4, <1>6, <1>9, <1>10

LEMMA RingInit == Init => RingInv /\ PassOK
<1> SUFFICES ASSUME Init PROVE (\A l \in Levels : Ringed(log, l)) /\ PassOK
  BY DEF RingInv
<1>1. log.dir = <<>> /\ pass.at = "idle"
  BY DEF Init, LogInit
<1>2. \A l \in Levels : FilesOf(log.dir, l) = {}
  BY <1>1, EmptyDir DEF FilesOf
<1>3. QED
  BY <1>1, <1>2 DEF Ringed, PassOK

LEMMA RingNext ==
  ASSUME KeptInv, NumInv, RingInv, [Next]_vars
  PROVE  PassOK => RingInv' /\ PassOK'
<1>1. /\ IsLog(log) /\ faults \in Nat /\ today \in Nat /\ IsDir(log.dir)
      /\ \A n \in DOMAIN log.dir : n.date \in 0 .. today
      /\ ArchiveDays \in Nat \ {0} /\ RemoveDays \in Nat
  BY LogFilesAssumption, DaysAre DEF KeptInv, Types, IsLog, IsDir, Names, Dates
<1>2. SUFFICES ASSUME PassOK, faults' = 0 PROVE RingInv' /\ PassOK'
  BY DEF RingInv, PassOK
<1>3. ASSUME NEW l \in Levels, WriteLog(l) PROVE RingInv' /\ PassOK'
  <2>1. faults = 0 /\ \A n \in DOMAIN log'.dir : n \in DOMAIN log.dir \/ n.date = today
    <3>1. PICK fails \in Failures \X Failures : \E s \in ShiftFd(log, l, fails) :
             /\ DOMAIN log'.dir = DOMAIN s.dir /\ Shifts(log, s, l)
             /\ faults' = (IF fails = None THEN faults ELSE faults + 1)
      BY <1>3, Written
    <3>2. PICK s \in ShiftFd(log, l, fails) :
             /\ DOMAIN log'.dir = DOMAIN s.dir /\ Shifts(log, s, l)
             /\ faults' = (IF fails = None THEN faults ELSE faults + 1)
      BY <3>1
    <3>3. \A n \in DOMAIN s.dir : n \in DOMAIN log.dir \/ n.date = today
      BY <3>2 DEF Shifts, Turns
    <3>4. QED
      BY <1>1, <1>2, <3>2, <3>3
  <2>2. today' = today /\ pass' = pass /\ tar' = tar
    BY <1>3 DEF WriteLog
  <2>3. Age(today) = 0
    BY <1>1 DEF Age
  <2>4. PassOK'
    BY <1>1, <1>2, <2>1, <2>2, <2>3 DEF PassOK, Age
  <2>5. RingInv'
    <3>1. SUFFICES ASSUME ~disturbed', MaxFiles # 0 PROVE \A k \in Levels : Ringed(log', k)
      BY DEF RingInv, Ringed, FilesOf
    <3>2. QED
      BY <1>2, <1>3, <3>1, WriteRinged
  <2>6. QED
    BY <2>4, <2>5
<1>4. CASE Restart
  <2>1. disturbed' /\ faults' = faults /\ today' = today /\ pass' = pass /\ tar' = tar
        /\ log' = LogInit(log.dir)
    BY <1>4 DEF Restart
  <2>2. log'.dir = log.dir
    BY <1>1, <2>1, LogInitIs
  <2>3. QED
    BY <1>2, <2>1, <2>2 DEF RingInv, PassOK, Age
<1>5. CASE ~Restart /\ ~ \E l \in Levels : WriteLog(l)
  <2>1. PassOK' /\ Aged(log.dir, log'.dir) /\ log'.fds = log.fds /\ faults = 0
    BY <1>2, <1>5, ControlAges
  <2>2. disturbed' = disturbed
    BY <1>5, NotWritten
  <2>3. ASSUME ~disturbed', MaxFiles # 0, NEW l \in Levels PROVE Ringed(log', l)
    <3>1. Numbered(log) /\ Ringed(log, l)
      BY <2>1, <2>2, <2>3 DEF NumInv, RingInv
    <3>2. QED
      BY <1>1, <2>1, <2>3, <3>1, AgedRinged
  <2>4. RingInv'
    BY <2>3 DEF RingInv, Ringed, FilesOf
  <2>5. QED
    BY <2>1, <2>4
<1>6. QED
  BY <1>3, <1>4, <1>5

LEMMA RingAlways == Spec => [](RingInv /\ PassOK)
<1>1. Init => RingInv /\ PassOK
  BY RingInit
<1>2. KeptInv /\ NumInv /\ RingInv /\ PassOK /\ [Next]_vars => RingInv' /\ PassOK'
  BY RingNext
<1>3. QED
  BY <1>1, <1>2, KeptAlways, NumAlways, PTL DEF Spec

\* With no recycling nothing is removed by a line.
LEMMA NothingRecycled ==
  ASSUME NEW s, IsLog(s), MaxFiles = 0, NEW l \in Levels, today \in Nat,
         NEW t \in ShiftFd(s, l, None)
  PROVE  DOMAIN s.dir \subseteq DOMAIN t.dir
<1>1. ASSUME NEW u, IsLog(u), NEW v \in OpenFd(u, l, "none")
      PROVE  IsLog(v) /\ DOMAIN u.dir \subseteq DOMAIN v.dir
  <2>1. PICK gone : Opened(u, v, l, gone, "none")
    BY <1>1, OpenFdIs
  <2>2. v.max = 0
    BY <2>1 DEF Opened
  <2>3. gone = {} /\ v.dir = Remove(Added(u.dir, Name(l, today, u.fds[l].seq)), gone)
    BY <2>1, <2>2 DEF Opened
  <2>4. IsDir(u.dir) /\ u.fds[l].seq \in Nat
    BY <1>1 DEF IsLog, Fds
  <2> DEFINE name == Name(l, today, u.fds[l].seq)
             new == Added(u.dir, name)
             left == Remove(new, gone)
  <2>5. IsDir(new) /\ DOMAIN new = DOMAIN u.dir \cup {name}
    BY <2>4, AddedIs
  <2> HIDE DEF new
  <2>6. DOMAIN left = DOMAIN new \ gone
    BY <2>5, RemoveIs
  <2> HIDE DEF left
  <2>7. v.dir = left
    BY <2>3 DEF left, new
  <2>8. IsLog(v)
    BY <1>1, OpenShifts DEF Shifts
  <2>9. QED
    BY <2>3, <2>5, <2>6, <2>7, <2>8
<1>2. ASSUME NEW u, IsLog(u), NEW v \in OpenFd(Advanced(u, l), l, "none")
      PROVE  DOMAIN u.dir \subseteq DOMAIN v.dir
  <2>1. IsLog(Advanced(u, l)) /\ Advanced(u, l).dir = u.dir
    BY <1>2, NextShifts
  <2>2. QED
    BY <1>1, <1>2, <2>1
<1>3. ASSUME NEW u \in OpenFd(s, l, "none"), t = u \/ t \in OpenFd(Advanced(u, l), l, "none")
      PROVE  DOMAIN s.dir \subseteq DOMAIN t.dir
  BY <1>1, <1>2, <1>3
<1>4. QED
  BY <1>2, <1>3, ShiftWays DEF None

\* A line removes a file only when its level has used every number, and then one of the
\* earliest date: as long as nothing fails and no level has run out of numbers.
THEOREM OldestIsRecycled == Spec => OldestRecycled
<1> DEFINE Recycles == \A n \in DOMAIN log.dir \ DOMAIN log'.dir :
                         lines' # lines /\ ~disturbed' /\ faults' = 0 =>
                           /\ Cardinality(FilesOf(log.dir, n.level)) = MaxFiles
                           /\ \A k \in FilesOf(log.dir, n.level) : n.date <= k.date
<1>1. KeptInv /\ NumInv /\ RingInv /\ PassOK /\ [Next]_vars => [Recycles]_vars
  <2> SUFFICES ASSUME KeptInv, NumInv, RingInv, [Next]_vars,
                      NEW n \in DOMAIN log.dir \ DOMAIN log'.dir,
                      lines' # lines, ~disturbed', faults' = 0
               PROVE  /\ Cardinality(FilesOf(log.dir, n.level)) = MaxFiles
                      /\ \A k \in FilesOf(log.dir, n.level) : n.date <= k.date
    OBVIOUS
  <2>1. PICK l \in Levels : WriteLog(l)
    <3>1. CASE UNCHANGED vars
      BY <3>1 DEF vars
    <3>2. CASE Next
      BY <3>2 DEF Next, Restart, Tick, DoRemove, SortFilesToMap, TarDate, TarEnds,
                  ControlRestart
    <3>3. QED
      BY <3>1, <3>2
  <2>2. CASE MaxFiles # 0
    <3>1. /\ n \in FilesOf(log.dir, l) /\ Cardinality(FilesOf(log.dir, l)) = MaxFiles
          /\ \A k \in FilesOf(log.dir, l) : n.date <= k.date
      BY <2>1, <2>2, WriteRinged
    <3>2. n.level = l
      BY <3>1 DEF FilesOf
    <3>3. QED
      BY <3>1, <3>2
  <2>3. CASE MaxFiles = 0
    <3>1. IsLog(log) /\ today \in Nat /\ faults \in Nat
      BY LogFilesAssumption DEF KeptInv, Types, Dates
    <3>2. PICK fails \in Failures \X Failures : \E s \in ShiftFd(log, l, fails) :
             /\ DOMAIN log'.dir = DOMAIN s.dir
             /\ faults' = (IF fails = None THEN faults ELSE faults + 1)
      BY <2>1, Written
    <3>3. fails = None
      BY <3>1, <3>2
    <3>4. PICK s \in ShiftFd(log, l, None) : DOMAIN log'.dir = DOMAIN s.dir
      BY <3>2, <3>3
    <3>5. DOMAIN log.dir \subseteq DOMAIN s.dir
      BY <2>3, <3>1, NothingRecycled
    <3>6. QED
      BY <3>4, <3>5
  <2>4. QED
    BY <2>2, <2>3
<1>2. QED
  BY <1>1, KeptAlways, NumAlways, RingAlways, PTL DEF Spec, OldestRecycled

=============================================================================
