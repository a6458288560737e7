---------------------------- MODULE GuardProofs ----------------------------
(***********************************************************************************)
(* Who is protected, and by what: the system call table check for every            *)
(* well-formed image, the ptrace guard for any number of tasks, numbers and calls, *)
(* and `protect --comm' for any number of processes and size of pids[].            *)
(***********************************************************************************)
EXTENDS SyscallTable, PtraceGuard, ProtectCommand, FiniteSetTheorems, NaturalsInduction, WellFoundedInduction, TLAPS

-----------------------------------------------------------------------------
(* SyscallTable                                                              *)
\* The handler of read, and the labels of the image that are used.
Read(k) == k.handler[NR_read]
SearchFrom(k) == FirstNonZero(k.symbol._stext, k.symbol._text)
End(k) == FirstNonZero(k.symbol._etext, k.symbol._sinittext)

\* An entry is what the kernel was built with or was written since.
Entries == \A i \in Number : entry[i] \in Written \cup {kernel.handler[i]}

\* Nothing was written yet.
Original == \A i \in Number : entry[i] = kernel.handler[i]

\* The handlers lie within the bounds, the end included.
Bounded ==
    \A i \in Number : kernel.handler[i] # 0 =>
        ac_stext <= kernel.handler[i] /\ (ac_text_end # 0 => kernel.handler[i] <= ac_text_end)

\* The inductive invariant of SyscallTable.
TableInv ==
    /\ TableTypeOK /\ Entries
    /\ at # "ready" => ac_syscall_table = 0 /\ (~tampered => Original)
    /\ at = "find" => ac_stext = SearchFrom(kernel) /\ ac_etext = End(kernel) /\ Bounded
    /\ ac_syscall_table \in {0, kernel.table}
    /\ at = "ready" /\ ~tampered /\ kernel.probed[NR_read] /\ kernel.probed[NR_write]
         => ac_syscall_table = kernel.table
    /\ at = "ready" /\ ac_syscall_table # 0 =>
         ac_anchor = Read(kernel) /\ (~tampered => Bounded)

-----------------------------------------------------------------------------
\* The numbers of the calls.
LEMMA CallNumbers ==
    /\ NR_read \in Number /\ NR_write \in Number /\ Number \subseteq Nat /\ NR_read # NR_write
    /\ NR_syscalls \in Nat /\ \A i \in Number : i < NR_syscalls
BY TableAssumption, KernelAssumption DEF NR_read, NR_write, Number

\* The parts of an image.
LEMMA Parts ==
    ASSUME NEW k \in Kernel
    PROVE  /\ k.table \in Nat \ {0} /\ k.x32 \in Nat \ {0} /\ k.ibt \in BOOLEAN
           /\ k.handler \in [Number -> Nat] /\ k.probed \in [Number -> BOOLEAN]
           /\ k.text[1] \in Nat /\ k.text[2] \in Nat /\ k.text[2] - k.text[1] <= WINDOW
           /\ \A i \in Number : k.handler[i] = 0 \/ k.handler[i] \in k.text[1] .. k.text[2] - 1
           /\ Read(k) \in Nat \ {0} /\ k.handler[NR_write] \in Nat \ {0}
           /\ Read(k) \notin Written /\ \A i \in Number \ {NR_read} : k.handler[i] # Read(k)
           /\ \A m \in ModuleArea : m \cap k.text[1] .. k.text[2] - 1 = {}
           /\ k.table + NR_syscalls <= k.x32 \/ k.x32 + NR_syscalls <= k.table
           /\ Cardinality({i \in Number : k.handler[i] # 0}) >= MIN_VALID
<1>1. /\ k.text[1] \in Nat \ {0} /\ k.text[2] \in Nat \ {0}
      /\ k.handler \in [Number -> {0} \cup k.text[1] .. k.text[2] - 1]
  BY KernelAssumption, Zenon
<1>2. k.handler \in [Number -> Nat]
  BY <1>1
<1>3. \A i \in Number : k.handler[i] \in {0} \cup k.text[1] .. k.text[2] - 1
  BY <1>1
<1> QED BY <1>1, <1>2, <1>3, KernelAssumption, CallNumbers, Zenon DEF Read

\* Where the two tables are.
LEMMA Places ==
    ASSUME NEW k \in Kernel
    PROVE  /\ k.table \in Nat /\ k.table # 0 /\ k.x32 \in Nat
           /\ k.table + NR_syscalls <= k.x32 \/ k.x32 + NR_syscalls <= k.table
BY Parts, Zenon

\* And its labels: the start is not above a handler, the end not below one.
LEMMA Labels ==
    ASSUME NEW k \in Kernel
    PROVE  /\ SearchFrom(k) \in Nat /\ End(k) \in Nat /\ SearchFrom(k) <= k.text[1]
           /\ End(k) # 0 => End(k) >= k.text[2]
           /\ SearchFrom(k) # 0 => SearchFrom(k) + GENEROUS >= k.text[2]
           /\ \/ k.table \in SearchStart(k) .. SearchStart(k) + SCAN - 1
              \/ k.table \in Read(k) - SCAN + 1 .. Read(k)
           /\ SearchStart(k) = FirstNonZero(End(k), FirstNonZero(SearchFrom(k), Read(k)))
           /\ SearchStart(k) \in Nat
<1>1. /\ k.symbol._stext \in Nat /\ k.symbol._text \in Nat
      /\ k.symbol._etext \in Nat /\ k.symbol._sinittext \in Nat
  BY KernelAssumption, Zenon
<1>2. /\ k.symbol._stext <= k.text[1] /\ k.symbol._text <= k.text[1]
      /\ k.symbol._etext \notin 1 .. k.text[2] - 1 /\ k.symbol._sinittext \notin 1 .. k.text[2] - 1
      /\ \A st \in {k.symbol._stext, k.symbol._text} \ {0} : st + GENEROUS >= k.text[2]
      /\ k.table \in SearchStart(k) .. SearchStart(k) + SCAN - 1 \cup
                     Read(k) - SCAN + 1 .. Read(k)
  BY KernelAssumption, Zenon DEF Read
<1>0. Read(k) \in Nat /\ k.text[1] \in Nat /\ k.text[2] \in Nat
  BY Parts, Zenon
<1>3. SearchFrom(k) \in {k.symbol._stext, k.symbol._text} /\ End(k) \in {k.symbol._etext, k.symbol._sinittext}
  BY DEF SearchFrom, End, FirstNonZero
<1>4. SearchStart(k) = FirstNonZero(End(k), FirstNonZero(SearchFrom(k), Read(k)))
  BY DEF SearchStart, SearchFrom, End, Read
<1>5. SearchFrom(k) \in Nat /\ End(k) \in Nat /\ SearchFrom(k) <= k.text[1]
  BY <1>1, <1>2, <1>3
<1>6. SearchStart(k) \in Nat
  BY <1>0, <1>4, <1>5 DEF FirstNonZero
<1>7. End(k) # 0 => End(k) >= k.text[2]
  BY <1>0, <1>1, <1>2, <1>3
<1>8. SearchFrom(k) # 0 => SearchFrom(k) + GENEROUS >= k.text[2]
  BY <1>2, <1>3
<1> QED BY <1>2, <1>4, <1>5, <1>6, <1>7, <1>8

-----------------------------------------------------------------------------
\* What a word of the table reads as.
LEMMA TableWord ==
    ASSUME kernel \in Kernel, NEW i \in Number
    PROVE  Word(kernel.table + i) = entry[i]
<1>1. (kernel.table + i) - kernel.table = i
  BY Places, CallNumbers
<1> QED BY <1>1 DEF Word

\* A word that is not zero belongs to the table or to the beginning of the x32 table.
LEMMA SomeWord ==
    ASSUME kernel \in Kernel, NEW a \in Int, Word(a) # 0
    PROVE  \/ \E i \in Number : a = kernel.table + i /\ Word(a) = entry[i]
           \/ a = kernel.x32
           \/ a = kernel.x32 + 1 /\ Word(a) = kernel.handler[NR_write]
<1>1. CASE a - kernel.table \in Number
  <2>1. a = kernel.table + (a - kernel.table)
    BY Places
  <2> QED BY <1>1, <2>1 DEF Word
<1>2. CASE a - kernel.table \notin Number
  <2>1. a - kernel.x32 \in {NR_read, NR_write} /\ Word(a) = kernel.handler[a - kernel.x32]
    BY <1>2 DEF Word
  <2> QED BY <2>1, Places DEF NR_read, NR_write
<1> QED BY <1>1, <1>2

\* Two entries are too few: the x32 table is never taken for the table.
LEMMA SparseTable ==
    ASSUME kernel \in Kernel, NEW anchor
    PROVE  ~ac_table_plausible(kernel.x32, anchor)
<1>1. ASSUME NEW i \in Number, i \notin {NR_read, NR_write}
      PROVE  Word(kernel.x32 + i) = 0
  <2>1. (kernel.x32 + i) - kernel.table \notin Number /\ (kernel.x32 + i) - kernel.x32 = i
    BY Places, CallNumbers DEF Number
  <2> QED BY <1>1, <2>1 DEF Word
<1>2. Plausible(kernel.x32, anchor) \subseteq {NR_read, NR_write}
  BY <1>1 DEF Plausible, ac_plausible_handler
<1>3. IsFiniteSet({NR_read, NR_write}) /\ Cardinality({NR_read, NR_write}) = 2
  <2>1. IsFiniteSet({NR_read}) /\ Cardinality({NR_read}) = 1
    BY FS_Singleton, Zenon
  <2>2. {NR_read, NR_write} = {NR_read} \cup {NR_write} /\ NR_write \notin {NR_read}
    BY CallNumbers
  <2> QED BY <2>1, <2>2, FS_AddElement
<1>4. /\ Cardinality(Plausible(kernel.x32, anchor)) <= 2
      /\ Cardinality(Plausible(kernel.x32, anchor)) \in Nat
  BY <1>2, <1>3, FS_Subset, FS_CardinalityType
<1> QED BY <1>4, KernelAssumption, TableAssumption DEF ac_table_plausible

\* Nothing but the table is taken for it.
LEMMA OnlyTheTable ==
    ASSUME kernel \in Kernel, Entries, NEW a \in Int, Word(a) = Read(kernel),
           ac_table_plausible(a - NR_read, Read(kernel))
    PROVE  a = kernel.table
<1>1. Read(kernel) # 0 /\ Read(kernel) # kernel.handler[NR_write]
  BY Parts, CallNumbers, Zenon
<1>2. a # kernel.x32
  <2>1. kernel.x32 - NR_read = kernel.x32
    BY Places DEF NR_read
  <2> QED BY <2>1, SparseTable
<1>3. PICK i \in Number : a = kernel.table + i /\ Word(a) = entry[i]
  BY <1>1, <1>2, SomeWord
<1>4. entry[i] \in Written \cup {kernel.handler[i]} /\ entry[i] = Read(kernel)
  BY <1>3 DEF Entries
<1>5. i = NR_read
  <2>1. Read(kernel) \notin Written /\ \A j \in Number \ {NR_read} : kernel.handler[j] # Read(kernel)
    BY Parts, Zenon
  <2> QED BY <1>4, <2>1
<1> QED BY <1>3, <1>5, Places DEF NR_read

\* A handler of the image is plausible, whatever modules are there.
LEMMA HandlerPlausible ==
    ASSUME kernel \in Kernel, loaded \subseteq ModuleArea, NEW i \in Number, kernel.handler[i] # 0
    PROVE  /\ ac_plausible_handler(kernel.handler[i], Read(kernel))
           /\ ~ac_addr_in_module(kernel.handler[i])
           /\ kernel.handler[i] \in kernel.text[1] .. kernel.text[2] - 1
<1>1. kernel.handler[i] \in kernel.text[1] .. kernel.text[2] - 1
  BY Parts, Zenon
<1>2. Read(kernel) \in kernel.text[1] .. kernel.text[2] - 1
  BY Parts, CallNumbers, Zenon DEF Read
<1>3. ~ac_addr_in_module(kernel.handler[i])
  <2>1. \A m \in ModuleArea : m \cap kernel.text[1] .. kernel.text[2] - 1 = {}
    BY Parts, Zenon
  <2> QED BY <1>1, <2>1, Zenon DEF ac_addr_in_module
<1>4. kernel.text[1] \in Nat /\ kernel.text[2] \in Nat /\ kernel.text[2] - kernel.text[1] <= WINDOW
  BY Parts, Zenon
<1>5. /\ kernel.handler[i] > Read(kernel) - WINDOW
      /\ kernel.handler[i] < Read(kernel) + WINDOW
  BY <1>1, <1>2, <1>4, TableAssumption
<1> QED BY <1>1, <1>3, <1>5 DEF ac_plausible_handler

\* The table as it was built is plausible.
LEMMA TablePlausible ==
    ASSUME kernel \in Kernel, loaded \subseteq ModuleArea, Original
    PROVE  ac_table_plausible(kernel.table, Read(kernel))
<1> DEFINE there == {i \in Number : kernel.handler[i] # 0}
<1>1. there \subseteq Plausible(kernel.table, Read(kernel))
  <2> SUFFICES ASSUME NEW i \in Number, kernel.handler[i] # 0
               PROVE  ac_plausible_handler(Word(kernel.table + i), Read(kernel))
    BY DEF Plausible
  <2>1. Word(kernel.table + i) = kernel.handler[i]
    BY TableWord DEF Original
  <2> QED BY <2>1, HandlerPlausible
<1>2. IsFiniteSet(Number)
  BY FS_Interval, TableAssumption DEF Number
<1>3. IsFiniteSet(Plausible(kernel.table, Read(kernel)))
  BY <1>2, FS_Subset DEF Plausible
<1>4. IsFiniteSet(there) /\ Cardinality(there) <= Cardinality(Plausible(kernel.table, Read(kernel)))
  BY <1>1, <1>3, FS_Subset
<1>5. Cardinality(there) >= MIN_VALID
  BY Parts, Zenon
<1>6. Cardinality(there) \in Nat /\ Cardinality(Plausible(kernel.table, Read(kernel))) \in Nat
  BY <1>3, <1>4, FS_CardinalityType
<1> QED BY <1>4, <1>5, <1>6, TableAssumption DEF ac_table_plausible

-----------------------------------------------------------------------------
\* A nonempty set of numbers has a least one.
LEMMA LeastEntry ==
    ASSUME NEW S, S \subseteq Nat, S # {}
    PROVE  Min(S) \in S /\ \A y \in S : Min(S) <= y
<1> DEFINE Less == OpToRel(<, Nat)
<1>1. IsWellFoundedOn(Less, Nat)
  BY NatLessThanWellFounded, Zenon
<1>2. \A x, y \in Nat : y < x => <<y, x>> \in Less
  BY DEF OpToRel
<1> HIDE DEF Less
<1>3. PICK x \in S : \A y \in S : ~ (<<y, x>> \in Less)
  BY <1>1, WFMin, Zenon
<1>4. \A y \in S : ~ (y < x)
  BY <1>2, <1>3, Zenon
<1>5. \A y \in S : x <= y
  BY <1>4
<1> QED BY <1>5, Zenon DEF Min

\* And a greatest one, if it has a bound.
LEMMA GreatestEntry ==
    ASSUME NEW S, S \subseteq Nat, S # {}, NEW b \in Nat, \A y \in S : y <= b
    PROVE  Max(S) \in S /\ \A y \in S : y <= Max(S)
<1> DEFINE U == {n \in Nat : \A y \in S : y <= n}
<1>1. U \subseteq Nat /\ U # {}
  OBVIOUS
<1>2. PICK u : u = Min(U)
  OBVIOUS
<1>3. u \in U /\ \A n \in U : u <= n
  BY <1>1, <1>2, LeastEntry, Zenon
<1>4. u \in S
  <2> SUFFICES ASSUME u \notin S PROVE FALSE
    OBVIOUS
  <2>1. \A y \in S : y <= u - 1
    BY <1>3
  <2>2. PICK y \in S : y <= u - 1
    BY <2>1, Zenon
  <2>3. u - 1 \in Nat
    BY <1>3, <2>2
  <2>4. u - 1 \in U
    BY <2>1, <2>3
  <2> QED BY <1>3, <2>3, <2>4
<1>5. \A y \in S : u >= y
  BY <1>3
<1>6. Max(S) \in S /\ \A y \in S : Max(S) >= y
  BY <1>4, <1>5, Zenon DEF Max
<1> QED BY <1>6

\* Rounding to a page goes down, or up, and not below zero.
LEMMA Rounding ==
    ASSUME NEW a \in Nat
    PROVE  /\ RoundDown(a) \in Nat /\ RoundDown(a) <= a
           /\ RoundUp(a) \in Nat /\ a <= RoundUp(a)
<1>1. PAGE \in Nat /\ PAGE > 0
  BY TableAssumption
<1>2. ASSUME NEW c \in Nat PROVE c % PAGE \in 0 .. PAGE - 1 /\ c % PAGE <= c
  <2>1. c % PAGE \in 0 .. PAGE - 1
    BY <1>1
  <2>2. c < PAGE => c % PAGE = c
    BY <1>1
  <2> QED BY <1>1, <2>1, <2>2
<1>3. a + PAGE - 1 \in Nat
  BY <1>1
<1> QED BY <1>1, <1>2, <1>3 DEF RoundDown, RoundUp

\* The handler that a probe leads to.
LEMMA Looked ==
    ASSUME kernel \in Kernel, NEW i \in Number, kernel.handler[i] # 0
    PROVE  ac_normalize_func(ac_lookup(i)) = IF kernel.probed[i] THEN kernel.handler[i] ELSE 0
<1>1. kernel.handler[i] \in Nat
  <2>1. kernel.handler \in [Number -> Nat]
    BY Parts, Zenon
  <2> QED BY <2>1
<1>2. CASE ~kernel.probed[i]
  BY <1>2 DEF ac_lookup, ac_normalize_func
<1>3. CASE kernel.probed[i] /\ kernel.ibt
  <2>1. ac_lookup(i) = kernel.handler[i] + 1
    BY <1>3 DEF ac_lookup
  <2>2. (kernel.handler[i] + 1) - 1 = kernel.handler[i] /\ kernel.handler[i] + 1 # 0
    BY <1>1
  <2>3. ac_normalize_func(kernel.handler[i] + 1) = kernel.handler[i]
    BY <1>3, <2>2 DEF ac_normalize_func
  <2> QED BY <1>3, <2>1, <2>3
<1>4. CASE kernel.probed[i] /\ ~kernel.ibt
  BY <1>1, <1>4 DEF ac_lookup, ac_normalize_func
<1> QED BY <1>2, <1>3, <1>4

\* The bounds that are derived from plausible entries are numbers, and have them in between.
LEMMA Derived ==
    ASSUME TableInv, NEW b \in Int, ac_derive_bounds(b, Read(kernel))
    PROVE  /\ ac_stext' \in Nat /\ ac_text_end' \in Nat
           /\ ac_stext' = ac_stext \/ \A i \in Plausible(b, Read(kernel)) : ac_stext' <= Word(b + i)
           /\ ac_text_end' = ac_text_end \/ \A i \in Plausible(b, Read(kernel)) : Word(b + i) <= ac_text_end'
<1> DEFINE e == {Word(b + i) : i \in Plausible(b, Read(kernel))}
<1>0. ac_stext \in Nat /\ ac_text_end \in Nat /\ kernel \in Kernel
  BY DEF TableInv, TableTypeOK
<1>1. \A a \in Int : Word(a) \in Nat
  <2>1. entry \in [Number -> Nat] /\ kernel.handler \in [Number -> Nat]
    BY <1>0, Parts, Zenon DEF TableInv, TableTypeOK
  <2> QED BY <2>1, CallNumbers, Zenon DEF Word
<1>2. \A i \in Number : b + i \in Int
  BY CallNumbers
<1>3. Read(kernel) + WINDOW \in Nat
  <2>1. Read(kernel) \in Nat
    BY <1>0, Parts, Zenon
  <2> QED BY <2>1, TableAssumption
<1>4. \A y \in e : y \in Nat /\ y <= Read(kernel) + WINDOW
  BY <1>1, <1>2, <1>3 DEF Plausible, ac_plausible_handler
<1>5. \A i \in Plausible(b, Read(kernel)) : Word(b + i) \in e
  OBVIOUS
<1>6. /\ ac_stext' = IF ac_stext = 0 /\ e # {} THEN RoundDown(Min(e)) ELSE ac_stext
      /\ ac_text_end' = IF ac_text_end = 0 /\ e # {} THEN RoundUp(Max(e)) ELSE ac_text_end
  BY DEF ac_derive_bounds
<1> HIDE DEF e
<1>7. CASE e = {}
  BY <1>0, <1>6, <1>7
<1>8. CASE e # {}
  <2>1. Min(e) \in e /\ \A y \in e : Min(e) <= y
    BY <1>4, <1>8, LeastEntry
  <2>2. Max(e) \in e /\ \A y \in e : y <= Max(e)
    BY <1>3, <1>4, <1>8, GreatestEntry
  <2>3. Min(e) \in Nat /\ Max(e) \in Nat
    BY <1>4, <2>1, <2>2
  <2>4. /\ RoundDown(Min(e)) \in Nat /\ RoundDown(Min(e)) <= Min(e)
        /\ RoundUp(Max(e)) \in Nat /\ Max(e) <= RoundUp(Max(e))
    BY <2>3, Rounding
  <2>5. \A y \in e : RoundDown(Min(e)) <= y /\ y <= RoundUp(Max(e))
    BY <1>4, <2>1, <2>2, <2>3, <2>4
  <2> QED BY <1>0, <1>5, <1>6, <1>8, <2>4, <2>5
<1> QED BY <1>7, <1>8

-----------------------------------------------------------------------------
(* One lemma for each action.                                                *)

\* ac_resolve_text_bounds(): labels that were found have the handlers between them.
LEMMA ResolveStep == TableInv /\ ac_resolve_text_bounds => TableInv'
<1> SUFFICES ASSUME TableInv, ac_resolve_text_bounds PROVE TableInv'
  OBVIOUS
<1>1. /\ kernel \in Kernel /\ TableTypeOK /\ Entries /\ at = "bounds"
      /\ ac_syscall_table = 0 /\ (~tampered => Original)
  BY DEF TableInv, TableTypeOK, ac_resolve_text_bounds
<1>2. /\ ac_stext' = SearchFrom(kernel) /\ ac_etext' = End(kernel) /\ at' = "find"
      /\ ac_text_end' = IF End(kernel) # 0 THEN End(kernel)
                        ELSE IF SearchFrom(kernel) # 0 THEN SearchFrom(kernel) + GENEROUS ELSE 0
      /\ UNCHANGED <<kernel, entry, loaded, ac_anchor, ac_syscall_table, ac_last_hook_count, tampered>>
  BY DEF ac_resolve_text_bounds, SearchFrom, End
<1>3. /\ SearchFrom(kernel) \in Nat /\ End(kernel) \in Nat /\ SearchFrom(kernel) <= kernel.text[1]
      /\ End(kernel) # 0 => End(kernel) >= kernel.text[2]
      /\ SearchFrom(kernel) # 0 => SearchFrom(kernel) + GENEROUS >= kernel.text[2]
  BY <1>1, Labels
<1>4. ac_text_end' \in Nat /\ (ac_text_end' # 0 => kernel.text[2] <= ac_text_end')
  BY <1>2, <1>3, TableAssumption
<1>5. kernel.text[1] \in Nat /\ kernel.text[2] \in Nat
  BY <1>1, Parts, Zenon
<1>6. Bounded'
  <2> SUFFICES ASSUME NEW i \in Number, kernel.handler[i] # 0
               PROVE  /\ SearchFrom(kernel) <= kernel.handler[i]
                      /\ ac_text_end' # 0 => kernel.handler[i] <= ac_text_end'
    BY <1>2 DEF Bounded
  <2>1. kernel.handler[i] \in kernel.text[1] .. kernel.text[2] - 1
    BY <1>1, Parts, Zenon
  <2> QED BY <1>3, <1>4, <1>5, <2>1
<1>7. TableTypeOK'
  BY <1>1, <1>2, <1>3, <1>4, Zenon DEF TableTypeOK
<1>8. (ac_stext = SearchFrom(kernel) /\ ac_etext = End(kernel))'
  BY <1>2 DEF SearchFrom, End
<1>9. Entries' /\ (~tampered => Original)'
  BY <1>1, <1>2 DEF Entries, Original
<1> QED BY <1>1, <1>2, <1>6, <1>7, <1>8, <1>9 DEF TableInv

\* What the search accepts is the table, and it accepts the table as it was built.
LEMMA Accepted ==
    ASSUME TableInv, NEW area, area \subseteq Int
    PROVE  /\ Candidates(area, Read(kernel), kernel.handler[NR_write]) \subseteq {kernel.table}
           /\ Original /\ kernel.table \in area =>
                kernel.table \in Candidates(area, Read(kernel), kernel.handler[NR_write])
<1>1. kernel \in Kernel /\ Entries /\ loaded \subseteq ModuleArea
  BY DEF TableInv, TableTypeOK
<1>2. Candidates(area, Read(kernel), kernel.handler[NR_write]) \subseteq {kernel.table}
  BY <1>1, OnlyTheTable, Zenon DEF Candidates
<1>3. ASSUME Original, kernel.table \in area
      PROVE  kernel.table \in Candidates(area, Read(kernel), kernel.handler[NR_write])
  <2>1. kernel.table + NR_read = kernel.table /\ kernel.table - NR_read = kernel.table
    BY <1>1, Places DEF NR_read
  <2>2. Word(kernel.table) = Read(kernel)
    BY <1>1, <1>3, <2>1, TableWord, CallNumbers DEF Original, Read
  <2>3. Word(kernel.table + NR_write) = kernel.handler[NR_write]
    BY <1>1, <1>3, TableWord, CallNumbers DEF Original
  <2>4. ac_table_plausible(kernel.table, Read(kernel))
    BY <1>1, <1>3, TablePlausible
  <2> QED BY <1>3, <2>1, <2>2, <2>3, <2>4 DEF Candidates
<1> QED BY <1>2, <1>3

\* ac_find_syscall_table(), with the bounds it derives.
LEMMA FindStep == TableInv /\ ac_find_syscall_table => TableInv'
<1> SUFFICES ASSUME TableInv, ac_find_syscall_table PROVE TableInv'
  OBVIOUS
<1>0. /\ kernel \in Kernel /\ TableTypeOK /\ Entries /\ at = "find"
      /\ ac_syscall_table = 0 /\ (~tampered => Original)
      /\ ac_stext = SearchFrom(kernel) /\ ac_etext = End(kernel) /\ Bounded
  BY DEF TableInv, TableTypeOK, ac_find_syscall_table
<1>1. PICK rh : rh = ac_normalize_func(ac_lookup(NR_read))
  OBVIOUS
<1>2. PICK wh : wh = ac_normalize_func(ac_lookup(NR_write))
  OBVIOUS
<1>3. PICK lo : lo = FirstNonZero(ac_etext, FirstNonZero(ac_stext, rh))
  OBVIOUS
<1>4. PICK forward : forward = Candidates(lo .. lo + SCAN - 1, rh, wh)
  OBVIOUS
<1>5. PICK backward : backward = Candidates(rh - SCAN + 1 .. rh, rh, wh)
  OBVIOUS
<1>6. PICK base : base = (IF forward # {} THEN Min(forward) ELSE Max(backward)) - NR_read
  OBVIOUS
<1>7. /\ \/ /\ rh # 0 /\ wh # 0 /\ forward \cup backward # {}
            /\ ac_syscall_table' = base /\ ac_anchor' = rh
            /\ ac_derive_bounds(base, rh)
         \/ /\ rh = 0 \/ wh = 0 \/ forward \cup backward = {}
            /\ UNCHANGED <<ac_syscall_table, ac_anchor, ac_stext, ac_text_end>>
      /\ at' = "ready"
      /\ UNCHANGED <<kernel, entry, loaded, ac_etext, ac_last_hook_count, tampered>>
  BY <1>1, <1>2, <1>3, <1>4, <1>5, <1>6, ZenonT(60) DEF ac_find_syscall_table
<1>8. /\ rh = IF kernel.probed[NR_read] THEN Read(kernel) ELSE 0
      /\ wh = IF kernel.probed[NR_write] THEN kernel.handler[NR_write] ELSE 0
  <2>1. kernel.handler[NR_read] # 0 /\ kernel.handler[NR_write] # 0
    BY <1>0, Parts, Zenon DEF Read
  <2> QED BY <1>0, <1>1, <1>2, <2>1, Looked, CallNumbers DEF Read
<1>9. Entries'
  BY <1>0, <1>7 DEF Entries
<1>10. CASE rh # 0 /\ wh # 0
  <2>1. rh = Read(kernel) /\ wh = kernel.handler[NR_write]
    BY <1>8, <1>10
  <2>2. Read(kernel) \in Nat
    BY <1>0, Parts, Zenon
  <2>3. lo = SearchStart(kernel) /\ lo \in Nat
    BY <1>0, <1>3, <2>1, Labels
  <2>4. lo .. lo + SCAN - 1 \subseteq Int /\ rh - SCAN + 1 .. rh \subseteq Int
    BY <2>1, <2>2, <2>3, TableAssumption
  <2>5. forward \subseteq {kernel.table} /\ backward \subseteq {kernel.table}
    BY <1>4, <1>5, <2>1, <2>4, Accepted, Zenon
  <2>6. Original => kernel.table \in forward \cup backward
    <3>1. kernel.table \in lo .. lo + SCAN - 1 \/ kernel.table \in rh - SCAN + 1 .. rh
      BY <1>0, <2>1, <2>3, Labels, Zenon
    <3> QED BY <1>4, <1>5, <2>1, <2>4, <3>1, Accepted, Zenon
  <2>7. CASE forward \cup backward = {}
    <3>1. UNCHANGED <<ac_syscall_table, ac_anchor, ac_stext, ac_text_end>> /\ tampered
      BY <1>0, <1>7, <2>6, <2>7, Zenon
    <3>2. TableTypeOK'
      BY <1>0, <1>7, <3>1, Zenon DEF TableTypeOK
    <3> QED BY <1>0, <1>7, <1>9, <3>1, <3>2, Zenon DEF TableInv
  <2>8. CASE forward \cup backward # {}
    <3>1. base = kernel.table
      <4>1. Min({kernel.table}) = kernel.table /\ Max({kernel.table}) = kernel.table
        <5>1. kernel.table \in Nat
          BY <1>0, Places
        <5> QED BY <5>1 DEF Min, Max
      <4>2. (IF forward # {} THEN Min(forward) ELSE Max(backward)) = kernel.table
        BY <2>5, <2>8, <4>1
      <4> QED BY <1>0, <1>6, <4>2, Places DEF NR_read
    <3>2. kernel.table \in Int
      BY <1>0, Places
    <3>3. /\ ac_syscall_table' = kernel.table /\ ac_anchor' = Read(kernel)
          /\ ac_derive_bounds(kernel.table, Read(kernel))
      BY <1>7, <1>10, <2>1, <2>8, <3>1, Zenon
    <3>4. /\ ac_stext' \in Nat /\ ac_text_end' \in Nat
          /\ \/ ac_stext' = ac_stext
             \/ \A i \in Plausible(kernel.table, Read(kernel)) : ac_stext' <= Word(kernel.table + i)
          /\ \/ ac_text_end' = ac_text_end
             \/ \A i \in Plausible(kernel.table, Read(kernel)) : Word(kernel.table + i) <= ac_text_end'
      BY <3>2, <3>3, Derived, Zenon
    <3>5. TableTypeOK'
      <4>1. ac_syscall_table' \in Nat /\ ac_anchor' \in Nat
        BY <1>0, <2>2, <3>3, Places, Zenon
      <4> QED BY <1>0, <1>7, <3>4, <4>1 DEF TableTypeOK
    <3>6. (~tampered => Bounded)'
      <4> SUFFICES ASSUME ~tampered, NEW i \in Number, kernel.handler[i] # 0
                   PROVE  /\ ac_stext' <= kernel.handler[i]
                          /\ ac_text_end' # 0 => kernel.handler[i] <= ac_text_end'
        BY <1>7 DEF Bounded
      <4>1. Word(kernel.table + i) = kernel.handler[i]
        BY <1>0, TableWord, Zenon DEF Original
      <4>2. i \in Plausible(kernel.table, Read(kernel))
        BY <1>0, <4>1, HandlerPlausible, ZenonT(60) DEF Plausible, TableTypeOK
      <4> QED BY <1>0, <3>4, <4>1, <4>2, Zenon DEF Bounded
    <3>7. (ac_anchor = Read(kernel))' /\ (ac_syscall_table = kernel.table)'
      BY <1>7, <3>3 DEF Read
    <3> QED BY <1>7, <1>9, <3>5, <3>6, <3>7, ZenonT(60) DEF TableInv
  <2> QED BY <2>7, <2>8
<1>11. CASE rh = 0 \/ wh = 0
  <2>1. UNCHANGED <<ac_syscall_table, ac_anchor, ac_stext, ac_text_end>>
    BY <1>7, <1>11
  <2>2. ~(kernel.probed[NR_read] /\ kernel.probed[NR_write])
    <3>1. Read(kernel) # 0 /\ kernel.handler[NR_write] # 0
      BY <1>0, Parts, Zenon
    <3> QED BY <1>8, <1>11, <3>1
  <2>3. TableTypeOK'
    BY <1>0, <1>7, <2>1, Zenon DEF TableTypeOK
  <2> QED BY <1>0, <1>7, <1>9, <2>1, <2>2, <2>3 DEF TableInv
<1> QED BY <1>10, <1>11, ZenonT(60)

\* CHECK_SYSCALLS counts at most every entry.
LEMMA CheckStep == TableInv /\ ac_check_syscalls => TableInv'
<1> SUFFICES ASSUME TableInv, ac_check_syscalls PROVE TableInv'
  OBVIOUS
<1>1. UNCHANGED <<kernel, entry, loaded, bounds, ac_anchor, ac_syscall_table, at, tampered>>
  BY DEF ac_check_syscalls
<1>2. IsFiniteSet(Number) /\ Cardinality(Number) = NR_syscalls
  <2>1. 0 \in Int /\ NR_syscalls - 1 \in Int /\ ~(0 > NR_syscalls - 1)
        /\ (NR_syscalls - 1) - 0 + 1 = NR_syscalls
    BY TableAssumption
  <2> QED BY <2>1, FS_Interval DEF Number
<1>3. ac_last_hook_count' \in 0 .. NR_syscalls
  <2>1. Bad \subseteq Number
    BY DEF Bad
  <2>2. IsFiniteSet(Bad) /\ Cardinality(Bad) <= NR_syscalls
    BY <1>2, <2>1, FS_Subset
  <2>3. Cardinality(Bad) \in Nat
    BY <2>2, FS_CardinalityType, Zenon
  <2> QED BY <2>2, <2>3, TableAssumption DEF ac_check_syscalls
<1>4. TableTypeOK'
  BY <1>1, <1>3, Zenon DEF TableInv, TableTypeOK, bounds
<1> QED BY <1>1, <1>4 DEF TableInv, Entries, Original, Bounded, SearchFrom, End, Read, bounds

\* Modules come and go; the invariant speaks of none.
LEMMA ModuleStep ==
    ASSUME TableInv, NEW m \in ModuleArea, LoadModule(m) \/ UnloadModule(m)
    PROVE  TableInv'
<1>1. UNCHANGED <<kernel, entry, bounds, ac_anchor, ac_syscall_table, ac_last_hook_count, at, tampered>>
  BY Zenon DEF LoadModule, UnloadModule
<1>2. loaded' \subseteq ModuleArea
  BY Zenon DEF LoadModule, UnloadModule, TableInv, TableTypeOK
<1>3. TableTypeOK'
  BY <1>1, <1>2, Zenon DEF TableInv, TableTypeOK, bounds
<1> QED BY <1>1, <1>3 DEF TableInv, Entries, Original, Bounded, SearchFrom, End, Read, bounds

\* An entry is written.
LEMMA WriteStep ==
    ASSUME TableInv, NEW i \in Number, NEW e \in Written \cup {kernel.handler[i]}, WriteEntry(i, e)
    PROVE  TableInv'
<1>0. kernel \in Kernel /\ entry \in [Number -> Nat] /\ Entries /\ tampered \in BOOLEAN
  BY DEF TableInv, TableTypeOK
<1>1. /\ UNCHANGED <<kernel, loaded, bounds, ac_anchor, ac_syscall_table, ac_last_hook_count, at>>
      /\ entry' = [entry EXCEPT ![i] = e]
      /\ tampered' = (tampered \/ (at # "ready" /\ e # kernel.handler[i]))
  BY DEF WriteEntry
<1>2. tampered' \in BOOLEAN
  BY <1>1, Zenon
<1>3. e \in Nat
  <2>1. kernel.handler \in [Number -> Nat]
    BY <1>0, Parts, Zenon
  <2> QED BY <2>1, KernelAssumption
<1>4. TableTypeOK'
  BY <1>0, <1>1, <1>2, <1>3 DEF TableInv, TableTypeOK, bounds
<1>5. Entries'
  BY <1>0, <1>1, Zenon DEF Entries
<1>6. tampered => tampered'
  BY <1>1, Zenon
<1>7. at # "ready" /\ ~tampered' => Original'
  <2> SUFFICES ASSUME at # "ready", ~tampered' PROVE Original'
    OBVIOUS
  <2>1. ~tampered /\ e = kernel.handler[i]
    BY <1>1, Zenon
  <2>2. Original
    BY <2>1, Zenon DEF TableInv
  <2> QED BY <1>0, <1>1, <2>1, <2>2, Zenon DEF Original
<1>8. Bounded' <=> Bounded
  BY <1>1 DEF Bounded, bounds
<1> QED BY <1>1, <1>4, <1>5, <1>6, <1>7, <1>8, Zenon DEF TableInv, SearchFrom, End, Read, bounds

\* Before the module is loaded every entry is original.
LEMMA TableStart == TableInit => TableInv
<1> SUFFICES ASSUME TableInit PROVE TableInv
  OBVIOUS
<1>1. kernel \in Kernel /\ entry = [i \in Number |-> kernel.handler[i]]
  BY DEF TableInit
<1>2. kernel.handler \in [Number -> Nat]
  BY <1>1, Parts, Zenon
<1>3. entry \in [Number -> Nat] /\ 0 \in 0 .. NR_syscalls
  BY <1>1, <1>2, TableAssumption
<1>4. tampered \in BOOLEAN
  BY Zenon DEF TableInit
<1>5. TableTypeOK
  BY <1>1, <1>3, <1>4 DEF TableInit, TableTypeOK
<1> QED BY <1>1, <1>5 DEF TableInit, TableInv, Entries, Original

\* The invariant is inductive.
LEMMA TableStep == TableInv /\ [TableNext]_tableVars => TableInv'
<1> SUFFICES ASSUME TableInv, [TableNext]_tableVars PROVE TableInv'
  BY Zenon
<1>1. CASE UNCHANGED tableVars
  BY <1>1 DEF tableVars, TableInv, TableTypeOK, Entries, Original, Bounded, SearchFrom, End, Read, bounds
<1>2. CASE \E m \in ModuleArea : LoadModule(m) \/ UnloadModule(m)
  BY <1>2, ModuleStep
<1>3. CASE \E i \in Number : \E e \in Written \cup {kernel.handler[i]} : WriteEntry(i, e)
  BY <1>3, WriteStep
<1> QED BY <1>1, <1>2, <1>3, ResolveStep, FindStep, CheckStep DEF TableNext

\* What a check says of an entry.
LEMMA TableInvRight == TableInv => CheckIsRight
<1> SUFFICES ASSUME TableInv, at = "ready", ac_syscall_table # 0, NEW i \in Number
             PROVE  /\ (\E m \in loaded : entry[i] \in m) => i \in Bad
                    /\ ~tampered /\ entry[i] = kernel.handler[i] /\ entry[i] # ac_text_end => i \notin Bad
  BY DEF CheckIsRight
<1>1. /\ kernel \in Kernel /\ loaded \subseteq ModuleArea /\ ac_syscall_table = kernel.table
      /\ ac_anchor = Read(kernel) /\ (~tampered => Bounded)
      /\ ac_stext \in Nat /\ ac_text_end \in Nat
  BY DEF TableInv, TableTypeOK
<1>2. Word(ac_syscall_table + i) = entry[i]
  BY <1>1, TableWord
<1>3. ASSUME NEW m \in loaded, entry[i] \in m PROVE i \in Bad
  <2>1. entry[i] # 0
    BY <1>1, <1>3, KernelAssumption
  <2>2. ac_addr_in_module(entry[i])
    BY <1>3, Zenon DEF ac_addr_in_module
  <2>3. ac_entry_bad(entry[i])
    BY <2>2, Zenon DEF ac_entry_bad, ac_in_core_text, ac_plausible_handler
  <2> QED BY <1>2, <2>1, <2>3, Zenon DEF Bad
<1>4. ASSUME ~tampered, entry[i] = kernel.handler[i], entry[i] # ac_text_end PROVE i \notin Bad
  <2>1. CASE entry[i] = 0
    BY <1>2, <2>1 DEF Bad
  <2>2. CASE entry[i] # 0
    <3>1. /\ ac_plausible_handler(entry[i], Read(kernel)) /\ ~ac_addr_in_module(entry[i])
          /\ entry[i] \in kernel.text[1] .. kernel.text[2] - 1
      BY <1>1, <1>4, <2>2, HandlerPlausible, Zenon
    <3>2. entry[i] \in Nat
      <4>1. kernel.handler \in [Number -> Nat]
        BY <1>1, Parts, Zenon
      <4> QED BY <1>4, <4>1
    <3>3. ac_stext # 0 /\ ac_text_end # 0 => entry[i] >= ac_stext /\ entry[i] < ac_text_end
      BY <1>1, <1>4, <2>2, <3>2 DEF Bounded
    <3>4. ~ac_entry_bad(entry[i])
      BY <1>1, <3>1, <3>3, Zenon DEF ac_entry_bad, ac_in_core_text
    <3> QED BY <1>2, <3>4, Zenon DEF Bad
  <2> QED BY <2>1, <2>2
<1> QED BY <1>3, <1>4

\* The search finds the table and nothing else, and it does find a table whose handlers
\* could be probed, whichever labels are missing (ac_find_syscall_table()).
THEOREM TableFound == TableSpec => []FoundIsTheTable
<1>1. TableInv => FoundIsTheTable
  BY DEF TableInv, FoundIsTheTable
<1> QED BY <1>1, TableStart, TableStep, PTL DEF TableSpec

\* A check reports the entries that lead into live modules and no original one, but for
\* the one that starts the page its end was rounded to (ac_check_syscalls()).
THEOREM CheckRight == TableSpec => []CheckIsRight
BY TableStart, TableStep, TableInvRight, PTL DEF TableSpec

-----------------------------------------------------------------------------
(* PtraceGuard                                                               *)
\* A number belongs to one task at a time; what is registered has been a task; what
\* was registered since a call began still is.
Numbers ==
    /\ IsFiniteSet(members)
    /\ \A t, u \in Task : Attached(t) /\ Attached(u) /\ pidof[t] = pidof[u] => t = u
    /\ \A t \in members : life[t] # "unborn"
    /\ \A t \in Task : since[t] \subseteq members

\* The arguments of t's call concern x.
Concerns(t, x) ==
    IF Args(t).request = "traceme" THEN x = t
    ELSE Attached(x) /\ pidof[x] = Args(t).target

\* Of the tasks registered since the call began, the handler has found the one the
\* call concerns, and no call that concerns one gets past it.
Screened ==
    \A t \in Task, x \in Task :
        x \in since[t] /\ Concerns(t, x) =>
            /\ call[t].at = "check" => call[t].found = x
            /\ call[t].at = "body" => Args(t).request = "invalid"

\* Until the kernel's ptrace() has run, a call has taken effect on nothing.
Began == \A t \in Task : call[t].at # "user" => effect[t] = NULL

\* Every queued kill was earned, by a call that is past its check.
Earned ==
    \A t \in Task :
        /\ ac_wq[t] > 0 => t \in offenders
        /\ ac_wq[t] <= calls
        /\ call[t].at \in {"pre", "check"} => ac_wq[t] < calls

\* The inductive invariant of PtraceGuard.
GuardInv == RegisteredIsNotTraced /\ KilledAreOffenders /\ Numbers /\ Screened /\ Began /\ Earned

\* No call has been made when the module is loaded.
LEMMA GuardInitInv == Init => GuardInv
<1> SUFFICES ASSUME Init PROVE GuardInv
  OBVIOUS
<1> USE GuardAssumption DEF Init, NoFrame, NoArgs, NotInCall, Abi
<1>1. KilledAreOffenders
  <2>1. ac_policy \in BOOLEAN
    BY Zenon DEF Init
  <2>2. Cardinality(members) = 0
    BY FS_EmptySet, Zenon
  <2> QED
    BY <2>1, <2>2 DEF KilledAreOffenders, TypeOK
<1>2. RegisteredIsNotTraced
  BY Zenon DEF RegisteredIsNotTraced
<1>3. Numbers
  BY FS_EmptySet, Zenon DEF Numbers, Attached
<1>4. Screened /\ Began /\ Earned
  BY DEF Screened, Began, Earned
<1> QED
  BY <1>1, <1>2, <1>3, <1>4, Zenon DEF GuardInv

\* A call starts with what is registered now, and has taken effect on nothing.
LEMMA EnterInv ==
  ASSUME GuardInv, NEW t \in Task, NEW abi \in Abi, NEW q \in {"attach", "traceme"},
         NEW k \in Pid \cup {NULL}, Enter(t, abi, q, k)
  PROVE  GuardInv'
<1> USE DEF Enter, procs
<1>1. KilledAreOffenders'
  <2>1. ac_policy' \in BOOLEAN
    BY DEF KilledAreOffenders, TypeOK, GuardInv
  <2>2. frame' \in [Task -> [Abi -> [request : {"none", "attach", "traceme", "invalid"},
                                  target : Pid \cup {NULL}]]]
    BY DEF KilledAreOffenders, TypeOK, NoFrame, NoArgs, GuardInv
  <2>3. calls' \in 0 .. MaxCalls
    BY GuardAssumption DEF KilledAreOffenders, TypeOK, GuardInv
  <2>4. call' \in [Task -> [at : {"user", "pre", "check", "body"}, abi : Abi,
                          found : Task \cup {NULL}]]
    BY Zenon DEF KilledAreOffenders, TypeOK, NotInCall, GuardInv
  <2>5. since' \in [Task -> SUBSET Task] /\ effect' \in [Task -> Task \cup {NULL}]
    BY DEF KilledAreOffenders, TypeOK, GuardInv
  <2> QED
    BY <2>1, <2>2, <2>3, <2>4, <2>5, Zenon DEF KilledAreOffenders, TypeOK, GuardInv
<1>2. RegisteredIsNotTraced'
  BY DEF RegisteredIsNotTraced, KilledAreOffenders, TypeOK, NotInCall, GuardInv
<1>3. Numbers'
  BY DEF Numbers, KilledAreOffenders, TypeOK, Attached, GuardInv
<1>4. Screened'
  <2> SUFFICES ASSUME NEW u \in Task, NEW x \in Task, x \in since'[u], Concerns(u, x)'
               PROVE  /\ call'[u].at = "check" => call'[u].found = x
                      /\ call'[u].at = "body" => Args(u).request' = "invalid"
    BY DEF Screened, GuardInv
  <2>1. CASE u = t
    BY <2>1, ZenonT(60) DEF KilledAreOffenders, TypeOK, NotInCall, GuardInv
  <2>2. CASE u # t
    <3>1. /\ call'[u] = call[u] /\ frame'[u] = frame[u] /\ since'[u] = since[u]
      BY <2>2 DEF KilledAreOffenders, TypeOK, GuardInv
    <3> QED
      BY <3>1 DEF Screened, Concerns, Args, Attached, GuardInv
  <2> QED
    BY <2>1, <2>2
<1>5. Earned' /\ Began'
  BY DEF Earned, Began, KilledAreOffenders, TypeOK, NotInCall, GuardInv
<1> QED
  BY <1>1, <1>2, <1>3, <1>4, <1>5, Zenon DEF GuardInv

\* The handler finds what the call concerns, since a number leads to one task.
LEMMA PreFindInv ==
  ASSUME GuardInv, NEW t \in Task, PreFind(t)
  PROVE  GuardInv'
<1> USE DEF procs
<1>1. /\ \A u \in Task : u # t => call'[u] = call[u]
      /\ call'[t].at \in {"check", "body"} /\ call'[t].abi = call[t].abi
      /\ call' \in [Task -> [at : {"user", "pre", "check", "body"}, abi : Abi,
                             found : Task \cup {NULL}]]
  <2> DEFINE Calls == [Task -> [at : {"user", "pre", "check", "body"}, abi : Abi,
                                found : Task \cup {NULL}]]
  <2>0. call \in Calls
    BY Zenon DEF KilledAreOffenders, TypeOK, GuardInv
  <2>1. CASE call' = [call EXCEPT ![t].at = "body"]
    BY <2>0, <2>1
  <2>2. CASE \E x \in Task : call' = [call EXCEPT ![t].at = "check", ![t].found = x]
    <3> DEFINE checked == [call EXCEPT ![t].at = "check"]
    <3>1. PICK x \in Task : call' = [checked EXCEPT ![t].found = x]
      BY <2>2, Zenon
    <3>2. /\ checked \in Calls /\ checked[t].at = "check" /\ checked[t].abi = call[t].abi
          /\ \A u \in Task : u # t => checked[u] = call[u]
      BY <2>0
    <3> HIDE DEF checked
    <3> QED
      BY <3>1, <3>2
  <2> QED
    BY <2>1, <2>2 DEF PreFind, Found
<1>2. KilledAreOffenders'
  <2>1. ac_policy' \in BOOLEAN
    BY DEF PreFind, KilledAreOffenders, TypeOK, GuardInv
  <2> QED
    BY <1>1, <2>1 DEF PreFind, KilledAreOffenders, TypeOK, GuardInv
<1>3. RegisteredIsNotTraced'
  BY <1>1 DEF PreFind, RegisteredIsNotTraced, GuardInv
<1>4. Numbers'
  BY Zenon DEF PreFind, Numbers, Attached, GuardInv
<1>5. Screened'
  <2> SUFFICES ASSUME NEW u \in Task, NEW x \in Task, x \in since[u], Concerns(u, x)'
               PROVE  /\ call'[u].at = "check" => call'[u].found = x
                      /\ call'[u].at = "body" => Args(u).request' = "invalid"
    BY ZenonT(60) DEF PreFind, Screened, GuardInv
  <2>1. Concerns(u, x) /\ Args(u).request' = Args(u).request
    BY <1>1, Zenon DEF PreFind, Concerns, Args, Attached
  <2>2. CASE u = t
    BY <1>1, <2>1, <2>2 DEF PreFind, Concerns, Found, Numbers, KilledAreOffenders, TypeOK, GuardInv
  <2>3. CASE u # t
    BY <1>1, <2>1, <2>3 DEF PreFind, Screened, GuardInv
  <2> QED
    BY <2>2, <2>3
<1>6. Earned' /\ Began'
  BY <1>1, ZenonT(60) DEF PreFind, Earned, Began, KilledAreOffenders, TypeOK, GuardInv
<1> QED
  BY <1>2, <1>3, <1>4, <1>5, <1>6, ZenonT(60) DEF GuardInv

\* What was found and is not registered is not what has been registered throughout.
LEMMA PreAllowInv ==
  ASSUME GuardInv, NEW t \in Task, PreAllow(t)
  PROVE  GuardInv'
<1> USE DEF PreAllow, procs
<1>1. /\ \A u \in Task : u # t => call'[u] = call[u]
      /\ call'[t].at = "body" /\ call'[t].abi = call[t].abi
      /\ call' \in [Task -> [at : {"user", "pre", "check", "body"}, abi : Abi,
                             found : Task \cup {NULL}]]
  BY ZenonT(60) DEF KilledAreOffenders, TypeOK, GuardInv
<1>2. KilledAreOffenders'
  <2>1. ac_policy' \in BOOLEAN
    BY DEF KilledAreOffenders, TypeOK, GuardInv
  <2> QED
    BY <1>1, <2>1 DEF KilledAreOffenders, TypeOK, GuardInv
<1>3. RegisteredIsNotTraced'
  BY <1>1 DEF RegisteredIsNotTraced, GuardInv
<1>4. Numbers'
  BY DEF Numbers, Attached, GuardInv
<1>5. Screened'
  <2> SUFFICES ASSUME NEW u \in Task, NEW x \in Task, x \in since[u], Concerns(u, x)'
               PROVE  /\ call'[u].at = "check" => call'[u].found = x
                      /\ call'[u].at = "body" => Args(u).request' = "invalid"
    BY DEF Screened, GuardInv
  <2>1. Concerns(u, x) /\ Args(u).request' = Args(u).request
    BY <1>1 DEF Concerns, Args, Attached
  <2>2. CASE u = t
    BY <1>1, <2>1, <2>2 DEF Screened, Numbers, GuardInv
  <2>3. CASE u # t
    BY <1>1, <2>1, <2>3 DEF Screened, GuardInv
  <2> QED
    BY <2>2, <2>3
<1>6. Earned' /\ Began'
  BY <1>1, Zenon DEF Earned, Began, KilledAreOffenders, TypeOK, GuardInv
<1> QED
  BY <1>2, <1>3, <1>4, <1>5, <1>6, Zenon DEF GuardInv

\* A denied call is spoilt in the registers the kernel will read; the kill it may
\* queue is its own.
LEMMA PreDenyInv ==
  ASSUME GuardInv, NEW t \in Task, PreDeny(t)
  PROVE  GuardInv'
<1> USE DEF procs
<1>1. /\ \A u \in Task : u # t => call'[u] = call[u] /\ frame'[u] = frame[u]
      /\ call'[t].at = "body" /\ call'[t].abi = call[t].abi
      /\ call' \in [Task -> [at : {"user", "pre", "check", "body"}, abi : Abi,
                             found : Task \cup {NULL}]]
  BY ZenonT(60) DEF PreDeny, KilledAreOffenders, TypeOK, GuardInv
<1>2. /\ frame' \in [Task -> [Abi -> [request : {"none", "attach", "traceme", "invalid"},
                                      target : Pid \cup {NULL}]]]
      /\ frame'[t][call[t].abi].request = "invalid"
  <2> DEFINE Frames == [Abi -> [request : {"none", "attach", "traceme", "invalid"},
                                target : Pid \cup {NULL}]]
             spoilt == [frame[t] EXCEPT ![call[t].abi].request = "invalid"]
  <2>1. frame[t] \in Frames /\ call[t].abi \in Abi
    BY Zenon DEF KilledAreOffenders, TypeOK, GuardInv
  <2>2. spoilt \in Frames /\ spoilt[call[t].abi].request = "invalid"
    BY <2>1
  <2>3. frame' = [frame EXCEPT ![t] = spoilt]
    BY DEF PreDeny
  <2> QED
    BY <2>2, <2>3 DEF KilledAreOffenders, TypeOK, GuardInv
<1>3. /\ ac_wq' \in [Task -> 0 .. MaxCalls]
      /\ offenders \subseteq offenders' /\ offenders' \subseteq Task
      /\ \A u \in Task : \/ ac_wq'[u] = ac_wq[u]
                         \/ (u = t /\ ac_wq'[u] = ac_wq[u] + 1 /\ t \in offenders')
  <2>0. call[t].at = "check"
    BY DEF PreDeny
  <2>1. CASE UNCHANGED ac_wq
    BY <2>1 DEF PreDeny, ScheduleKill, NoKill, KilledAreOffenders, TypeOK, GuardInv
  <2>2. CASE offenders' = offenders \cup {t} /\ ac_wq' = [ac_wq EXCEPT ![t] = @ + 1]
    <3>1. ac_wq[t] + 1 \in 0 .. MaxCalls
      BY <2>0, GuardAssumption DEF Earned, KilledAreOffenders, TypeOK, GuardInv
    <3>2. ac_wq \in [Task -> 0 .. MaxCalls] /\ offenders \subseteq Task
      BY DEF KilledAreOffenders, TypeOK, GuardInv
    <3> QED
      BY <2>2, <3>1, <3>2, Zenon
  <2> QED
    BY <2>1, <2>2 DEF PreDeny, ScheduleKill, NoKill
<1>4. KilledAreOffenders'
  <2>1. ac_policy' \in BOOLEAN
    BY DEF PreDeny, KilledAreOffenders, TypeOK, GuardInv
  <2> QED
    BY <1>1, <1>2, <1>3, <2>1, Zenon DEF PreDeny, KilledAreOffenders, TypeOK, GuardInv
<1>5. RegisteredIsNotTraced'
  BY <1>1 DEF PreDeny, RegisteredIsNotTraced, GuardInv
<1>6. Numbers'
  BY DEF PreDeny, Numbers, Attached, GuardInv
<1>7. Screened'
  <2> SUFFICES ASSUME NEW u \in Task, NEW x \in Task, x \in since[u], Concerns(u, x)'
               PROVE  /\ call'[u].at = "check" => call'[u].found = x
                      /\ call'[u].at = "body" => Args(u).request' = "invalid"
    BY Zenon DEF PreDeny, Screened, GuardInv
  <2>1. CASE u = t
    BY <1>1, <1>2, <2>1, ZenonT(60) DEF Args
  <2>2. CASE u # t
    BY <1>1, <2>2 DEF PreDeny, Screened, Concerns, Args, Attached, GuardInv
  <2> QED
    BY <2>1, <2>2
<1>8. Earned' /\ Began'
  BY <1>1, <1>3 DEF PreDeny, Earned, Began, KilledAreOffenders, TypeOK, GuardInv
<1> QED
  BY <1>4, <1>5, <1>6, <1>7, <1>8 DEF GuardInv

\* What gets past the handler concerns nothing that has been registered throughout.
LEMMA BodyInv ==
  ASSUME GuardInv, NEW t \in Task, Body(t)
  PROVE  GuardInv'
<1> USE DEF procs
<1>1. /\ \A u \in Task : u # t => call'[u] = call[u] /\ frame'[u] = frame[u] /\ effect'[u] = effect[u]
      /\ call'[t].at = "user"
      /\ call' \in [Task -> [at : {"user", "pre", "check", "body"}, abi : Abi,
                             found : Task \cup {NULL}]]
  BY Zenon DEF Body, NotInCall, Abi, KilledAreOffenders, TypeOK, GuardInv
<1>2. frame' \in [Task -> [Abi -> [request : {"none", "attach", "traceme", "invalid"},
                                   target : Pid \cup {NULL}]]]
  BY DEF Body, NoFrame, NoArgs, KilledAreOffenders, TypeOK, GuardInv
<1>3. effect' \in [Task -> Task \cup {NULL}]
  <2>1. effect' = effect \/ \E x \in Task : effect' = [effect EXCEPT ![t] = x]
    BY Zenon DEF Body, Target, Found
  <2>2. effect \in [Task -> Task \cup {NULL}]
    BY Zenon DEF KilledAreOffenders, TypeOK, GuardInv
  <2> QED
    BY <2>1, <2>2
<1>4. KilledAreOffenders'
  <2>1. ac_policy' \in BOOLEAN
    BY Zenon DEF Body, KilledAreOffenders, TypeOK, GuardInv
  <2> QED
    BY <1>1, <1>2, <1>3, <2>1, Zenon DEF Body, KilledAreOffenders, TypeOK, GuardInv
<1>5. RegisteredIsNotTraced'
  <2>1. \/ effect' = effect
        \/ \E x \in Task : /\ effect'[t] = x /\ Concerns(t, x)
                           /\ Args(t).request # "invalid"
    BY ZenonT(60) DEF Body, BodyArgs, Target, Found, Concerns, Args, KilledAreOffenders, TypeOK, GuardInv
  <2>2. effect'[t] \notin since[t]
    <3>1. CASE \E x \in Task : effect'[t] = x /\ Concerns(t, x) /\ Args(t).request # "invalid"
      BY <3>1 DEF Body, Screened, GuardInv
    <3>2. CASE effect' = effect
      <4>1. effect[t] = NULL
        BY DEF Body, Began, GuardInv
      <4>2. since[t] \subseteq Task
        BY Zenon DEF KilledAreOffenders, TypeOK, GuardInv
      <4> QED
        BY <3>2, <4>1, <4>2, GuardAssumption, Zenon
    <3> QED
      BY <2>1, <3>1, <3>2, Zenon
  <2> QED
    BY <1>1, <2>2, SMTT(30) DEF Body, RegisteredIsNotTraced, GuardInv
<1>6. Numbers'
  BY DEF Body, Numbers, Attached, GuardInv
<1>7. Screened'
  <2> SUFFICES ASSUME NEW u \in Task, NEW x \in Task, (x \in since[u])', Concerns(u, x)'
               PROVE  /\ (call[u].at = "check")' => (call[u].found = x)'
                      /\ (call[u].at = "body")' => (Args(u).request = "invalid")'
    BY Zenon DEF Screened
  <2>1. CASE u = t
    BY <1>1, <2>1
  <2>2. CASE u # t
    <3>1. /\ call'[u] = call[u] /\ Args(u)' = Args(u) /\ x \in since[u]
          /\ Attached(x)' <=> Attached(x)
          /\ pidof'[x] = pidof[x]
      BY <1>1, <2>2, Zenon DEF Body, Args, Attached
    <3>2. Concerns(u, x)
      BY <3>1, Zenon DEF Concerns
    <3> QED
      BY <3>1, <3>2, Zenon DEF Screened, GuardInv
  <2> QED
    BY <2>1, <2>2, Zenon
<1>8. Earned' /\ Began'
  BY <1>1, Zenon DEF Body, Earned, Began, GuardInv
<1> QED
  BY <1>4, <1>5, <1>6, <1>7, <1>8 DEF GuardInv

\* The worker sends SIGKILL to the task whose request it is, or to none.
LEMMA KillWorkerInv ==
  ASSUME GuardInv, NEW t \in Task, KillWorker(t)
  PROVE  GuardInv'
<1> USE DEF KillWorker, procs
<1>1. KilledAreOffenders'
  <2>1. ac_policy' \in BOOLEAN
    BY Zenon DEF KilledAreOffenders, TypeOK, GuardInv
  <2>2. ac_wq' \in [Task -> 0 .. MaxCalls]
    BY GuardAssumption DEF KilledAreOffenders, TypeOK, GuardInv
  <2>3. killed' \subseteq offenders
    BY Zenon DEF KilledAreOffenders, Earned, GuardInv
  <2> QED
    BY <2>1, <2>2, <2>3, Zenon DEF KilledAreOffenders, TypeOK, GuardInv
<1>2. RegisteredIsNotTraced' /\ Numbers'
  BY Zenon DEF RegisteredIsNotTraced, Numbers, Attached, GuardInv
<1>3. Screened'
  BY Zenon DEF Screened, Concerns, Args, Attached, GuardInv
<1>4. Earned' /\ Began'
  BY DEF Earned, Began, KilledAreOffenders, TypeOK, GuardInv
<1> QED
  BY <1>1, <1>2, <1>3, <1>4 DEF GuardInv

\* Registering adds to what is registered and not to what has been throughout;
\* unregistering takes from both.
LEMMA RegistryInv ==
  ASSUME GuardInv, NEW t \in Task, Register(t) \/ Unregister(t)
  PROVE  GuardInv'
<1> USE DEF procs
<1>1. /\ members' \subseteq Task /\ IsFiniteSet(members')
      /\ Cardinality(members') \in 0 .. AC_PROT_MAX
  <2>0. /\ members \subseteq Task /\ IsFiniteSet(members)
        /\ Cardinality(members) \in Nat /\ Cardinality(members) <= AC_PROT_MAX
    BY FS_CardinalityType DEF Numbers, KilledAreOffenders, TypeOK, GuardInv
  <2>1. CASE Register(t)
    <3>0. Cardinality(members) = Reg!Cardinality(members)
      BY Zenon DEF Cardinality, Reg!Cardinality
    <3>1. t \notin members /\ Cardinality(members) < AC_PROT_MAX /\ members' = members \cup {t}
      BY <2>1, <3>0 DEF Register, Reg!Add
    <3>2. /\ IsFiniteSet(members \cup {t})
          /\ Cardinality(members \cup {t}) = Cardinality(members) + 1
      BY <2>0, <3>1, FS_AddElement, Zenon
    <3> QED
      BY <2>0, <3>1, <3>2, GuardAssumption
  <2>2. CASE Unregister(t)
    <3>1. t \in members /\ members' = members \ {t}
      BY <2>2 DEF Unregister, Reg!Remove
    <3>2. IsFiniteSet(members') /\ Cardinality(members') = Cardinality(members) - 1
      BY <2>0, <3>1, FS_RemoveElement
    <3>3. Cardinality(members') \in Nat
      BY <3>2, FS_CardinalityType, Zenon
    <3> QED
      BY <2>0, <3>1, <3>2, <3>3, GuardAssumption
  <2> QED
    BY <2>1, <2>2, Zenon
<1>2. /\ since' \in [Task -> SUBSET Task]
      /\ \A u \in Task : since'[u] \subseteq since[u] /\ since'[u] \subseteq members'
      /\ \A m \in members' : life[m] # "unborn"
      /\ UNCHANGED <<life, pidof, frame, call, ac_wq, killed, calls, offenders, effect>>
  BY DEF Register, Unregister, Reg!Add, Reg!Remove, Attached, Numbers, KilledAreOffenders, TypeOK,
      GuardInv
<1>3. KilledAreOffenders'
  <2>1. ac_policy' \in BOOLEAN
    BY DEF Register, Unregister, KilledAreOffenders, TypeOK, GuardInv
  <2> QED
    BY <1>1, <1>2, <2>1 DEF KilledAreOffenders, TypeOK, GuardInv
<1>4. RegisteredIsNotTraced'
  BY <1>2, Zenon DEF RegisteredIsNotTraced, GuardInv
<1>5. Numbers'
  <2>1. \A u \in Task : Attached(u)' <=> Attached(u)
    BY <1>2, Zenon DEF Attached
  <2>2. \A u, v \in Task : (Attached(u) /\ Attached(v) /\ pidof[u] = pidof[v] => u = v)'
    BY <1>2, <2>1, Zenon DEF Numbers, GuardInv
  <2> QED
    BY <1>1, <1>2, <2>2, Zenon DEF Numbers, Attached, GuardInv
<1>6. Screened'
  BY <1>2, Zenon DEF Screened, Concerns, Args, Attached, GuardInv
<1>7. Earned' /\ Began'
  BY <1>2, Zenon DEF Earned, Began, GuardInv
<1> QED
  BY <1>3, <1>4, <1>5, <1>6, <1>7, Zenon DEF GuardInv

\* A new task takes a free number and has not been registered; one that ends makes
\* calls concern less.
LEMMA TasksInv ==
  ASSUME GuardInv,
         NEW t \in Task, (\E k \in Pid : Spawn(t, k)) \/ Exit(t) \/ Reap(t)
  PROVE  GuardInv'
<1>0. PICK l \in {"running", "exited", "reaped"}, k \in Pid \cup {NULL} :
        /\ life' = [life EXCEPT ![t] = l] /\ pidof' = [pidof EXCEPT ![t] = k]
        /\ \/ life[t] = "unborn" /\ Found(k) = {}
           \/ life[t] \in {"running", "exited"} /\ k = pidof[t]
  <2>0. pidof \in [Task -> Pid \cup {NULL}] /\ pidof = [pidof EXCEPT ![t] = pidof[t]]
    BY DEF KilledAreOffenders, TypeOK, GuardInv
  <2>1. CASE \E k \in Pid : Spawn(t, k)
    BY <2>1, Zenon DEF Spawn
  <2>2. CASE Exit(t)
    BY <2>0, <2>2, Zenon DEF Exit
  <2>3. CASE Reap(t)
    BY <2>0, <2>3, Zenon DEF Reap
  <2> QED
    BY <2>1, <2>2, <2>3, ZenonT(60)
<1>1. /\ life' \in [Task -> {"unborn", "running", "exited", "reaped"}]
      /\ pidof' \in [Task -> Pid \cup {NULL}]
      /\ UNCHANGED <<members, ac_policy, frame, call, ac_wq, killed, calls, offenders, since, effect>>
  <2>1. life' \in [Task -> {"unborn", "running", "exited", "reaped"}]
    BY <1>0, ZenonT(60) DEF KilledAreOffenders, TypeOK, GuardInv
  <2>2. pidof' \in [Task -> Pid \cup {NULL}]
    BY <1>0 DEF KilledAreOffenders, TypeOK, GuardInv
  <2>3. UNCHANGED <<members, ac_policy, frame, call, ac_wq, killed, calls, offenders, since, effect>>
    BY Zenon DEF Spawn, Exit, Reap
  <2> QED
    BY <2>1, <2>2, <2>3, Zenon
<1>2. /\ \A m \in members : life'[m] # "unborn"
      /\ \A m \in members : Attached(m)' => Attached(m) /\ pidof'[m] = pidof[m]
  BY <1>0, Zenon DEF Attached, Numbers, KilledAreOffenders, TypeOK, GuardInv
<1>3. KilledAreOffenders'
  <2>1. ac_policy' \in BOOLEAN
    BY <1>1 DEF KilledAreOffenders, TypeOK, GuardInv
  <2> QED
    BY <1>1, <2>1, Zenon DEF KilledAreOffenders, TypeOK, GuardInv
<1>4. RegisteredIsNotTraced' /\ Earned' /\ Began'
  BY <1>1, Zenon DEF RegisteredIsNotTraced, Earned, Began, GuardInv
<1>5. Numbers'
  <2>1. \A u, v \in Task : Attached(u)' /\ Attached(v)' /\ pidof'[u] = pidof'[v] => u = v
    BY <1>0, SMTT(30) DEF Numbers, Attached, Found, KilledAreOffenders, TypeOK, GuardInv
  <2> QED
    BY <1>1, <1>2, <2>1, ZenonT(60) DEF Numbers, GuardInv
<1>6. Screened'
  BY <1>1, <1>2, ZenonT(60) DEF Screened, Concerns, Args, Numbers, GuardInv
<1> QED
  BY <1>3, <1>4, <1>5, <1>6, Zenon DEF GuardInv

\* Every step keeps the invariant.
LEMMA GuardStepInv == GuardInv /\ [Next]_vars => GuardInv'
<1> SUFFICES ASSUME GuardInv, [Next]_vars PROVE GuardInv'
  BY SMTT(30)
<1>1. CASE UNCHANGED vars \/ SetPolicy
  <2>1. UNCHANGED <<life, pidof, members, frame, call, ac_wq, killed, calls, offenders, since, effect>>
    BY <1>1 DEF vars, procs, SetPolicy
  <2>2. ac_policy' \in BOOLEAN
    BY <1>1, Zenon DEF vars, SetPolicy, GuardInv, KilledAreOffenders, TypeOK
  <2>3. KilledAreOffenders'
    BY <2>1, <2>2, Zenon DEF GuardInv, KilledAreOffenders, TypeOK
  <2> QED
    BY <2>1, <2>3, ZenonT(60) DEF GuardInv, RegisteredIsNotTraced, Numbers, Screened, Concerns, Args,
       Attached, Earned, Began
<1>2. CASE Next /\ ~SetPolicy
  <2>1. PICK t \in Task : \/ Ptrace(t) \/ KillWorker(t) \/ Register(t) \/ Unregister(t)
                          \/ (\E k \in Pid : Spawn(t, k)) \/ Exit(t) \/ Reap(t)
    BY <1>2 DEF Next
  <2>2. CASE Ptrace(t)
    BY <2>2, EnterInv, PreFindInv, PreAllowInv, PreDenyInv, BodyInv DEF Ptrace
  <2> QED
    BY <2>1, <2>2, KillWorkerInv, RegistryInv, TasksInv, ZenonT(60)
<1> QED
  BY <1>1, <1>2

\* No request takes effect on a task that has been registered since before the call
\* began, for any number of concurrent calls and however numbers are reused
\* (ac_ptrace_pre).
THEOREM NotTraced == Spec => []RegisteredIsNotTraced
<1>1. GuardInv => RegisteredIsNotTraced
  BY DEF GuardInv
<1> QED
  BY <1>1, GuardInitInv, GuardStepInv, PTL DEF Spec

\* SIGKILL is sent only to tasks whose own request was denied under the kill policy
\* (ac_schedule_kill, ac_kill_worker).
THEOREM OnlyOffendersKilled == Spec => []KilledAreOffenders
<1>1. GuardInv => KilledAreOffenders
  BY DEF GuardInv
<1> QED
  BY <1>1, GuardInitInv, GuardStepInv, PTL DEF Spec

-----------------------------------------------------------------------------
(* ProtectCommand: `protect --comm' misses nobody                            *)
\* A step that takes processes out of the world, or leaves it alone, and with them
\* out of `throughout', keeps what is registered within the capacity.
LEMMA FewerFit ==
    ASSUME NEW S, NEW T \in SUBSET S, IsFiniteSet(S), Cardinality(S) <= PROT_MAX
    PROVE  Cardinality(T) <= PROT_MAX
<1>1. IsFiniteSet(T) /\ Cardinality(T) <= Cardinality(S)
  BY FS_Subset
<1>2. Cardinality(T) \in Nat /\ Cardinality(S) \in Nat
  BY <1>1, FS_CardinalityType
<1> QED
  BY <1>1, <1>2, CommandAssumption

\* A set that had room for one more has not too many with it.
LEMMA OneMoreFits ==
    ASSUME NEW S, NEW x, IsFiniteSet(S), Cardinality(S) < PROT_MAX
    PROVE  Cardinality(S \cup {x}) <= PROT_MAX
<1>1. Cardinality(S) \in Nat
  BY FS_CardinalityType
<1>2. Cardinality(S \cup {x}) \in {Cardinality(S), Cardinality(S) + 1}
  BY FS_AddElement
<1> QED
  BY <1>1, <1>2, CommandAssumption

\* What is registered is a finite set.
LEMMA RegistryFinite ==
    ASSUME ProtectTypeOK
    PROVE  IsFiniteSet(prot)
<1>1. prot \subseteq 1 .. MaxTasks
  BY CommandAssumption DEF ProtectTypeOK, Alive
<1>2. IsFiniteSet(1 .. MaxTasks)
  BY FS_Interval, CommandAssumption
<1> QED
  BY <1>1, <1>2, FS_Subset, Zenon

\* An add of the abstract registry keeps to the capacity.
LEMMA AddFits ==
    ASSUME ProtectTypeOK, NEW t, R!Add(t)
    PROVE  prot' = prot \cup {t} /\ Cardinality(prot') <= PROT_MAX
<1>1. Cardinality(prot) = R!Cardinality(prot)
  BY DEF Cardinality, R!Cardinality
<1>2. Cardinality(prot) < PROT_MAX /\ prot' = prot \cup {t}
  BY <1>1, Zenon DEF R!Add
<1> QED
  BY <1>2, OneMoreFits, RegistryFinite, Zenon

\* Initially nobody runs and the command has not begun.
LEMMA ProtectInitInv == ProtectInit => ProtectInv
<1> SUFFICES ASSUME ProtectInit PROVE ProtectInv
  OBVIOUS
<1> USE CommandAssumption DEF ProtectInit, R!Init, Ready, TaskId, Proc
<1>1. Alive = {}
  BY Zenon DEF Alive
<1>2. Cardinality(prot) <= PROT_MAX
  BY FS_EmptySet
<1>3. command \in [at : {"ready", "walk", "add", "done", "died"}, next : Nat \ {0}, pids : Seq(TaskId)]
  OBVIOUS
<1>4. tasks \in [TaskId -> (1 .. started) \cup {NoTask}] /\ comm \in [Proc -> Comm]
  OBVIOUS
<1>5. started \in 0 .. MaxTasks /\ Len(command.pids) <= MAX_PIDS
  OBVIOUS
<1>6. ProtectTypeOK
  BY <1>1, <1>2, <1>3, <1>4, <1>5, Zenon DEF ProtectTypeOK
<1> QED
  BY <1>6, Zenon DEF ProtectInv, NotMissed

\* A process that starts is in nobody's list.
LEMMA StartInv ==
    ASSUME ProtectInv, NEW p \in TaskId, NEW c \in Comm, Start(p, c)
    PROVE  ProtectInv'
<1> USE CommandAssumption DEF Start, Proc
<1>1. started' \notin throughout /\ started' \in Proc
  BY DEF ProtectTypeOK, Alive, ProtectInv
<1>2. Alive \subseteq Alive'
  BY Zenon DEF ProtectTypeOK, Alive, ProtectInv
<1>3. ProtectTypeOK'
  BY <1>1, <1>2 DEF ProtectTypeOK, ProtectInv
<1>4. \A t \in throughout : comm'[t] = comm[t]
  BY <1>1 DEF ProtectTypeOK, Alive, ProtectInv
<1>5. NotMissed'
  BY <1>1, ZenonT(60) DEF NotMissed, Noted, ProtectTypeOK, ProtectInv
<1> QED
  BY <1>3, <1>4, <1>5, Zenon DEF ProtectInv

\* One that ends leaves the registry and `throughout' together.
LEMMA EndsInv ==
    ASSUME ProtectInv, NEW p \in TaskId, Ends(p)
    PROVE  ProtectInv'
<1> USE CommandAssumption DEF Ends, R!Remove
<1>1. prot' = prot \ {tasks[p]}
  BY Zenon
<1>2. Alive \ {tasks[p]} \subseteq Alive'
  BY Zenon DEF ProtectTypeOK, Alive, ProtectInv
<1>3. Cardinality(prot') <= PROT_MAX
  BY <1>1, FewerFit, RegistryFinite, Zenon DEF ProtectTypeOK, ProtectInv
<1>4. ProtectTypeOK'
  BY <1>1, <1>2, <1>3, Zenon DEF ProtectTypeOK, ProtectInv
<1>5. \A q \in TaskId : tasks'[q] \in throughout' =>
          tasks'[q] = tasks[q] /\ tasks[q] \in throughout /\ tasks[q] # tasks[p]
  BY Zenon DEF ProtectTypeOK, Alive, ProtectInv
<1>6. NotMissed'
  BY <1>1, <1>5, ZenonT(60) DEF NotMissed, Noted, ProtectInv
<1> QED
  BY <1>4, <1>6, Zenon DEF ProtectInv

\* One that takes another name leaves `throughout'.
LEMMA RenameInv ==
    ASSUME ProtectInv, NEW t \in Alive, NEW c \in Comm, Rename(t, c)
    PROVE  ProtectInv'
<1> USE CommandAssumption DEF Rename
<1>0. t \in Proc
  BY DEF ProtectTypeOK, Alive, Proc, ProtectInv
<1>1. ProtectTypeOK'
  BY <1>0 DEF ProtectTypeOK, Alive, ProtectInv
<1>2. NotMissed'
  BY Zenon DEF NotMissed, Noted, ProtectInv
<1>3. \A u \in throughout' : comm'[u] = Wanted
  BY DEF ProtectTypeOK, ProtectInv
<1> QED
  BY <1>1, <1>2, <1>3, Zenon DEF ProtectInv

\* More registered processes are no harm.
LEMMA OtherAddsInv ==
    ASSUME ProtectInv, NEW t \in Alive, OtherAdds(t)
    PROVE  ProtectInv'
<1> USE CommandAssumption DEF OtherAdds, worldVars
<1>1. prot' = prot \cup {t} /\ Cardinality(prot') <= PROT_MAX
  BY AddFits, Zenon DEF ProtectInv
<1>2. ProtectTypeOK'
  BY <1>1 DEF ProtectTypeOK, Alive, ProtectInv
<1>3. NotMissed'
  <2>1. prot \subseteq prot' /\ UNCHANGED <<tasks, comm, command, throughout>>
    BY <1>1, Zenon
  <2> QED
    BY <2>1, Zenon DEF NotMissed, Noted, ProtectInv
<1> QED
  BY <1>2, <1>3, Zenon DEF ProtectInv

\* The walk begins at the first number.
LEMMA OpenProcDirInv ==
    ASSUME ProtectInv, OpenProcDir
    PROVE  ProtectInv'
<1> USE CommandAssumption DEF OpenProcDir, CommandStep, worldVars
<1>1. /\ command' \in [at : {"ready", "walk", "add", "done", "died"}, next : Nat \ {0}, pids : Seq(TaskId)]
      /\ command'.at \in {"walk", "died"} /\ command'.next = 1 /\ command'.pids = command.pids
  BY DEF ProtectTypeOK, ProtectInv
<1>2. ProtectTypeOK'
  BY <1>1 DEF ProtectTypeOK, Alive, ProtectInv
<1>3. NotMissed'
  BY <1>1 DEF NotMissed, Noted, TaskId, ProtectInv
<1> QED
  BY <1>1, <1>2, <1>3 DEF ProtectInv

\* What a sequence holds after one more number was noted in it.
LEMMA NoteOne ==
    ASSUME NEW S, NEW s \in Seq(S), NEW n
    PROVE  /\ DOMAIN s = 1 .. Len(s) /\ Len(s) \in Nat
           /\ DOMAIN Append(s, n) = 1 .. Len(s) + 1
           /\ \A i \in 1 .. Len(s) : Append(s, n)[i] = s[i]
           /\ Append(s, n)[Len(s) + 1] = n
OBVIOUS

\* A sequence that had room is within its bound after one more entry.
LEMMA NoteFits ==
    ASSUME NEW S, NEW s \in Seq(S), NEW n, NEW k \in Nat, Len(s) < k
    PROVE  Len(Append(s, n)) <= k
OBVIOUS

\* The walk notes the number it passes, if it is of a process that had the name all
\* the time; or pids[] is full.
LEMMA LookAtInv ==
    ASSUME ProtectInv, LookAt
    PROVE  ProtectInv'
<1> USE CommandAssumption DEF LookAt, CommandStep, worldVars
<1> DEFINE n == command.next
           hit == IF tasks[n] = NoTask THEN FALSE ELSE comm[tasks[n]] = Wanted
           room == Len(command.pids) < MAX_PIDS
<1>1. n \in Nat /\ command.pids \in Seq(TaskId) /\ command.at = "walk"
  BY DEF ProtectTypeOK, ProtectInv
<1>2. /\ command'.at = "walk" /\ command'.next = n + 1
      /\ \/ command'.pids = command.pids /\ (~hit \/ ~room \/ tasks[n] \notin throughout)
         \/ hit /\ room /\ command'.pids = Append(command.pids, n)
  BY <1>1, ZenonT(60) DEF ProtectTypeOK, ProtectInv
<1>3. full' = (full \/ (hit /\ ~room)) /\ full' \in BOOLEAN
  OBVIOUS
<1> HIDE DEF LookAt, CommandStep
<1>4. n <= MaxPid
  BY DEF LookAt
<1>5. tasks' = tasks /\ comm' = comm /\ started' = started /\ prot' = prot /\ throughout' = throughout
  BY DEF LookAt, CommandStep
<1>6. command' \in [at : {"ready", "walk", "add", "done", "died"}, next : Nat \ {0}, pids : Seq(TaskId)]
  <2>1. n \in TaskId /\ Append(command.pids, n) \in Seq(TaskId) /\ n + 1 \in Nat \ {0}
    BY <1>1, <1>4 DEF ProtectTypeOK, TaskId, ProtectInv
  <2>2. \/ command' = [command EXCEPT !.next = n + 1]
        \/ command' = [command EXCEPT !.next = n + 1, !.pids = Append(command.pids, n)]
    BY Zenon DEF LookAt, CommandStep, ProtectTypeOK, ProtectInv
  <2> QED
    BY <2>1, <2>2, ZenonT(60) DEF ProtectTypeOK, ProtectInv
<1>7. Len(command'.pids) <= MAX_PIDS
  <2>1. MAX_PIDS \in Nat
    BY DEF ProtectInv
  <2>2. Len(command.pids) <= MAX_PIDS
    BY Zenon DEF ProtectTypeOK, ProtectInv
  <2>3. room => Len(Append(command.pids, n)) <= MAX_PIDS
    BY <1>1, <2>1, NoteFits, Zenon
  <2> QED BY <1>2, <2>2, <2>3, Zenon
<1>8. ProtectTypeOK'
  BY <1>3, <1>5, <1>6, <1>7 DEF ProtectTypeOK, Alive, ProtectInv
<1>9. Noted \subseteq Noted' /\ (command'.pids = Append(command.pids, n) => n \in Noted')
  <2> DEFINE s == command.pids
             t == Append(s, n)
  <2>1. /\ DOMAIN s = 1 .. Len(s) /\ Len(s) \in Nat
        /\ DOMAIN t = 1 .. Len(s) + 1
        /\ \A i \in 1 .. Len(s) : t[i] = s[i]
        /\ t[Len(s) + 1] = n
    BY <1>1, NoteOne, Zenon
  <2>2. \A i \in DOMAIN s : i \in DOMAIN t /\ t[i] = s[i]
    BY <2>1
  <2>3. Len(s) + 1 \in DOMAIN t
    BY <2>1
  <2> HIDE DEF t
  <2>4. CASE command'.pids = s
    <3>1. command'.pids # t
      BY <2>1, <2>3, <2>4
    <3> QED BY <2>4, <3>1, Zenon DEF Noted, t
  <2>5. CASE command'.pids = t
    <3>1. n \in Noted'
      BY <2>1, <2>3, <2>5, Zenon DEF Noted
    <3> QED BY <2>2, <2>5, <3>1, Zenon DEF Noted, t
  <2> QED BY <1>2, <2>4, <2>5, Zenon DEF t
<1>10. ASSUME NEW p \in TaskId, tasks'[p] \in throughout', ~full'
       PROVE  command'.next <= p \/ p \in Noted'
  <2>1. command.next <= p \/ p \in Noted
    BY <1>1, <1>3, <1>5, <1>10, Zenon DEF NotMissed, ProtectInv
  <2>2. CASE p # n
    BY <1>1, <1>2, <1>9, <2>1, <2>2 DEF TaskId
  <2>3. CASE p = n
    <3>1. hit
      BY <1>5, <1>10, <2>3 DEF ProtectTypeOK, Alive, ProtectInv
    <3>2. room
      BY <1>3, <1>10, <3>1, ZenonT(60)
    <3> QED
      BY <1>2, <1>5, <1>9, <1>10, <2>3, <3>1, <3>2, ZenonT(60)
  <2> QED
    BY <2>2, <2>3
<1>11. NotMissed'
  BY <1>2, <1>10 DEF NotMissed, ProtectInv
<1> QED
  BY <1>2, <1>5, <1>8, <1>11, Zenon DEF ProtectInv

\* Past the last number, what is not noted was missed by nobody.
LEMMA WalkDoneInv ==
    ASSUME ProtectInv, WalkDone
    PROVE  ProtectInv'
<1> USE CommandAssumption DEF WalkDone, CommandStep, worldVars
<1>1. /\ command' \in [at : {"ready", "walk", "add", "done", "died"}, next : Nat \ {0}, pids : Seq(TaskId)]
      /\ command'.at = (IF command.pids = <<>> THEN "done" ELSE "add")
      /\ command'.pids = command.pids
  BY DEF ProtectTypeOK, ProtectInv
<1>2. ProtectTypeOK'
  BY <1>1 DEF ProtectTypeOK, Alive, ProtectInv
<1>3. command.pids = <<>> => Noted = {}
  BY DEF Noted
<1>4. \A p \in TaskId : ~(command.next <= p)
  BY DEF ProtectTypeOK, TaskId, ProtectInv
<1>5. NotMissed'
  BY <1>1, <1>3, <1>4 DEF NotMissed, Noted, ProtectInv
<1> QED
  BY <1>1, <1>2, <1>5, Zenon DEF ProtectInv

\* The number that is taken from pids[] is that of a process that gets registered, is
\* registered, or finds the registry full.
LEMMA AddNextInv ==
    ASSUME ProtectInv, AddNext
    PROVE  ProtectInv'
<1> USE CommandAssumption
<1> DEFINE h == Head(command.pids)
<1>1. command.pids \in Seq(TaskId) /\ command.pids # <<>> /\ command.at = "add"
  BY Zenon DEF AddNext, ProtectTypeOK, ProtectInv
<1>2. h \in TaskId /\ Tail(command.pids) \in Seq(TaskId) /\ Len(Tail(command.pids)) <= Len(command.pids)
  BY <1>1
<1>3. /\ command' \in [at : {"ready", "walk", "add", "done", "died"}, next : Nat \ {0}, pids : Seq(TaskId)]
      /\ command'.at = "add" /\ command'.pids = Tail(command.pids)
  BY <1>1, <1>2, Zenon DEF AddNext, CommandStep, ProtectTypeOK, ProtectInv
<1>4. tasks' = tasks /\ comm' = comm /\ started' = started /\ throughout' = throughout
  BY DEF AddNext, CommandStep, worldVars
<1>5. /\ prot \subseteq prot' /\ prot' \subseteq Alive
      /\ Cardinality(prot') <= PROT_MAX
      /\ full' \in BOOLEAN /\ (full => full')
      /\ tasks[h] \in prot' \cup {NoTask} \/ full'
  <2>1. CASE tasks[h] \in prot \cup {NoTask} /\ UNCHANGED <<prot, full>>
    BY <2>1, Zenon DEF ProtectTypeOK, ProtectInv
  <2>2. CASE tasks[h] \in Proc /\ R!Add(tasks[h]) /\ UNCHANGED full
    <3>1. tasks[h] \in Alive
      BY <1>2, <2>2, Zenon DEF Alive
    <3>2. prot' = prot \cup {tasks[h]} /\ Cardinality(prot') <= PROT_MAX
      BY <2>2, AddFits, Zenon DEF ProtectInv
    <3> QED
      BY <2>2, <3>1, <3>2, Zenon DEF ProtectTypeOK, ProtectInv
  <2>3. CASE full' = TRUE /\ UNCHANGED prot
    BY <2>3, Zenon DEF ProtectTypeOK, ProtectInv
  <2> QED
    BY <2>1, <2>2, <2>3, Zenon DEF AddNext
<1>6. ProtectTypeOK'
  BY <1>1, <1>2, <1>3, <1>4, <1>5 DEF ProtectTypeOK, Alive, ProtectInv
<1>7. \A p \in Noted : p = h \/ p \in Noted'
  <2> DEFINE s == command.pids
  <2>1. \A i \in DOMAIN s : i = 1 \/ (i - 1 \in DOMAIN Tail(s) /\ Tail(s)[i - 1] = s[i])
    BY <1>1
  <2>2. h = s[1]
    BY <1>1
  <2>3. Noted' = {Tail(s)[i] : i \in DOMAIN Tail(s)}
    BY <1>3, Zenon DEF Noted
  <2>4. SUFFICES ASSUME NEW i \in DOMAIN s, i # 1 PROVE s[i] \in Noted'
    BY <2>2, Zenon DEF Noted
  <2>5. i - 1 \in DOMAIN Tail(s) /\ Tail(s)[i - 1] = s[i]
    BY <2>1, <2>4, Zenon
  <2> QED
    BY <2>3, <2>5, Zenon
<1>8. NoTask \notin throughout
  BY Zenon DEF ProtectTypeOK, Alive, ProtectInv
<1>9. NotMissed'
  BY <1>1, <1>3, <1>4, <1>5, <1>7, <1>8, Zenon DEF NotMissed, ProtectInv
<1> QED
  BY <1>3, <1>4, <1>6, <1>9, Zenon DEF ProtectInv

\* With pids[] empty all are registered.
LEMMA AddsDoneInv ==
    ASSUME ProtectInv, AddsDone
    PROVE  ProtectInv'
<1> USE CommandAssumption DEF AddsDone, CommandStep, worldVars
<1>1. /\ command' \in [at : {"ready", "walk", "add", "done", "died"}, next : Nat \ {0}, pids : Seq(TaskId)]
      /\ command'.at = "done" /\ command'.pids = command.pids
  BY DEF ProtectTypeOK, ProtectInv
<1>2. ProtectTypeOK'
  BY <1>1 DEF ProtectTypeOK, Alive, ProtectInv
<1>3. Noted = {}
  BY DEF Noted
<1>4. NotMissed'
  BY <1>1, <1>3, Zenon DEF NotMissed, ProtectInv
<1> QED
  BY <1>1, <1>2, <1>4, Zenon DEF ProtectInv

\* The invariant is inductive.
LEMMA ProtectStepInv ==
    ASSUME ProtectInv, [ProtectNext]_protectVars
    PROVE  ProtectInv'
<1>1. CASE UNCHANGED protectVars
  BY <1>1 DEF ProtectInv, ProtectTypeOK, NotMissed, Noted, Alive, protectVars, worldVars
<1>2. CASE ProtectNext
  BY <1>2, StartInv, EndsInv, RenameInv, OtherAddsInv, OpenProcDirInv, LookAtInv,
     WalkDoneInv, AddNextInv, AddsDoneInv, Zenon DEF ProtectNext
<1> QED
  BY <1>1, <1>2, Zenon

\* `protect --comm' registers every process that has the name from the start to the
\* end of the command, whatever the others do, unless the registry or pids[] was full.
THEOREM ProtectCorrect == ProtectSpec => []AllOfTheNameAreProtected
<1>1. ProtectInv => AllOfTheNameAreProtected
  BY DEF ProtectInv, AllOfTheNameAreProtected, NotMissed, ProtectTypeOK, Alive
<1> QED
  BY <1>1, ProtectInitInv, ProtectStepInv, PTL DEF ProtectSpec
=============================================================================
