---------------------------- MODULE SyscallTable ----------------------------
(***************************************************************************)
(* The system call table check of src/src/anticheat_module.c: at load,     *)
(* ac_resolve_text_bounds(), ac_find_syscall_table() and ac_derive_bounds()*)
(* work out where the table and the kernel text are from whatever symbols  *)
(* a kprobe can resolve; CHECK_SYSCALLS then classifies every entry.       *)
(*                                                                         *)
(* One address unit stands for 4 bytes of code and for one table word; the *)
(* sizes the code uses are constants of the model.  A kernel image is a    *)
(* record: where its text lies, where its handlers, its table and its      *)
(* sparse x32 table are, which symbols are probe-able and whether a probe  *)
(* address follows an endbr64.                                             *)
(***************************************************************************)
EXTENDS Integers, FiniteSets, FiniteSetsExt

CONSTANTS
    Kernel,        \* the images to consider
    NR_syscalls,   \* __NR_syscalls
    MIN_VALID,     \* entries that make a table plausible (400)
    PAGE,          \* rounding of derived bounds (2 MB)
    WINDOW,        \* distance of a plausible handler from the anchor (64 MB)
    SCAN,          \* reach of the table search (32 MB)
    GENEROUS,      \* image bound when only the start is known (512 MB)
    ModuleArea,    \* address ranges modules are loaded at
    Written,       \* values an entry may be overwritten with
    MaxWritten     \* bound on the entries that differ from the built ones

ASSUME TableAssumption ==
    /\ {NR_syscalls, MIN_VALID, PAGE, WINDOW, SCAN, GENEROUS} \subseteq Nat \ {0}
    /\ MIN_VALID <= NR_syscalls

VARIABLES
    kernel,            \* the image
    entry,             \* the table: number -> handler, 0 if empty
    loaded,            \* the modules that are live
    ac_stext, ac_etext, ac_text_end, ac_anchor,
    ac_syscall_table,
    ac_last_hook_count,
    at,                \* where ac_init() is
    tampered           \* history: an entry was overwritten before the module was ready

bounds == <<ac_stext, ac_etext, ac_text_end>>
tableVars == <<kernel, entry, loaded, bounds, ac_anchor, ac_syscall_table, ac_last_hook_count, at,
               tampered>>

NR_read == 0
NR_write == 1
Number == 0 .. NR_syscalls - 1

FirstNonZero(a, b) == IF a # 0 THEN a ELSE b

\* Where the forward search begins in the image k.
SearchStart(k) ==
    FirstNonZero(FirstNonZero(k.symbol._etext, k.symbol._sinittext),
                 FirstNonZero(FirstNonZero(k.symbol._stext, k.symbol._text), k.handler[NR_read]))

\* What an image looks like.  Handlers lie in the text, which is no wider than the
\* window, and enough of them are there; only read has the handler of read.  A label
\* that can be resolved lies where its name says.  The table is in reach of the search
\* and apart from the x32 table, of which two entries are too few.  Modules lie outside
\* the text, and nobody writes the handler of read into another entry.
ASSUME KernelAssumption ==
    /\ MIN_VALID > 2
    /\ Written \subseteq Nat
    /\ \A m \in ModuleArea : m \subseteq Nat \ {0}
    /\ \A k \in Kernel :
        LET start == k.text[1]
            end == k.text[2]
            rh == k.handler[NR_read]
        IN  /\ {start, end, k.table, k.x32} \subseteq Nat \ {0}
            /\ k.symbol \in [_stext : Nat, _text : Nat, _etext : Nat, _sinittext : Nat]
            /\ k.probed \in [Number -> BOOLEAN] /\ k.ibt \in BOOLEAN
            /\ k.handler \in [Number -> {0} \cup start .. end - 1] /\ end - start <= WINDOW
            /\ k.handler[NR_read] # 0 /\ k.handler[NR_write] # 0
            /\ Cardinality({i \in Number : k.handler[i] # 0}) >= MIN_VALID
            /\ rh \notin Written /\ \A i \in Number \ {NR_read} : k.handler[i] # rh
            /\ k.symbol._stext <= start /\ k.symbol._text <= start
            /\ k.symbol._etext \notin 1 .. end - 1 /\ k.symbol._sinittext \notin 1 .. end - 1
            /\ \A st \in {k.symbol._stext, k.symbol._text} \ {0} : st + GENEROUS >= end
            /\ k.table \in SearchStart(k) .. SearchStart(k) + SCAN - 1 \cup rh - SCAN + 1 .. rh
            /\ k.table + NR_syscalls <= k.x32 \/ k.x32 + NR_syscalls <= k.table
            /\ \A m \in ModuleArea : m \cap start .. end - 1 = {}

\* ac_lookup() and ac_normalize_func() of a handler: a probe lands behind the
\* endbr64, and the symbol starts before it.
ac_lookup(i) ==
    IF kernel.probed[i] THEN kernel.handler[i] + (IF kernel.ibt THEN 1 ELSE 0) ELSE 0
ac_normalize_func(addr) ==
    IF addr # 0 /\ kernel.ibt /\ \E i \in Number : kernel.handler[i] = addr - 1
    THEN addr - 1 ELSE addr

\* ac_kread() of a word of the image: the table, the x32 table with its first
\* two entries, anything else, or 0 where nothing can be read.
Word(a) ==
    IF a - kernel.table \in Number THEN entry[a - kernel.table]
    ELSE IF a - kernel.x32 \in {NR_read, NR_write} THEN kernel.handler[a - kernel.x32]
    ELSE 0

InFirstModule(a) == \E m \in loaded : a = Min(m)   \* variant: tests the base only

ac_addr_in_module(a) == \E m \in loaded : a \in m

ac_plausible_handler(e, anchor) ==
    /\ e # 0
    /\ ~ac_addr_in_module(e)
    /\ e > anchor - WINDOW /\ e < anchor + WINDOW

ac_in_core_text(a) ==
    /\ ac_stext # 0 /\ ac_text_end # 0
    /\ a >= ac_stext /\ a < ac_text_end
    /\ ~ac_addr_in_module(a)

ac_entry_bad(e) ==
    IF ac_stext # 0 /\ ac_text_end # 0 THEN ~ac_in_core_text(e)
    ELSE ~ac_plausible_handler(e, ac_anchor)

Plausible(base, anchor) == {i \in Number : ac_plausible_handler(Word(base + i), anchor)}

AnyPlausible(base, anchor) == Plausible(base, anchor) # {}   \* variant: the first hit is enough

ac_table_plausible(base, anchor) == Cardinality(Plausible(base, anchor)) >= MIN_VALID

RoundDown(a) == a - (a % PAGE)
RoundUpNot(a) == RoundDown(a)   \* variant: the end is rounded down as well

RoundUp(a) == RoundDown(a + PAGE - 1)

-----------------------------------------------------------------------------
ac_resolve_text_bounds ==
    LET st == FirstNonZero(kernel.symbol["_stext"], kernel.symbol["_text"])
        et == FirstNonZero(kernel.symbol["_etext"], kernel.symbol["_sinittext"])
    IN  /\ at = "bounds"
        /\ ac_stext' = st
        /\ ac_etext' = et
        /\ ac_text_end' = IF et # 0 THEN et ELSE IF st # 0 THEN st + GENEROUS ELSE 0
        /\ at' = "find"
        /\ UNCHANGED <<kernel, entry, loaded, ac_anchor, ac_syscall_table, ac_last_hook_count,
                       tampered>>

\* ac_derive_bounds() fills in the bounds that no symbol gave.
ac_derive_bounds(base, anchor) ==
    LET e == {Word(base + i) : i \in Plausible(base, anchor)}
    IN  /\ ac_stext' = IF ac_stext = 0 /\ e # {} THEN RoundDown(Min(e)) ELSE ac_stext
        /\ ac_text_end' = IF ac_text_end = 0 /\ e # {} THEN RoundUp(Max(e)) ELSE ac_text_end

\* Addresses at which the search accepts a table: forward from the end of the
\* text, or else backward from the read handler.
Candidates(area, rh, wh) ==
    {a \in area : /\ Word(a) = rh
                  /\ Word(a - NR_read + NR_write) = wh
                  /\ ac_table_plausible(a - NR_read, rh)}

ac_find_syscall_table ==
    LET rh == ac_normalize_func(ac_lookup(NR_read))
        wh == ac_normalize_func(ac_lookup(NR_write))
        lo == FirstNonZero(ac_etext, FirstNonZero(ac_stext, rh))
        forward == Candidates(lo .. lo + SCAN - 1, rh, wh)
        backward == Candidates(rh - SCAN + 1 .. rh, rh, wh)
        base == (IF forward # {} THEN Min(forward) ELSE Max(backward)) - NR_read
    IN  /\ at = "find"
        /\ \/ /\ rh # 0 /\ wh # 0 /\ forward \cup backward # {}
              /\ ac_syscall_table' = base
              /\ ac_anchor' = rh
              /\ ac_derive_bounds(base, rh)
           \/ /\ rh = 0 \/ wh = 0 \/ forward \cup backward = {}
              /\ UNCHANGED <<ac_syscall_table, ac_anchor, ac_stext, ac_text_end>>
        /\ at' = "ready"
        /\ UNCHANGED <<kernel, entry, loaded, ac_etext, ac_last_hook_count, tampered>>

\* The entries CHECK_SYSCALLS reports
Bad == {i \in Number : LET e == Word(ac_syscall_table + i) IN e # 0 /\ ac_entry_bad(e)}

\* CHECK_SYSCALLS; ENODEV when the table was not located
ac_check_syscalls ==
    /\ at = "ready" /\ ac_syscall_table # 0
    /\ ac_last_hook_count' = Cardinality(Bad)
    /\ UNCHANGED <<kernel, entry, loaded, bounds, ac_anchor, ac_syscall_table, at, tampered>>

-----------------------------------------------------------------------------
\* What goes on around the module: others load and unload, entries change.
LoadModule(m) ==
    /\ m \notin loaded
    /\ loaded' = loaded \cup {m}
    /\ UNCHANGED <<kernel, entry, bounds, ac_anchor, ac_syscall_table, ac_last_hook_count, at,
                   tampered>>

UnloadModule(m) ==
    /\ m \in loaded
    /\ loaded' = loaded \ {m}
    /\ UNCHANGED <<kernel, entry, bounds, ac_anchor, ac_syscall_table, ac_last_hook_count, at,
                   tampered>>

WriteEntry(i, e) ==
    /\ entry' = [entry EXCEPT ![i] = e]
    /\ Cardinality({j \in Number : entry'[j] # kernel.handler[j]}) <= MaxWritten
    /\ tampered' = (tampered \/ (at # "ready" /\ e # kernel.handler[i]))
    /\ UNCHANGED <<kernel, loaded, bounds, ac_anchor, ac_syscall_table, ac_last_hook_count, at>>

TableInit ==
    /\ kernel \in Kernel
    /\ entry = [i \in Number |-> kernel.handler[i]]
    /\ loaded = {}
    /\ ac_stext = 0 /\ ac_etext = 0 /\ ac_text_end = 0 /\ ac_anchor = 0
    /\ ac_syscall_table = 0 /\ ac_last_hook_count = 0
    /\ at = "bounds"
    /\ tampered = FALSE

TableNext ==
    \/ ac_resolve_text_bounds \/ ac_find_syscall_table \/ ac_check_syscalls
    \/ \E m \in ModuleArea : LoadModule(m) \/ UnloadModule(m)
    \/ \E i \in Number : \E e \in Written \cup {kernel.handler[i]} : WriteEntry(i, e)

TableSpec == TableInit /\ [][TableNext]_tableVars

-----------------------------------------------------------------------------
\* Every variable keeps its type.
TableTypeOK ==
    /\ kernel \in Kernel
    /\ entry \in [Number -> Nat]
    /\ loaded \subseteq ModuleArea
    /\ {ac_stext, ac_etext, ac_text_end, ac_anchor, ac_syscall_table} \subseteq Nat
    /\ ac_last_hook_count \in 0 .. NR_syscalls
    /\ at \in {"bounds", "find", "ready"}
    /\ tampered \in BOOLEAN

\* The search finds the table itself, never the sparse x32 table that starts
\* with the same handlers; it does find it, from either side of the text and
\* with any of the symbols missing, if both handlers could be probed, the table
\* is in reach of the search and no entry had changed before.  Every variable
\* has its type.
FoundIsTheTable ==
    /\ TableTypeOK
    /\ ac_syscall_table \in {0, kernel.table}
    /\ at = "ready" /\ ~tampered /\ kernel.probed[NR_read] /\ kernel.probed[NR_write]
         => ac_syscall_table = kernel.table

\* Once the table is found a check reports every entry that points into a live
\* module, whichever bounds were resolved, derived or left to the window around
\* the anchor; and while nothing was changed before the search, it reports no entry
\* that is what the kernel was built with.  One case is excepted, where
\* ac_derive_bounds() rounds up to a page that the highest handler starts: the end
\* is exclusive, and that handler is taken to be outside the text.
CheckIsRight ==
    at = "ready" /\ ac_syscall_table # 0 =>
        \A i \in Number :
            /\ (\E m \in loaded : entry[i] \in m) => i \in Bad
            /\ ~tampered /\ entry[i] = kernel.handler[i] /\ entry[i] # ac_text_end
                 => i \notin Bad
=============================================================================
