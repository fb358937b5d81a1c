----------------------------- MODULE Mnv2Stores -----------------------------
(***************************************************************************)
(* The stores of proj/mnv2_first that hold what a batch of output channels *)
(* needs (gateware/store.py, mnv2_cfu.py): for each of multiplier, shift   *)
(* and bias a memory behind a StoreSetter and a CircularIncrementer, and   *)
(* for the filter words four memories behind a StoreSetter and a           *)
(* FilterValueFetcher with its four SequentialMemoryReaders.               *)
(*                                                                         *)
(* CFU_SET_OUTPUT_BATCH_SIZE restarts them all by the `set` output of its  *)
(* register, a cycle after the instruction.  A depth is a power of two, so *)
(* that an address that is cut to its width is the remainder by the depth. *)
(***************************************************************************)
EXTENDS Integers

CONSTANTS
  ParamDepth,   \* OUTPUT_CHANNEL_PARAM_DEPTH: 512 in the code
  FilterDepth,  \* FILTER_DATA_MEM_DEPTH: 512 in the code
  None          \* a register or a memory that holds nothing of use

ASSUME DepthsAssumption == {ParamDepth, FilterDepth} \subseteq Nat \ {0}

Kinds == {"multiplier", "shift", "bias"}
BankIds == 0 .. 3

VARIABLES
  restart,  \* the `set` output of set_output_batch_size
  params,   \* for each kind: count, memory, last_addr, and the word on the read port
  filters,  \* count and memories of the filter store
  fvf       \* was_updated and curr_bank of the fetcher, and its readers

store_vars == <<restart, params, filters, fvf>>

InitStores ==
  /\ restart = FALSE
  /\ params = [k \in Kinds |-> [count |-> 0, mem |-> [a \in 0 .. ParamDepth - 1 |-> None],
                                last_addr |-> 0, data |-> None]]
  /\ filters = [count |-> 0, mem |-> [n \in BankIds |-> [a \in 0 .. FilterDepth - 1 |-> None]]]
  /\ fvf = [was_updated |-> FALSE, bank |-> 0,
            smr |-> [n \in BankIds |-> [was_restart |-> FALSE, was_next |-> FALSE,
                                        last_mem_addr |-> 0, last_data |-> None, port |-> None]]]

-----------------------------------------------------------------------------
(* StoreSetter: a restart has priority over a store.                       *)

NextCount(count, start) == IF restart THEN 0 ELSE IF start THEN count + 1 ELSE count

-----------------------------------------------------------------------------
(* CircularIncrementer and its memory.  The limit is the number of words   *)
(* stored, in a register with no room for the number ParamDepth.           *)

limit(k) == params[k].count % ParamDepth

r_addr(k, next) ==
  LET last_addr == params[k].last_addr
  IN  IF restart THEN 0
      ELSE IF ~next THEN last_addr
      ELSE IF last_addr >= limit(k) - 1 THEN 0 ELSE last_addr + 1

ParamStores(kind, value, next) ==
  params' =
    [k \in Kinds |->
       LET p == params[k]
       IN  [count     |-> NextCount(p.count, k = kind),
            mem       |-> IF k = kind /\ ~restart
                          THEN [p.mem EXCEPT ![p.count % ParamDepth] = value] ELSE p.mem,
            last_addr |-> r_addr(k, next),
            data      |-> p.mem[r_addr(k, next)]]]

\* The parameters on the wires to the PostProcessor.
param_data == [k \in Kinds |-> params[k].data]

-----------------------------------------------------------------------------
(* FilterValueFetcher.  Word i is in memory i % 4.  A reader prefetches    *)
(* the word after the one it shows; all are restarted after every store.   *)

smr_limit == (filters.count % (4 * FilterDepth)) \div 4

prefetching(n) == fvf.smr[n].was_restart \/ fvf.smr[n].was_next

smr_data(n) == IF prefetching(n) THEN fvf.smr[n].port ELSE fvf.smr[n].last_data

incremented_addr(n) ==
  LET last == fvf.smr[n].last_mem_addr
  IN  IF last = smr_limit - 1 THEN 0 ELSE (last + 1) % FilterDepth

mem_addr(n) ==
  IF fvf.was_updated THEN 0
  ELSE IF prefetching(n) THEN incremented_addr(n) ELSE fvf.smr[n].last_mem_addr

f_data == smr_data(fvf.bank)

\* Mutant: a store does not restart the readers.
updated_by_restart(start) == restart

updated(start) == restart \/ start

FilterStore(start, value) ==
  filters' = [count |-> NextCount(filters.count, start),
              mem   |-> IF start /\ ~restart
                        THEN [filters.mem EXCEPT
                                ![filters.count % 4][filters.count \div 4 % FilterDepth] = value]
                        ELSE filters.mem]

Fetch(start, next) ==
  fvf' = [was_updated |-> updated(start),
          bank |-> IF restart THEN 0 ELSE IF next THEN (fvf.bank + 1) % 4 ELSE fvf.bank,
          smr  |-> [n \in BankIds |->
                      [was_restart   |-> fvf.was_updated,
                       was_next      |-> next /\ ~restart /\ fvf.bank = n,
                       last_mem_addr |-> mem_addr(n),
                       last_data     |-> smr_data(n),
                       port          |-> filters.mem[n][mem_addr(n)]]]]
=============================================================================
