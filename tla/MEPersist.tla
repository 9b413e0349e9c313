------------------------------ MODULE MEPersist ------------------------------
(***************************************************************************)
(* How matchengine survives a crash: the operation log (me_operlog.c over  *)
(* the worker thread of nw_job.c), the slices a forked child writes        *)
(* (me_persist.c, me_dump.c) and the way back at start (me_load.c).        *)
(*                                                                         *)
(* The engine's memory is reduced to what the recovery has to bring back:  *)
(* the balance of one user in one asset, the orders that rest in a book    *)
(* nobody matches (MEMarket has the matching), the ids given out and the   *)
(* dictionary of update_balance calls already made.                        *)
(***************************************************************************)
EXTENDS Integers, Sequences, FiniteSets, FiniteSetsExt

CONSTANTS
    Keys,           \* <<business, business_id>> of balance.update
    Changes,        \* changes of balance.update, in units of 10^-prec_save
    Amounts,        \* amounts of limit orders, in the same units
    ShowGrain,      \* 10^-prec_show in these units
    MaxPending,     \* MAX_PENDING_OPERLOG
    SliceInterval,  \* settings.slice_interval
    SliceKeeptime,  \* settings.slice_keeptime
    DayLength,      \* 86400 seconds: one operlog table a day
    Faults,         \* what the environment does beyond crashing the engine
    MaxOps,         \* bound on operlog_id_start
    MaxTime,        \* bound on the clock
    MaxCrashes,     \* bound on crashes
    MaxStops,       \* bound on orderly stops
    MaxChildren     \* bound on the children alive at a time

\* "stale_slice": a slice child outlives its engine until a new one is up;
\* "insert_error": MySQL refuses an INSERT of a dump;
\* "no_slice": a day can pass without a slice being committed;
\* "padding": the four bytes of struct update_key that nothing sets differ between calls;
\* "same_second": two slices are made in one second.
ASSUME FaultsAssumption ==
    Faults \subseteq {"stale_slice", "insert_error", "no_slice", "padding", "same_second"}
ASSUME SettingsAssumption ==
    /\ ShowGrain \in Nat \ {0} /\ MaxPending \in Nat \ {0}
    /\ SliceInterval \in Nat \ {0} /\ SliceKeeptime \in Nat \ {0}
    /\ DayLength \in Nat \ {0}
ASSUME InputsAssumption == Changes \subseteq Int /\ Amounts \subseteq Nat \ {0}
ASSUME BoundsAssumption == MaxOps \in Nat /\ MaxTime \in Nat /\ MaxCrashes \in Nat
                         /\ MaxStops \in Nat /\ MaxChildren \in Nat

VARIABLES
    status,           \* the engine: "UP", "STOPPING", "RELEASING", "DOWN", "DEAD"
    mem,              \* the engine's memory
    operlog_id_start, \* the last operation id given out
    list,             \* operations not flushed yet
    table_last,       \* the day flush_log last created a table for
    requests,         \* job->request_head..tail: statements not executed yet
    executing,        \* the statement the worker executes, NoJob for none
    last_slice_time,  \* when the timer last made a slice, 0 for never
    children,         \* the forked children that are making a slice
    operlog,          \* rows of the tables operlog_<day>
    slice_order,      \* tables slice_order_<time>
    slice_balance,    \* tables slice_balance_<time>
    slice_history,    \* rows of slice_history
    now,              \* time(NULL)
    crashes, stops,   \* number of crashes and of orderly stops so far
    made,             \* id -> what the memory was when that operation was done
    accepted          \* keys accepted, without those a restart lost with the log's tail or
                      \* found in no operation behind the slice it loaded

buffers == <<list, table_last, requests, executing>>
slices == <<slice_order, slice_balance, slice_history>>
ghosts == <<made, accepted>>
vars == <<status, mem, operlog_id_start, buffers, last_slice_time, children,
          operlog, slices, now, crashes, stops, ghosts>>

NoJob == [day |-> 0, rows |-> <<>>, create |-> FALSE]
Day(t) == t \div DayLength

Empty == [x \in {} |-> 0]
EmptyMem == [avail |-> 0, frozen |-> 0, orders |-> Empty, order_id_start |-> 0,
             seen |-> Empty]

\* What a slice keeps of the memory: not the dictionary of me_update.c.
Image(m) == [avail |-> m.avail, frozen |-> m.frozen, orders |-> m.orders,
             order_id_start |-> m.order_id_start]
NoImage == [avail |-> -1, frozen |-> -1, orders |-> Empty, order_id_start |-> -1]

-----------------------------------------------------------------------------
(* Operations.  An operator that can be refused yields the set of its        *)
(* outcomes: one memory, or none.                                            *)

\* decimal(str, prec): mpd_rescale under MPD_ROUND_DOWN, towards zero
Decimal(x, grain) ==
    IF x >= 0 THEN (x \div grain) * grain ELSE -(((-x) \div grain) * grain)

\* dict_find of update_user_balance misses the key: it hashes and compares the whole struct, with
\* four bytes before business_id that no assignment sets.  Where they differ between two calls
\* the entry is missed, and the key is added a second time; what dict_find may find is then the
\* newest of its entries, the one kept here.
MissesKey(m, key) == key \notin DOMAIN m.seen \/ "padding" \in Faults

\* Mutant: dict_add is missing.
UpdateForgetsKey(m, key, change) ==
    IF MissesKey(m, key) /\ m.avail + change >= 0
    THEN {[m EXCEPT !.avail = @ + change]} ELSE {}

\* update_user_balance: -1 for a repetition, -2 for a balance that is too small
UpdateUserBalance(m, key, change) ==
    IF MissesKey(m, key) /\ m.avail + change >= 0
    THEN {[m EXCEPT !.avail = @ + change,
                    !.seen = [k \in DOMAIN @ \cup {key} |-> IF k = key THEN now ELSE @[k]]]}
    ELSE {}

\* market_put_order: balance_freeze comes last, and its failure is ignored.
OrderPut(m, id, amount) ==
    LET freezes == m.avail >= amount
    IN  [m EXCEPT !.orders = [i \in DOMAIN @ \cup {id} |-> IF i = id THEN amount ELSE @[i]],
                  !.avail = IF freezes THEN @ - amount ELSE @,
                  !.frozen = IF freezes THEN @ + amount ELSE @]

\* market_put_limit_order of an order that matches nothing
PutLimitOrder(m, amount) ==
    IF m.avail >= amount
    THEN {OrderPut([m EXCEPT !.order_id_start = @ + 1], m.order_id_start + 1, amount)}
    ELSE {}

\* market_get_order and market_cancel_order
CancelOrder(m, id) ==
    IF id \in DOMAIN m.orders
    THEN {[m EXCEPT !.orders = [i \in DOMAIN @ \ {id} |-> @[i]],
                    !.avail = @ + m.orders[id],
                    !.frozen = @ - m.orders[id]]}
    ELSE {}

\* me_load.c: an operation of the log, done again.  The change of a balance is cut to
\* prec_save, where the command had cut it to prec_show; the orders have their precisions.
LoadUpdateBalance(m, op) == UpdateUserBalance(m, op.key, Decimal(op.change, 1))
LoadLimitOrder(m, op) == PutLimitOrder(m, op.amount)
LoadCancelOrder(m, op) == CancelOrder(m, op.order_id)
LoadOper(m, op) ==
    CASE op.method = "update_balance" -> LoadUpdateBalance(m, op)
      [] op.method = "limit_order" -> LoadLimitOrder(m, op)
      [] op.method = "cancel_order" -> LoadCancelOrder(m, op)

-----------------------------------------------------------------------------
(* me_operlog.c and nw_job.c *)

IsOperlogBlock == Len(requests) >= MaxPending

AppendOperlog(op) ==
    /\ operlog_id_start' = operlog_id_start + 1
    /\ list' = Append(list, [id |-> operlog_id_start + 1, op |-> op])

\* A request of svr_on_recv_pkg that changes the state: it is logged when it
\* is done, and answered before the log is written.
Handle(op, outcomes) ==
    /\ status = "UP" /\ ~IsOperlogBlock /\ operlog_id_start < MaxOps
    /\ \E m \in outcomes :
          /\ mem' = m
          /\ made' = [made EXCEPT ![operlog_id_start + 1] = Image(m)]
    /\ AppendOperlog(op)
    /\ UNCHANGED <<status, table_last, requests, executing, last_slice_time, children,
                   operlog, slices, now, crashes, stops>>

OnCmdBalanceUpdate(key, change) ==
    /\ Handle([method |-> "update_balance", key |-> key, change |-> change],
              UpdateUserBalance(mem, key, Decimal(change, ShowGrain)))
    /\ accepted' = [k \in DOMAIN accepted \cup {key} |->
                       IF k = key THEN [id |-> operlog_id_start + 1, time |-> now]
                                  ELSE accepted[k]]

OnCmdOrderPutLimit(amount) ==
    /\ Handle([method |-> "limit_order", amount |-> amount], PutLimitOrder(mem, amount))
    /\ UNCHANGED accepted

OnCmdOrderCancel(id) ==
    /\ Handle([method |-> "cancel_order", order_id |-> id], CancelOrder(mem, id))
    /\ UNCHANGED accepted

\* me_update.c, on_timer: keys older than a day are dropped.
ExpireUpdates ==
    /\ status = "UP"
    /\ \E k \in DOMAIN mem.seen : mem.seen[k] < now - DayLength
    /\ mem' = [mem EXCEPT !.seen = [k \in {j \in DOMAIN @ : @[j] >= now - DayLength} |-> @[k]]]
    /\ UNCHANGED <<status, operlog_id_start, buffers, last_slice_time, children,
                   operlog, slices, now, crashes, stops, ghosts>>

\* flush_log: one INSERT for the whole list, after a CREATE TABLE when the
\* day's table is new to this process
Flushed ==
    LET insert == [day |-> Day(now), rows |-> list, create |-> FALSE]
        create == [day |-> Day(now), rows |-> <<>>, create |-> TRUE]
    IN  IF list = <<>> THEN requests
        ELSE requests \o (IF table_last # Day(now) THEN <<create, insert>> ELSE <<insert>>)

FlushLog ==
    /\ requests' = Flushed
    /\ table_last' = IF list = <<>> THEN table_last ELSE Day(now)
    /\ list' = <<>>

\* me_operlog.c, on_timer
OnTimerFlush ==
    /\ status = "UP" /\ list # <<>>
    /\ FlushLog
    /\ UNCHANGED <<status, mem, operlog_id_start, executing, last_slice_time,
                   children, operlog, slices, now, crashes, stops, ghosts>>

\* thread_routine takes the next request; a released job takes none.
TakeRequest ==
    /\ status \in {"UP", "STOPPING"}
    /\ executing = NoJob /\ requests # <<>>
    /\ executing' = Head(requests) /\ requests' = Tail(requests)
    /\ UNCHANGED <<status, mem, operlog_id_start, list, table_last, last_slice_time,
                   children, operlog, slices, now, crashes, stops, ghosts>>

Rows(job) == {[day |-> job.day, id |-> job.rows[i].id, op |-> job.rows[i].op] :
                 i \in DOMAIN job.rows}

\* The id is the primary key of a day's table: error 1062.
Duplicate(job) == \E r \in Rows(job), s \in operlog : r.day = s.day /\ r.id = s.id

\* Mutant: error 1062 is retried like any other.
RetryDuplicate(answered) ==
    /\ executing # NoJob
    /\ operlog' = IF Duplicate(executing) THEN operlog ELSE operlog \cup Rows(executing)
    /\ executing' = IF answered /\ ~Duplicate(executing) THEN NoJob ELSE executing
    /\ UNCHANGED <<status, mem, operlog_id_start, list, table_last, requests,
                   last_slice_time, children, slices, now, crashes, stops, ghosts>>

\* on_job: the statement is repeated until it is answered with success or
\* with 1062.  One that was executed but whose answer got lost is repeated; one
\* that was not executed changes nothing.
ExecuteSql(answered) ==
    /\ executing # NoJob
    /\ operlog' = IF Duplicate(executing) THEN operlog ELSE operlog \cup Rows(executing)
    /\ executing' = IF answered THEN NoJob ELSE executing
    /\ UNCHANGED <<status, mem, operlog_id_start, list, table_last, requests,
                   last_slice_time, children, slices, now, crashes, stops, ghosts>>

-----------------------------------------------------------------------------
(* me_persist.c and me_dump.c: making slices *)

Child == [time |-> now, image |-> Image(mem), oper |-> operlog_id_start,
          phase |-> "orders", old |-> {}]

\* Slices of the same second share the tables slice_*_<time>: nothing in make_slice or in the
\* command keeps them apart, but two come in a second only with "same_second".  (The statements
\* of one dump are one step; two children that are alike are one.)
NewSecond == (\A c \in children : c.time # now) /\ (\A s \in slice_history : s.time # now)
MakeSlice ==
    /\ status = "UP" /\ Cardinality(children) < MaxChildren
    /\ NewSecond \/ "same_second" \in Faults
    /\ children' = children \cup {Child}

\* me_persist.c, on_timer; fork may fail, and the next try is an interval away.
OnTimerSlice ==
    /\ status = "UP"
    /\ now - last_slice_time >= SliceInterval /\ now % SliceInterval = 0
    /\ last_slice_time' = now
    /\ \/ MakeSlice
       \/ UNCHANGED children
    /\ UNCHANGED <<status, mem, operlog_id_start, buffers, operlog, slices, now,
                   crashes, stops, ghosts>>

\* The makeslice command of me_cli.c
OnCmdMakeslice ==
    /\ MakeSlice
    /\ UNCHANGED <<status, mem, operlog_id_start, buffers, last_slice_time, operlog,
                   slices, now, crashes, stops, ghosts>>

Phase(c, phase) == children' = (children \ {c}) \cup {[c EXCEPT !.phase = phase]}

Put(f, x, y) == [z \in DOMAIN f \cup {x} |-> IF z = x THEN y ELSE f[z]]
Without(f, x) == [z \in DOMAIN f \ {x} |-> f[z]]

engine == <<status, mem, operlog_id_start, buffers, last_slice_time>>

\* dump_orders: mysql_real_query answers an error with a positive number and
\* the result of an INSERT is tested with `ret < 0', so its rows may be missing.
DumpOrders(c) ==
    /\ c.phase = "orders" /\ Phase(c, "balance")
    /\ slice_order' \in {Put(slice_order, c.time, c.image.orders)} \cup
          IF "insert_error" \in Faults THEN {Put(slice_order, c.time, Empty)} ELSE {}
    /\ UNCHANGED <<engine, operlog, slice_balance, slice_history, now, crashes, stops, ghosts>>

\* Mutant: the balances are those of the engine, not of the fork's copy.
DumpLiveBalance(c) ==
    /\ c.phase = "balance" /\ Phase(c, "history")
    /\ slice_balance' = Put(slice_balance, c.time, [avail |-> mem.avail, frozen |-> mem.frozen])
    /\ UNCHANGED <<engine, operlog, slice_order, slice_history, now, crashes, stops, ghosts>>

\* dump_balance: a table without a row stands for zero balances.
DumpBalance(c) ==
    /\ c.phase = "balance" /\ Phase(c, "history")
    /\ LET dumped == [avail |-> c.image.avail, frozen |-> c.image.frozen]
       IN  slice_balance' \in {Put(slice_balance, c.time, dumped)} \cup
              IF "insert_error" \in Faults
              THEN {Put(slice_balance, c.time, [avail |-> 0, frozen |-> 0])} ELSE {}
    /\ UNCHANGED <<engine, operlog, slice_order, slice_history, now, crashes, stops, ghosts>>

\* update_slice_history commits the slice.
UpdateSliceHistory(c) ==
    /\ c.phase = "history" /\ Phase(c, "dumped")
    /\ slice_history' = slice_history \cup
          {[id |-> Max({0} \cup {s.id : s \in slice_history}) + 1, time |-> c.time,
            end_oper_id |-> c.oper, end_order_id |-> c.image.order_id_start]}
    /\ UNCHANGED <<engine, operlog, slice_order, slice_balance, now, crashes, stops, ghosts>>

\* dump_to_db fails: no connection, or a DROP or CREATE TABLE that fails.  The
\* old slices are cleared all the same.
DumpFails(c) ==
    /\ c.phase \in {"orders", "balance", "history"} /\ Phase(c, "dumped")
    /\ UNCHANGED <<engine, operlog, slices, now, crashes, stops, ghosts>>

\* clear_slice: nothing is cleared unless a slice of the last slice_keeptime
\* seconds exists.
ClearSlice(c) ==
    /\ c.phase = "dumped"
    /\ IF \E s \in slice_history : s.time >= c.time - SliceKeeptime
       THEN children' = (children \ {c}) \cup
               {[c EXCEPT !.phase = "clear",
                          !.old = {s \in slice_history : s.time < c.time - SliceKeeptime}]}
       ELSE children' = children \ {c}
    /\ UNCHANGED <<engine, operlog, slices, now, crashes, stops, ghosts>>

\* delete_slice: the statements run in this order, and the first one that
\* fails (a table that is gone makes DROP TABLE fail) ends the child.
DeleteSlice(c, s, statements) ==
    /\ c.phase = "clear" /\ s \in c.old
    /\ statements > 0 => s.time \in DOMAIN slice_order
    /\ statements > 1 => s.time \in DOMAIN slice_balance
    /\ slice_order' = IF statements > 0 THEN Without(slice_order, s.time) ELSE slice_order
    /\ slice_balance' = IF statements > 1 THEN Without(slice_balance, s.time) ELSE slice_balance
    /\ slice_history' = IF statements = 3 THEN slice_history \ {s} ELSE slice_history
    /\ children' = (children \ {c}) \cup
          IF statements = 3 THEN {[c EXCEPT !.old = @ \ {s}]} ELSE {}
    /\ UNCHANGED <<engine, operlog, now, crashes, stops, ghosts>>

\* The child ends: it has cleared all, or it is killed at any point.
ChildEnds(c) ==
    /\ children' = children \ {c}
    /\ UNCHANGED <<engine, operlog, slices, now, crashes, stops, ghosts>>

-----------------------------------------------------------------------------
(* me_main.c, me_persist.c and me_load.c: stopping and starting *)

\* fini_operlog: flush, leave the worker 100 ms, ...
Stop ==
    /\ status = "UP" /\ stops < MaxStops
    /\ status' = "STOPPING" /\ stops' = stops + 1
    /\ FlushLog
    /\ UNCHANGED <<mem, operlog_id_start, executing, last_slice_time, children, operlog,
                   slices, now, crashes, ghosts>>

\* ... and nw_job_release: the worker ends after the statement it executes.
NwJobRelease ==
    /\ status = "STOPPING" /\ status' = "RELEASING"
    /\ UNCHANGED <<mem, operlog_id_start, buffers, last_slice_time, children, operlog,
                   slices, now, crashes, stops, ghosts>>

\* The process is gone, with all it had in memory.
Gone ==
    /\ status' = "DOWN"
    /\ mem' = EmptyMem /\ operlog_id_start' = 0
    /\ list' = <<>> /\ table_last' = -1 /\ requests' = <<>> /\ executing' = NoJob
    /\ last_slice_time' = 0
    /\ UNCHANGED <<children, operlog, slices, now, stops, ghosts>>

\* Mutant: the worker is joined when the queue is empty.
ExitWhenDrained ==
    /\ status = "RELEASING" /\ executing = NoJob /\ requests = <<>>
    /\ Gone /\ UNCHANGED crashes

Exit ==
    /\ status = "RELEASING" /\ executing = NoJob
    /\ Gone /\ UNCHANGED crashes

Crash ==
    /\ status \in {"UP", "STOPPING", "RELEASING"} /\ crashes < MaxCrashes
    /\ crashes' = crashes + 1
    /\ Gone

\* get_last_slice: ORDER BY id DESC LIMIT 1; a set of one row, or none
LastSlice == {s \in slice_history : \A t \in slice_history : t.id <= s.id}

LastEnd == Max({0} \cup {s.end_oper_id : s \in LastSlice})

\* Mutant: the balances are loaded first.
LoadBalanceFirst(s) ==
    LET start == [EmptyMem EXCEPT !.order_id_start = s.end_order_id,
                                  !.avail = slice_balance[s.time].avail,
                                  !.frozen = slice_balance[s.time].frozen]
        loaded[i \in 0..s.end_order_id] ==
            IF i = 0 THEN start
            ELSE IF i \in DOMAIN slice_order[s.time]
                 THEN OrderPut(loaded[i - 1], i, slice_order[s.time][i]) ELSE loaded[i - 1]
    IN  IF s.time \in DOMAIN slice_order \cap DOMAIN slice_balance
        THEN {loaded[s.end_order_id]} ELSE {}

\* load_slice_from_db: the orders are put in order of id, and what that does
\* to the balances is then overwritten by load_balance.
LoadSlice(s) ==
    LET loaded[i \in 0..s.end_order_id] ==
            IF i = 0 THEN [EmptyMem EXCEPT !.order_id_start = s.end_order_id]
            ELSE IF i \in DOMAIN slice_order[s.time]
                 THEN OrderPut(loaded[i - 1], i, slice_order[s.time][i]) ELSE loaded[i - 1]
    IN  IF s.time \in DOMAIN slice_order \cap DOMAIN slice_balance
        THEN {[loaded[s.end_order_id] EXCEPT !.avail = slice_balance[s.time].avail,
                                             !.frozen = slice_balance[s.time].frozen]}
        ELSE {}

\* load_operlog on the table of one day: the rows after last, in order of id,
\* none missing, each one performed; a failure leaves no outcome.
LoadOperlog(M, last, day) ==
    LET rows == {r \in operlog : r.day = day /\ r.id > last}
        end == last + Cardinality(rows)
        Op(i) == (CHOOSE r \in rows : r.id = i).op
        loaded[i \in last..end] ==
            IF i = last THEN M ELSE UNION {LoadOper(m, Op(i)) : m \in loaded[i - 1]}
    IN  IF {r.id : r \in rows} = (last + 1)..end
        THEN [end |-> end, mems |-> loaded[end]] ELSE [end |-> last, mems |-> {}]

\* Mutant: the tables of the days before are not read.
LoadToday(M, last, begin) == LoadOperlog(M, last, Day(now))

\* The tables from that of `begin' to today's
LoadDays(M, last, begin) ==
    LET loaded[d \in (Day(begin) - 1)..Day(now)] ==
            IF d < Day(begin) THEN [end |-> last, mems |-> M]
            ELSE LoadOperlog(loaded[d - 1].mems, loaded[d - 1].end, d)
    IN  loaded[Day(now)]

\* init_from_db; without a slice only today's table is read.
Loaded ==
    IF slice_history = {}
    THEN LoadOperlog({EmptyMem}, 0, Day(now))
    ELSE LET s == CHOOSE t \in LastSlice : TRUE
         IN  LoadDays(LoadSlice(s), s.end_oper_id, s.time)

\* A log that has a key twice is replayed only while dict_find goes on missing the first.
RepeatFound ==
    /\ "padding" \in Faults
    /\ \E r, s \in operlog :
          /\ LastEnd < r.id /\ r.id < s.id
          /\ r.op.method = "update_balance" /\ s.op.method = "update_balance" /\ r.op.key = s.op.key

\* The watchdog, or the operator after a stop, starts the engine again.  When
\* init_from_db fails the process exits, and its watchdog with it.
Restart ==
    /\ status = "DOWN"
    /\ "stale_slice" \in Faults \/ children = {}
    /\ \/ /\ Loaded.mems = {} \/ RepeatFound
          /\ status' = "DEAD"
          /\ UNCHANGED <<mem, operlog_id_start, last_slice_time, ghosts>>
       \/ /\ status' = "UP"
          /\ mem' \in Loaded.mems
          /\ operlog_id_start' = Loaded.end
          /\ last_slice_time' = Max({0} \cup {s.time : s \in LastSlice})
          /\ made' = [i \in DOMAIN made |-> IF i <= Loaded.end THEN made[i] ELSE NoImage]
          /\ accepted' = [k \in {j \in DOMAIN accepted : accepted[j].id \in LastEnd + 1 .. Loaded.end} |->
                             accepted[k]]
    /\ UNCHANGED <<buffers, children, operlog, slices, now, crashes, stops>>

\* Time passes.  A dump takes no more than a day; and unless slices fail
\* for a day, the last one is never older than a day and the first one comes
\* before the first midnight.
Tick ==
    /\ now < MaxTime /\ now' = now + 1
    /\ \A c \in children : c.phase \in {"orders", "balance", "history"} =>
          now' - c.time <= DayLength
    /\ \/ "no_slice" \in Faults
       \/ \E s \in LastSlice : now' - s.time <= DayLength
       \/ slice_history = {} /\ Day(now') = Day(now)
    /\ UNCHANGED <<engine, children, operlog, slices, crashes, stops, ghosts>>

-----------------------------------------------------------------------------
Init ==
    /\ status = "UP" /\ mem = EmptyMem /\ operlog_id_start = 0
    /\ list = <<>> /\ table_last = -1 /\ requests = <<>> /\ executing = NoJob
    /\ last_slice_time = 0 /\ children = {} /\ operlog = {}
    /\ slice_order = Empty /\ slice_balance = Empty /\ slice_history = {}
    /\ now = 1 /\ crashes = 0 /\ stops = 0
    /\ made = [i \in 0..MaxOps |-> IF i = 0 THEN Image(EmptyMem) ELSE NoImage]
    /\ accepted = Empty

Request ==
    \/ \E k \in Keys, c \in Changes : OnCmdBalanceUpdate(k, c)
    \/ \E a \in Amounts : OnCmdOrderPutLimit(a)
    \/ \E i \in 1..MaxOps : OnCmdOrderCancel(i)

Slice ==
    \/ OnTimerSlice \/ OnCmdMakeslice
    \/ \E c \in children :
          \/ DumpOrders(c) \/ DumpBalance(c) \/ UpdateSliceHistory(c) \/ DumpFails(c)
          \/ ClearSlice(c) \/ ChildEnds(c)
          \/ \E s \in c.old, n \in 0..3 : DeleteSlice(c, s, n)

Next ==
    \/ Request \/ ExpireUpdates
    \/ OnTimerFlush \/ TakeRequest \/ (\E answered \in BOOLEAN : ExecuteSql(answered))
    \/ Slice
    \/ Stop \/ NwJobRelease \/ Exit \/ Crash \/ Restart \/ Tick

\* Timers fire, threads run, and MySQL answers at last.
Fairness ==
    /\ WF_vars(OnTimerFlush) /\ WF_vars(TakeRequest) /\ WF_vars(ExecuteSql(TRUE))
    /\ WF_vars(NwJobRelease) /\ WF_vars(Exit)

Spec == Init /\ [][Next]_vars /\ Fairness
-----------------------------------------------------------------------------
(* Properties *)

\* What doc/README_origin.md says of matchengine: it "redoes the operation log
\* when start".  The balances, the open orders and the ids an engine has, after
\* any number of crashes, are those the operations up to its last id made when
\* they were first done.
RestartRedoesLog == status = "UP" => Image(mem) = made[operlog_id_start]

\* A restart forgets no operation that is in the log: operations are lost only
\* with a crash and only from the end of the log that was not written yet.
DurableKept ==
    [][status = "DOWN" /\ status' # "DOWN" =>
          status' = "UP" /\ \A r \in operlog : r.id <= operlog_id_start']_vars

\* The slice a restart would load is whole, and it is the memory of one
\* instant, that of its end_oper_id, however its child was interleaved with
\* the engine, with other slices and with the deletion of old ones.
SliceIntact ==
    \A s \in LastSlice :
        /\ s.time \in DOMAIN slice_order \cap DOMAIN slice_balance
        /\ LET m == made[s.end_oper_id]
           IN  /\ slice_order[s.time] = m.orders
               /\ slice_balance[s.time] = [avail |-> m.avail, frozen |-> m.frozen]
               /\ s.end_order_id = m.order_id_start

\* A balance.update that was accepted less than a day ago is refused: what the reply "repeat
\* update" of on_cmd_balance_update says.  After a restart that holds for the operations behind
\* the slice it loaded: the dictionary of me_update.c is in no slice.
RepeatRefused ==
    [][\A k \in DOMAIN accepted :
          accepted[k].time >= now - DayLength /\ k \in DOMAIN accepted'
             => accepted'[k] = accepted[k]]_vars

\* Every operation gets to its table, unless the engine stops or crashes first.
OperationsReachLog ==
    \A i \in 1..MaxOps :
        (status = "UP" /\ operlog_id_start >= i) ~>
            ((\E r \in operlog : r.id = i) \/ i <= LastEnd \/ status # "UP")

\* A stop ends: nw_job_release joins a worker that never waits for ever.
StopEnds == (status \in {"STOPPING", "RELEASING"}) ~> (status = "DOWN")
=============================================================================
