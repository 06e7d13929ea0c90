------------------------------ MODULE WatchLoop ------------------------------
(***************************************************************************)
(* `self wait-on`: one wait of the provider's runner, the drain after a    *)
(* match, the receipt, and with `follow` the next wait.  Posts arrive      *)
(* between any two steps.  A post is named by its number, the cursor is    *)
(* the number of the last post seen.                                       *)
(***************************************************************************)
EXTENDS EvidenceLogs, Integers

CONSTANTS MaxPosts, MaxIntervals, MaxWaitFaults

ASSUME WatchAssumption == {MaxPosts, MaxIntervals, MaxWaitFaults} \subseteq Nat

VARIABLES
    watch,       \* where the process is
    follow,      \* the flag of the spec
    paste_safe,  \* every field of the spec is
    after,       \* the exclusive cursor, spec.after
    posted,      \* posts of the provider
    waited,      \* the outcome of this interval
    reported,    \* the posts printed on receipts, in order
    log,         \* the receipt of this interval
    intervals, process_exit, waitFaults

watchVars == <<watch, follow, paste_safe, after, posted, waited, reported, log,
               intervals, process_exit, waitFaults>>

NoPost == 0
NotRun == [waiter |-> "NotStarted", result |-> "Error", exit |-> 2, drained |-> <<>>, newest |-> NoPost, drain_error |-> FALSE]
WatchInit ==
    /\ watch = "wait" /\ follow \in BOOLEAN /\ paste_safe \in BOOLEAN
    /\ after = 0 /\ posted = 0 /\ waited = NotRun /\ reported = <<>> /\ log = <<>>
    /\ intervals = 0 /\ process_exit = -1 /\ waitFaults = 0

WaitFault == waitFaults < MaxWaitFaults /\ waitFaults' = waitFaults + 1

WaitResults == {"Matched", "Timeout", "Error"}

\* The exit of the process says what the runner said.
FromCode(result) == CASE result = "Matched" -> 0 [] result = "Timeout" -> 1 [] OTHER -> 2

\* execute_wait_on.  The runner matches when there is a post past the cursor; it
\* may also fail, end before it should, or match nothing.
ExecuteWaitOn ==
    /\ watch = "wait" /\ watch' = "drain"
    /\ \/ ~paste_safe /\ waited' = NotRun /\ UNCHANGED waitFaults
       \/ paste_safe /\ WaitFault /\ waited' = NotRun
       \/ /\ paste_safe
          /\ \E result \in WaitResults :
                /\ waited' = [NotRun EXCEPT !.waiter = "Completed", !.result = result, !.exit = FromCode(result)]
                /\ \/ result = "Matched" /\ posted > after /\ UNCHANGED waitFaults
                   \/ result = "Timeout" /\ posted = after /\ UNCHANGED waitFaults
                   \/ WaitFault
    /\ UNCHANGED <<follow, paste_safe, after, posted, reported, log, intervals, process_exit>>

\* parse_drained_events refuses an empty page; ids are distinct and in order.
Page(first, last) == [k \in 1..(last - first + 1) |-> first + k - 1]

\* attach_drain
Drained(page) == [waited EXCEPT !.drained = page, !.newest = page[Len(page)]]

DrainFailed == [waited EXCEPT !.drain_error = TRUE, !.exit = 2]

AttachDrain ==
    /\ watch = "drain" /\ watch' = "receipt"
    /\ IF waited.result # "Matched" THEN UNCHANGED <<waited, waitFaults>>
       ELSE \/ posted > after /\ waited' = Drained(Page(after + 1, posted)) /\ UNCHANGED waitFaults
            \/ posted = after /\ waited' = DrainFailed /\ UNCHANGED waitFaults
            \/ WaitFault /\ waited' = DrainFailed
    /\ UNCHANGED <<follow, paste_safe, after, posted, reported, log, intervals, process_exit>>

Fact(phase, detail) == [phase |-> phase, detail |-> detail]
WaiterRecords(so_far, phase, detail) == Recorded(so_far, Fact(phase, detail), "WaiterProcess")

\* waiter_receipt_log
WaiterReceipts(outcome) ==
    LET armed == WaiterRecords(<<>>, "WaitArmed", "none")
    IN IF outcome.waiter = "NotStarted"
       THEN Recorded(<<>>, Fact("CoverageEnded", "runner_not_started"), "ControlPlane")
       ELSE CASE outcome.result = "Matched" -> WaiterRecords(armed, "WaiterCompleted", "matched")
              [] outcome.result = "Timeout" ->
                     WaiterRecords(WaiterRecords(armed, "WaiterCompleted", "deadman_expired"), "CoverageEnded", "deadman_expired")
              [] OTHER ->
                     WaiterRecords(WaiterRecords(<<>>, "WaiterCompleted", "failed"), "CoverageEnded", "provider_failed")

\* lifecycle_log
LifecycleLog(outcome) ==
    IF outcome.drain_error
    THEN Recorded(WaiterReceipts(outcome), Fact("CoverageEnded", "provider_failed"), "ControlPlane")
    ELSE IF outcome.result = "Matched" /\ outcome.drained # <<>>
    THEN Recorded(WaiterReceipts(outcome), Fact("EventsDrained", "count"), "Provider")
    ELSE WaiterReceipts(outcome)

\* render_wait_receipt
PrintReceipt ==
    /\ watch = "receipt" /\ watch' = "advance"
    /\ log' = LifecycleLog(waited)
    /\ reported' = reported \o waited.drained
    /\ UNCHANGED <<follow, paste_safe, after, posted, waited, intervals, process_exit, waitFaults>>

\* coverage_advance
Continues == \/ waited.result = "Matched" /\ waited.newest # NoPost
             \/ waited.result = "Timeout"

\* Mutant: a quiet interval moves the cursor to what was posted meanwhile.
AdvancedCursorToNewest == IF waited.result = "Matched" THEN waited.newest ELSE posted

AdvancedCursor == IF waited.result = "Matched" THEN waited.newest ELSE after

StopExit == IF waited.result = "Error" /\ waited.exit # 0 THEN waited.exit ELSE 2

Advance ==
    /\ watch = "advance" /\ intervals < MaxIntervals
    /\ IF follow /\ Continues
       THEN /\ watch' = "wait" /\ after' = AdvancedCursor /\ intervals' = intervals + 1
            /\ UNCHANGED process_exit
       ELSE /\ watch' = "exited"
            /\ process_exit' = IF follow THEN StopExit ELSE waited.exit
            /\ UNCHANGED <<after, intervals>>
    /\ UNCHANGED <<follow, paste_safe, posted, waited, reported, log, waitFaults>>

\* External: the channel.
Post ==
    /\ posted < MaxPosts /\ posted' = posted + 1
    /\ UNCHANGED <<watch, follow, paste_safe, after, waited, reported, log, intervals, process_exit, waitFaults>>

WatchNext == ExecuteWaitOn \/ AttachDrain \/ PrintReceipt \/ Advance \/ Post
WatchSpec == WatchInit /\ [][WatchNext]_watchVars

-----------------------------------------------------------------------------
\* Whatever is posted and whenever, the receipts list every post once and in order,
\* up to the cursor of the next wait, and none that was withheld.
PostsReportedOnce ==
    /\ reported = Page(1, Len(reported))
    /\ watch \in {"wait", "drain", "receipt"} => after = Len(reported)

\* A receipt never claims more of its interval than a process of the runner can show:
\* a drain only with the posts it lists, nothing of a turn, and no end of coverage
\* beside a drain; and the facts it has can always be put on one log.
ReceiptHonest ==
    watch = "advance" =>
        /\ log # NotALog
        /\ PhasesOf(log) \subseteq {"WaitArmed", "WaiterCompleted", "EventsDrained", "CoverageEnded"}
        /\ "EventsDrained" \in PhasesOf(log) <=> waited.drained # <<>>
        /\ "EventsDrained" \in PhasesOf(log) => "CoverageEnded" \notin PhasesOf(log)
        /\ waited.waiter = "NotStarted" <=> "WaiterCompleted" \notin PhasesOf(log)

\* The receipt and what the process does next agree on the end of coverage: a watcher
\* that stops for any reason but a match has said that coverage ended, and one that
\* waits again has not, except after a quiet interval.  The exception is the code's and
\* against the domain's own words for the fact, "without a successor wait" and "no
\* successor was established" (interrupt.rs:126 and 186): a watcher that follows waits
\* again behind a receipt that says so.
CoverageTold ==
    /\ watch = "exited" /\ process_exit # 0 => "CoverageEnded" \in PhasesOf(log)
    /\ watch = "wait" /\ "CoverageEnded" \in PhasesOf(log) =>
           log[Len(log)] = Fact("CoverageEnded", "deadman_expired")

\* The exit says a match only when its posts are on the receipt, and a quiet
\* interval only when nothing was drained; a watcher that follows never ends well.
ExitTruthful ==
    watch = "exited" =>
        /\ process_exit = 0 => waited.drained # <<>> /\ ~waited.drain_error
        /\ process_exit = 1 => waited.result = "Timeout" /\ reported = <<>>
        /\ follow => process_exit = 2

\* What the watcher tells its caller, in receipts and by its exit, is what happened, but
\* for the end of coverage that the receipt of a quiet interval has.
WatchReports == PostsReportedOnce /\ ReceiptHonest /\ CoverageTold /\ ExitTruthful
=============================================================================
