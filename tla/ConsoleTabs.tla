----------------------------- MODULE ConsoleTabs -----------------------------
(***************************************************************************)
(* The query console of one connection in the web client: the runs of its  *)
(* tabs and their cancellation (components/query/QueryConsole.tsx), and    *)
(* the manual transactions of the tabs (hooks/useConsoleTransactions.ts,   *)
(* lib/consoleTransaction.ts).  The server is what ConsoleSessions         *)
(* promises: sessions it may refuse, fail, abort or expire.                *)
(*                                                                         *)
(* The connection takes manual transactions.  A run is a sequence of       *)
(* statements the user has confirmed, each a write (TRUE) or a read.       *)
(***************************************************************************)
EXTENDS Naturals, FiniteSets, Sequences

CONSTANTS
    Tabs,   \* ids of console tabs
    Tab1,   \* the id of the first one
    Sids,   \* session ids
    Runs,   \* what the user may run: a set of sequences of BOOLEAN
    MaxEvents, \* bound: what the user does and the idle timer, showing a tab left out
    Null    \* no session, no call

VARIABLES
    tabs,       \* what became of each tab: "unused", "open" or "closed"
    active,     \* activeTabId
    tx,         \* the transaction state of each tab
    loop,       \* per tab, the run that awaits a call of it
    isRunning,
    controller, \* the tab whose run the abort controller belongs to
    finish,     \* the commit, rollback or close the user waits for
    idle,       \* per tab, the close the idle timer waits for
    closing,    \* sessions closed without waiting for the answer
    mounted,
    sess,       \* the server's sessions
    orphans,    \* sessions no one will end but the server
    events      \* how many bounded events there were

vars == <<tabs, active, tx, loop, isRunning, controller, finish, idle, closing, mounted,
          sess, orphans, events>>

Tx == [mode : {"auto", "manual"}, sid : Sids \cup {Null}, pending : Nat, aborted : BOOLEAN]
Reply == {Null, "ok", "failed", "gone"}
Loop == [left : Seq(BOOLEAN), cancelled : BOOLEAN, call : {"begin", "session", "auto"},
         sid : Sids \cup {Null}, reply : Reply]
Finish == [tab : Tabs, sid : Sids, shown : Tabs, action : {"commit", "rollback", "close"},
           next : {"stay", "auto", "remove"}, reply : Reply]
Idle == [sid : Sids, reply : Reply \ {"failed"}]
Session == [state : {"none", "open", "aborted", "ended"}, tab : Tabs \cup {Null}, done : Nat]

ASSUME ConsoleTabsAssumption ==
    /\ Null \notin Tabs \cup Sids /\ Runs \subseteq Seq(BOOLEAN) \ {<<>>}
    /\ Null \notin {"ok", "failed", "gone"} /\ Null \notin Loop /\ Null \notin Finish /\ Null \notin Idle
    /\ Tab1 \in Tabs /\ MaxEvents \in Nat

Live(s) == sess[s].state \in {"open", "aborted"}
Open(t) == tabs[t] = "open"
isFinishingTransaction == finish # Null
Counted == events < MaxEvents /\ events' = events + 1
inFlight == {t \in Tabs : loop[t] # Null \/ idle[t] # Null}
-----------------------------------------------------------------------------
(* consoleTransactionReducer, on the state of one tab.                     *)

ToMode(x, mode) == IF x.sid # Null THEN x ELSE [x EXCEPT !.mode = mode]
Begun(x, s) == IF x.mode # "manual" \/ x.sid # Null THEN x ELSE [x EXCEPT !.sid = s]
Success(x, write) ==
    IF x.sid = Null \/ x.aborted \/ ~write THEN x ELSE [x EXCEPT !.pending = @ + 1]
Abort(x) == IF x.sid = Null THEN x ELSE [x EXCEPT !.aborted = TRUE]
\* Mutant: the count of the last transaction stays.
End_keepsPending(x) == [x EXCEPT !.sid = Null, !.aborted = FALSE]
End(x) == [x EXCEPT !.sid = Null, !.pending = 0, !.aborted = FALSE]

-----------------------------------------------------------------------------
(* Runs.                                                                   *)

\* The call that execute makes for the first of the statements left, or Null
\* when there is none to make and the run ends.
Call(x, left, cancelled) ==
    IF left = <<>> \/ cancelled \/ x.aborted THEN Null
    ELSE [left |-> left, cancelled |-> FALSE, sid |-> x.sid, reply |-> Null,
          call |-> IF x.sid # Null THEN "session"
                   ELSE IF x.mode = "manual" /\ Head(left) THEN "begin" ELSE "auto"]

\* The run of a tab awaits its next call, or ends, whatever run is shown.
Continue(t, next) ==
    /\ loop' = [loop EXCEPT ![t] = next]
    /\ IF next = Null THEN isRunning' = FALSE /\ controller' = Null
       ELSE UNCHANGED <<isRunning, controller>>

\* A run of a tab whose call is under way, or whose transaction is aborted,
\* ends at once with an error: nothing changes.
runStatements(t, statements) ==
    /\ Counted
    /\ mounted /\ t = active /\ ~isRunning /\ ~isFinishingTransaction
    /\ t \notin inFlight /\ ~tx[t].aborted
    /\ loop' = [loop EXCEPT ![t] = Call(tx[t], statements, FALSE)]
    /\ isRunning' = TRUE /\ controller' = t
    /\ UNCHANGED <<tabs, active, tx, finish, idle, closing, mounted, sess, orphans>>

\* Only a statement outside a session takes the abort signal.
handleCancelQuery ==
    /\ Counted
    /\ mounted /\ isRunning /\ ~isFinishingTransaction
    /\ loop' = [t \in Tabs |->
                  IF t # controller \/ loop[t] = Null THEN loop[t]
                  ELSE IF loop[t].call = "auto" THEN Null
                  ELSE [loop[t] EXCEPT !.cancelled = TRUE]]
    /\ isRunning' = FALSE /\ controller' = Null
    /\ UNCHANGED <<tabs, active, tx, finish, idle, closing, mounted, sess, orphans>>

\* Mutant: execute goes on with the state it read before the begin.
BeginAnswered_stale(t) ==
    /\ loop[t] # Null /\ loop[t].call = "begin" /\ loop[t].reply = "ok" /\ mounted
    /\ tx' = [tx EXCEPT ![t] = Begun(@, loop[t].sid)]
    /\ Continue(t, [loop[t] EXCEPT !.reply = Null, !.sid = Null, !.call = "auto"])
    /\ UNCHANGED <<tabs, active, finish, idle, closing, mounted, sess, orphans, events>>

\* Mutant: execute does not look whether the console is still there.
BeginAnswered_gone(t) ==
    /\ loop[t] # Null /\ loop[t].call = "begin" /\ loop[t].reply = "ok"
    /\ tx' = [tx EXCEPT ![t] = Begun(@, loop[t].sid)]
    /\ Continue(t, [loop[t] EXCEPT !.reply = Null, !.call = "session"])
    /\ UNCHANGED <<tabs, active, finish, idle, closing, mounted, sess, orphans, events>>

\* The session is there.  A console that is gone closes it; otherwise the
\* statement follows, outside the session if the tab left manual mode.
BeginAnswered(t) ==
    /\ loop[t] # Null /\ loop[t].call = "begin" /\ loop[t].reply = "ok"
    /\ LET s == loop[t].sid
           x == Begun(tx[t], s)
       IN IF mounted
          THEN /\ tx' = [tx EXCEPT ![t] = x]
               /\ Continue(t, IF loop[t].cancelled /\ x.sid = Null THEN Null
                              ELSE [loop[t] EXCEPT !.reply = Null, !.sid = x.sid,
                                      !.call = IF x.sid # Null THEN "session" ELSE "auto"])
               /\ orphans' = IF x.sid = s THEN orphans ELSE orphans \cup {s}
               /\ UNCHANGED closing
          ELSE /\ closing' = closing \cup {s}
               /\ Continue(t, Null)
               /\ UNCHANGED <<tx, orphans>>
    /\ UNCHANGED <<tabs, active, finish, idle, mounted, sess, events>>

ExecuteAnswered(t) ==
    /\ loop[t] # Null /\ loop[t].call # "begin" /\ loop[t].reply = "ok"
    /\ LET x == IF loop[t].call = "session" THEN Success(tx[t], Head(loop[t].left)) ELSE tx[t]
       IN /\ tx' = [tx EXCEPT ![t] = x]
          /\ Continue(t, Call(x, Tail(loop[t].left), loop[t].cancelled))
    /\ UNCHANGED <<tabs, active, finish, idle, closing, mounted, sess, orphans, events>>

\* Mutant: the error does not end the run, which tries the statement again.
ExecuteFails_retries(t, lost) ==
    /\ loop[t] # Null /\ loop[t].reply # Null
    /\ lost \/ loop[t].reply # "ok"
    /\ LET x == IF ~lost /\ loop[t].reply = "gone" THEN End(tx[t]) ELSE Abort(tx[t])
       IN tx' = [tx EXCEPT ![t] = x] /\ Continue(t, Call(x, loop[t].left, loop[t].cancelled))
    /\ orphans' = IF loop[t].call = "begin" /\ loop[t].sid # Null
                  THEN orphans \cup {loop[t].sid} ELSE orphans
    /\ UNCHANGED <<tabs, active, finish, idle, closing, mounted, sess, events>>

\* The call fails, or its answer is lost.
ExecuteFails(t, lost) ==
    /\ loop[t] # Null /\ loop[t].reply # Null
    /\ lost \/ loop[t].reply # "ok"
    /\ tx' = [tx EXCEPT ![t] = IF ~lost /\ loop[t].reply = "gone" THEN End(@) ELSE Abort(@)]
    /\ orphans' = IF loop[t].call = "begin" /\ loop[t].sid # Null
                  THEN orphans \cup {loop[t].sid} ELSE orphans
    /\ Continue(t, Null)
    /\ UNCHANGED <<tabs, active, finish, idle, closing, mounted, sess, events>>

-----------------------------------------------------------------------------
(* Ending a transaction.                                                   *)

Finishing(t, action, next) ==
    finish' = [tab |-> t, sid |-> tx[t].sid, shown |-> active, action |-> action, next |-> next,
               reply |-> Null]

\* The buttons, and the dialog that leaves manual mode.
finishActiveTransaction(action, next) ==
    /\ Counted
    /\ mounted /\ tx[active].sid # Null /\ ~isRunning /\ ~isFinishingTransaction
    /\ action = "commit" => ~tx[active].aborted
    /\ Finishing(active, action, next)
    /\ UNCHANGED <<tabs, active, tx, loop, isRunning, controller, idle, closing, mounted, sess,
                   orphans>>

\* The tab goes once its session is closed; the last one leaves a new tab.
\* Another tab is shown when the user had this one, then or at first.
Removed(t, shown) ==
    LET remaining == {u \in Tabs \ {t} : Open(u)}
    IN IF remaining = {}
       THEN /\ active' \in {u \in Tabs : tabs[u] = "unused"}
            /\ tabs' = [tabs EXCEPT ![t] = "closed", ![active'] = "open"]
       ELSE /\ active' \in IF t \in {active, shown} THEN remaining ELSE {active}
            /\ tabs' = [tabs EXCEPT ![t] = "closed"]

\* Mutant: finish does not look whether there is a session.
handleConfirmCloseTab_always(t) ==
    /\ Counted
    /\ mounted /\ Open(t) /\ ~isRunning /\ ~isFinishingTransaction
    /\ Finishing(t, "close", "remove")
    /\ UNCHANGED <<tabs, active, tx, loop, isRunning, controller, idle, closing, mounted, sess,
                   orphans>>

\* Bound: the model has a tab left to show.
handleConfirmCloseTab(t) ==
    /\ Counted
    /\ mounted /\ Open(t) /\ ~isRunning /\ ~isFinishingTransaction
    /\ \E u \in Tabs \ {t} : tabs[u] # "closed"
    /\ IF tx[t].sid # Null
       THEN Finishing(t, "close", "remove") /\ UNCHANGED <<tabs, active>>
       ELSE Removed(t, active) /\ UNCHANGED finish
    /\ UNCHANGED <<tx, loop, isRunning, controller, idle, closing, mounted, sess, orphans>>

\* finish ends the transaction, or finds that it has ended.
FinishAnswered ==
    /\ finish # Null /\ finish.reply \in {"ok", "gone"}
    /\ LET t == finish.tab
       IN /\ tx' = [tx EXCEPT ![t] = IF finish.next = "auto" THEN ToMode(End(@), "auto") ELSE End(@)]
          /\ IF finish.next = "remove" /\ mounted THEN Removed(t, finish.shown)
             ELSE UNCHANGED <<tabs, active>>
    /\ finish' = Null
    /\ UNCHANGED <<loop, isRunning, controller, idle, closing, mounted, sess, orphans, events>>

\* A conflict marks the transaction; any other failure leaves it as it is.
FinishFails(conflict) ==
    /\ finish # Null /\ finish.reply # Null
    /\ conflict => finish.reply = "failed"
    /\ tx' = IF conflict THEN [tx EXCEPT ![finish.tab] = Abort(@)] ELSE tx
    /\ finish' = Null
    /\ UNCHANGED <<tabs, active, loop, isRunning, controller, idle, closing, mounted, sess, orphans, events>>

\* Five minutes without a call of the tab.
IdleCloses(t) ==
    /\ Counted
    /\ mounted /\ tx[t].sid # Null /\ t \notin inFlight
    /\ idle' = [idle EXCEPT ![t] = [sid |-> tx[t].sid, reply |-> Null]]
    /\ UNCHANGED <<tabs, active, tx, loop, isRunning, controller, finish, closing, mounted, sess,
                   orphans>>

\* The answer may be lost: the timer tries again.
IdleAnswered(t) ==
    /\ idle[t] # Null /\ idle[t].reply # Null
    /\ tx' \in {tx, [tx EXCEPT ![t] = End(@)]}
    /\ idle' = [idle EXCEPT ![t] = Null]
    /\ UNCHANGED <<tabs, active, loop, isRunning, controller, finish, closing, mounted, sess,
                   orphans, events>>

closeAll == closing' = closing \cup ({tx[t].sid : t \in Tabs} \ {Null})

\* The console is closed, or the page hidden: it may be shown again.
Unmount ==
    /\ Counted
    /\ mounted /\ mounted' = FALSE
    /\ closeAll
    /\ UNCHANGED <<tabs, active, tx, loop, isRunning, controller, finish, idle, sess, orphans>>

PageHides ==
    /\ Counted
    /\ mounted /\ closeAll
    /\ UNCHANGED <<tabs, active, tx, loop, isRunning, controller, finish, idle, mounted, sess,
                   orphans>>

-----------------------------------------------------------------------------
(* Tabs.                                                                   *)

handleSelectTab(t) ==
    /\ mounted /\ Open(t)
    /\ active' = t
    /\ UNCHANGED <<tabs, tx, loop, isRunning, controller, finish, idle, closing, mounted, sess,
                   orphans, events>>

handleNewTab(t) ==
    /\ Counted
    /\ mounted /\ tabs[t] = "unused"
    /\ tabs' = [tabs EXCEPT ![t] = "open"] /\ active' = t
    /\ UNCHANGED <<tx, loop, isRunning, controller, finish, idle, closing, mounted, sess, orphans>>

SelectMode(mode) ==
    /\ Counted
    /\ mounted /\ ~isRunning /\ ~isFinishingTransaction /\ tx[active].sid = Null
    /\ tx' = [tx EXCEPT ![active] = ToMode(@, mode)]
    /\ UNCHANGED <<tabs, active, loop, isRunning, controller, finish, idle, closing, mounted, sess,
                   orphans>>

-----------------------------------------------------------------------------
(* The server: sessions live until they are finished, closed or expire.    *)

Ended(s) == sess' = [sess EXCEPT ![s].state = "ended"]

ServerBegins(t, s) ==
    /\ loop[t] # Null /\ loop[t].call = "begin" /\ loop[t].reply = Null
    /\ sess[s].state = "none" /\ ~\E r \in Sids : Live(r) /\ sess[r].tab = t
    /\ sess' = [sess EXCEPT ![s] = [state |-> "open", tab |-> t, done |-> 0]]
    /\ loop' = [loop EXCEPT ![t].reply = "ok", ![t].sid = s]
    /\ UNCHANGED <<tabs, active, tx, isRunning, controller, finish, idle, closing, mounted, orphans, events>>

\* It refuses a begin, or a statement fails.
ServerFails(t) ==
    /\ loop[t] # Null /\ loop[t].reply = Null
    /\ loop[t].call = "session" => sess[loop[t].sid].state = "open"
    /\ loop' = [loop EXCEPT ![t].reply = "failed"]
    /\ sess' = IF loop[t].call = "session" THEN [sess EXCEPT ![loop[t].sid].state = "aborted"] ELSE sess
    /\ UNCHANGED <<tabs, active, tx, isRunning, controller, finish, idle, closing, mounted, orphans, events>>

ServerExecutes(t) ==
    /\ loop[t] # Null /\ loop[t].call # "begin" /\ loop[t].reply = Null
    /\ IF loop[t].call = "session"
       THEN LET s == loop[t].sid
            IN IF sess[s].state = "open"
               THEN /\ loop' = [loop EXCEPT ![t].reply = "ok"]
                    /\ sess' = [sess EXCEPT ![s].done = IF Head(loop[t].left) THEN @ + 1 ELSE @]
               ELSE /\ loop' = [loop EXCEPT ![t].reply = IF Live(s) THEN "failed" ELSE "gone"]
                    /\ UNCHANGED sess
       ELSE loop' = [loop EXCEPT ![t].reply = "ok"] /\ UNCHANGED sess
    /\ UNCHANGED <<tabs, active, tx, isRunning, controller, finish, idle, closing, mounted, orphans, events>>

\* A commit of an aborted transaction is a conflict.
FinishReply(s, action) ==
    IF ~Live(s) THEN "gone"
    ELSE IF action = "commit" /\ sess[s].state = "aborted" THEN "failed" ELSE "ok"

ServerFinishes ==
    /\ finish # Null /\ finish.reply = Null
    /\ LET reply == FinishReply(finish.sid, finish.action)
       IN /\ finish' = [finish EXCEPT !.reply = reply]
          /\ IF reply = "ok" THEN Ended(finish.sid) ELSE UNCHANGED sess
    /\ UNCHANGED <<tabs, active, tx, loop, isRunning, controller, idle, closing, mounted, orphans, events>>

ServerClosesIdle(t) ==
    /\ idle[t] # Null /\ idle[t].reply = Null
    /\ LET reply == FinishReply(idle[t].sid, "close")
       IN /\ idle' = [idle EXCEPT ![t].reply = reply]
          /\ IF reply = "ok" THEN Ended(idle[t].sid) ELSE UNCHANGED sess
    /\ UNCHANGED <<tabs, active, tx, loop, isRunning, controller, finish, closing, mounted, orphans, events>>

ServerCloses(s) ==
    /\ s \in closing /\ closing' = closing \ {s}
    /\ IF Live(s) THEN Ended(s) ELSE UNCHANGED sess
    /\ UNCHANGED <<tabs, active, tx, loop, isRunning, controller, finish, idle, mounted, orphans, events>>

CloseLost(s) ==
    /\ s \in closing /\ closing' = closing \ {s} /\ orphans' = orphans \cup {s}
    /\ UNCHANGED <<tabs, active, tx, loop, isRunning, controller, finish, idle, mounted, sess, events>>

ServerExpires(s) ==
    /\ Live(s) /\ Ended(s)
    /\ UNCHANGED <<tabs, active, tx, loop, isRunning, controller, finish, idle, closing, mounted,
                   orphans, events>>
-----------------------------------------------------------------------------
TypeOK ==
    /\ tabs \in [Tabs -> {"unused", "open", "closed"}] /\ active \in Tabs
    /\ tx \in [Tabs -> Tx] /\ loop \in [Tabs -> Loop \cup {Null}]
    /\ isRunning \in BOOLEAN /\ mounted \in BOOLEAN
    /\ controller \in Tabs \cup {Null}
    /\ finish \in Finish \cup {Null} /\ idle \in [Tabs -> Idle \cup {Null}]
    /\ closing \subseteq Sids /\ orphans \subseteq Sids
    /\ sess \in [Sids -> Session] /\ events \in 0 .. MaxEvents

\* One tab is open; the default mode is a preference.
Init ==
    /\ active = Tab1 /\ tabs = [t \in Tabs |-> IF t = Tab1 THEN "open" ELSE "unused"]
    /\ \E mode \in {"auto", "manual"} :
          tx = [t \in Tabs |-> [mode |-> mode, sid |-> Null, pending |-> 0, aborted |-> FALSE]]
    /\ loop = [t \in Tabs |-> Null] /\ isRunning = FALSE /\ controller = Null
    /\ finish = Null /\ idle = [t \in Tabs |-> Null] /\ closing = {} /\ mounted = TRUE
    /\ sess = [s \in Sids |-> [state |-> "none", tab |-> Null, done |-> 0]] /\ orphans = {} /\ events = 0

UserStep ==
    \/ \E t \in Tabs, statements \in Runs : runStatements(t, statements)
    \/ \E action \in {"commit", "rollback"}, next \in {"stay", "auto"} :
          finishActiveTransaction(action, next)
    \/ \E t \in Tabs : handleSelectTab(t) \/ handleNewTab(t) \/ handleConfirmCloseTab(t)
    \/ \E mode \in {"auto", "manual"} : SelectMode(mode)
    \/ handleCancelQuery \/ Unmount \/ PageHides

\* The run of a tab: what the server does for it, and what its answers do.
RunStep(t) ==
    \/ BeginAnswered(t) \/ ExecuteAnswered(t) \/ \E lost \in BOOLEAN : ExecuteFails(t, lost)
    \/ ServerFails(t) \/ ServerExecutes(t) \/ \E s \in Sids : ServerBegins(t, s)

FinishStep == ServerFinishes \/ FinishAnswered \/ \E conflict \in BOOLEAN : FinishFails(conflict)

IdleStep(t) == ServerClosesIdle(t) \/ IdleAnswered(t)

CloseStep(s) == ServerCloses(s) \/ CloseLost(s)

\* A call of the console goes on.
CallStep ==
    \/ FinishStep
    \/ \E t \in Tabs : RunStep(t) \/ IdleStep(t)
    \/ \E s \in Sids : CloseStep(s)

Next ==
    \/ UserStep \/ CallStep
    \/ \E t \in Tabs : IdleCloses(t)
    \/ \E s \in Sids : ServerExpires(s)

\* The browser ends every call, with an answer or with an error.
Spec == Init /\ [][Next]_vars /\ WF_vars(CallStep)
-----------------------------------------------------------------------------
\* A session that lives is known to its tab, or about to be, or being closed:
\* whatever runs, cancels, closes and answers cross each other.  The exceptions
\* are the ones whose begin or close was lost on the way, and the one begun for
\* a tab that left manual mode meanwhile.  Once the console is gone, knowing is
\* not enough (useConsoleTransactions: begin, finish and closeAll).
NoSessionForgotten ==
    \A s \in Sids : Live(s) =>
        \/ s \in closing \cup orphans
        \/ \E t \in Tabs : loop[t] # Null /\ loop[t].call = "begin" /\ loop[t].sid = s
        \/ mounted /\ \E t \in Tabs : tx[t].sid = s

\* The badge counts the writes the open transaction holds, however many
\* transactions the tab had, however many of its runs were cancelled.
PendingIsOfSession ==
    \A t \in Tabs :
        LET s == tx[t].sid
        IN s # Null /\ ~tx[t].aborted /\ loop[t] = Null /\ Live(s)
              => sess[s] = [state |-> "open", tab |-> t, done |-> tx[t].pending]

\* A statement goes where the tab says when it starts: into its transaction,
\* which is not aborted, and a write goes outside only in auto mode, though
\* the mode may change while the run waits (execute).
StatementsGoWhereShown ==
    [][\A t \in Tabs :
          LET call == loop'[t]
          IN call # Null /\ call.call # "begin" /\ call.reply = Null /\ call # loop[t]
                /\ (loop[t] # Null => [call EXCEPT !.cancelled = FALSE] # [loop[t] EXCEPT !.cancelled = FALSE])
             => IF call.call = "session" THEN call.sid = tx'[t].sid /\ ~tx'[t].aborted
                ELSE tx'[t].sid = Null /\ (Head(call.left) => tx'[t].mode = "auto")]_vars

\* A console that is left holds no transaction for long, the one whose begin
\* was under way included (the unmount effect, and execute after a begin).
LeavingClosesAll == ~mounted ~> \A s \in Sids : Live(s) => s \in orphans
=============================================================================
