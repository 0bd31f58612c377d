--------------------------- MODULE ConsoleTabs_proofs ---------------------------
(***************************************************************************)
(* Proofs about ConsoleTabs, for any number of tabs, sessions and runs:    *)
(* its type invariant; that no session of the server is forgotten; that    *)
(* the badge counts the writes of the open transaction; and that           *)
(* statements go where the tab says.                                       *)
(***************************************************************************)
EXTENDS ConsoleTabs, SequenceTheorems, TLAPS

-----------------------------------------------------------------------------
(* The inductive invariant.                                                *)

\* The session was begun, for the tab.  S is the server's sessions, now or after
\* a step.
Known(S, s, t) == s \in Sids /\ S[s].state # "none" /\ S[s].tab = t
HasEnded(S, s) == S[s].state = "ended"

\* A run that awaits its call, given the state of its tab: a call in a session
\* is in the tab's, unless that has ended meanwhile; a begin is for a tab that
\* has none, and its session is new.
LoopFits(S, t, l, x) ==
    /\ l.left # <<>>
    /\ IF l.call = "session"
       THEN /\ Known(S, l.sid, t) /\ x.sid \in {l.sid, Null}
            /\ l.reply = "gone" => HasEnded(S, l.sid)
       ELSE x.sid = Null /\ l.reply # "gone"
    /\ l.call = "begin" =>
         /\ l.sid # Null <=> l.reply = "ok"
         /\ l.sid # Null => /\ Known(S, l.sid, t)
                            /\ S[l.sid].done = 0 /\ S[l.sid].state # "aborted"

\* The transaction of a tab: nothing is pending without a session.
TxFits(S, t, x) ==
    IF x.sid = Null THEN x.pending = 0 /\ ~x.aborted ELSE Known(S, x.sid, t)

\* The close of the idle timer: it is of the tab's session, unless that has
\* ended, and no run of the tab is under way.
IdleFits(S, t, l, x, d) == d # Null =>
    /\ l = Null /\ Known(S, d.sid, t) /\ x.sid \in {d.sid, Null}
    /\ d.reply # Null => HasEnded(S, d.sid)

\* The writes counted are the ones executed, but for the one whose answer is
\* on its way.
Counts(S, l, x) == x.sid # Null /\ ~x.aborted /\ S[x.sid].state \in {"open", "aborted"} =>
    LET exact == S[x.sid].state = "open" /\ S[x.sid].done = x.pending
        oneMore == S[x.sid].state = "open" /\ S[x.sid].done = x.pending + 1
    IN IF l = Null THEN exact
       ELSE /\ l.reply = Null => exact
            /\ l.reply = "ok" => IF Head(l.left) THEN oneMore ELSE exact

Fits(S, t, l, x, d) ==
    /\ l # Null => LoopFits(S, t, l, x)
    /\ TxFits(S, t, x) /\ IdleFits(S, t, l, x, d) /\ Counts(S, l, x)

TabsFit == \A t \in Tabs : Fits(sess, t, loop[t], tx[t], idle[t])

\* What the user waits for is the end of the tab's session, or that has ended
\* and the tab cannot begin another one.
EndFits(S, f, l, x) ==
    /\ Known(S, f.sid, f.tab)
    /\ x.sid = f.sid \/ (x.sid = Null /\ l = Null)
    /\ f.reply \in {"ok", "gone"} => HasEnded(S, f.sid)

FinishFits == finish # Null => EndFits(sess, finish, loop[finish.tab], tx[finish.tab])

IInv == TypeOK /\ TabsFit /\ FinishFits /\ NoSessionForgotten
-----------------------------------------------------------------------------
(* The reducer and the calls of a run.                                     *)

\* Null is no run, no finish and no close.
LEMMA NullIsNothing ==
    /\ Null \notin Tabs /\ Null \notin Sids /\ Null \notin Loop /\ Null \notin Finish /\ Null \notin Idle
    /\ Null # "ok" /\ Null # "failed" /\ Null # "gone"
  BY ConsoleTabsAssumption

\* The actions of the reducer keep the type of a tab's state.
LEMMA ReducerType ==
    ASSUME NEW x \in Tx
    PROVE  /\ \A mode \in {"auto", "manual"} : ToMode(x, mode) \in Tx
           /\ \A s \in Sids : Begun(x, s) \in Tx
           /\ \A write \in BOOLEAN : Success(x, write) \in Tx
           /\ Abort(x) \in Tx /\ End(x) \in Tx
  <1>1. \A mode \in {"auto", "manual"} : ToMode(x, mode) \in Tx
    BY DEF Tx, ToMode
  <1>2. \A s \in Sids : Begun(x, s) \in Tx
    BY DEF Tx, Begun
  <1>3. x.pending + 1 \in Nat
    BY DEF Tx
  <1>4. \A write \in BOOLEAN : Success(x, write) \in Tx
    BY <1>3 DEF Tx, Success
  <1>5. Abort(x) \in Tx
    BY DEF Tx, Abort
  <1>6. End(x) \in Tx
    BY DEF Tx, End
  <1> QED BY <1>1, <1>2, <1>4, <1>5, <1>6

\* What the reducer does to the session, the count and the mark.
LEMMA ReducerEffect ==
    ASSUME NEW x \in Tx
    PROVE  /\ \A mode \in {"auto", "manual"} :
                /\ ToMode(x, mode).sid = x.sid /\ ToMode(x, mode).pending = x.pending
                /\ ToMode(x, mode).aborted = x.aborted
           /\ \A write \in BOOLEAN :
                /\ Success(x, write).sid = x.sid /\ Success(x, write).aborted = x.aborted
                /\ Success(x, write).pending =
                     IF x.sid = Null \/ x.aborted \/ ~write THEN x.pending ELSE x.pending + 1
           /\ Abort(x).sid = x.sid /\ Abort(x).pending = x.pending
           /\ Abort(x).aborted = IF x.sid = Null THEN x.aborted ELSE TRUE
           /\ End(x).sid = Null /\ End(x).pending = 0 /\ End(x).aborted = FALSE
           /\ End(x).mode = x.mode
  BY DEF Tx, ToMode, Success, Abort, End

\* A session that is begun is the tab's, if the tab still wants one.
LEMMA BegunEffect ==
    ASSUME NEW x \in Tx, NEW s \in Sids, x.sid = Null
    PROVE  /\ Begun(x, s).sid = IF x.mode = "manual" THEN s ELSE Null
           /\ Begun(x, s).pending = x.pending /\ Begun(x, s).aborted = x.aborted
           /\ Begun(x, s).mode = x.mode
  BY DEF Tx, Begun

\* The next call of a run.
LEMMA CallType ==
    ASSUME NEW x \in Tx, NEW left \in Seq(BOOLEAN), NEW cancelled \in BOOLEAN
    PROVE  /\ Call(x, left, cancelled) \in Loop \cup {Null}
           /\ Call(x, left, cancelled) # Null =>
                /\ left # <<>> /\ ~x.aborted
                /\ Call(x, left, cancelled).left = left
                /\ Call(x, left, cancelled).sid = x.sid
                /\ Call(x, left, cancelled).reply = Null
                /\ (Call(x, left, cancelled).call = "session") = (x.sid # Null)
                /\ Call(x, left, cancelled).call = "auto" => (Head(left) => x.mode # "manual")
  <1>1. CASE left = <<>> \/ cancelled \/ x.aborted
    BY <1>1 DEF Call
  <1>2. CASE ~(left = <<>> \/ cancelled \/ x.aborted)
    <2> DEFINE c == IF x.sid # Null THEN "session"
                    ELSE IF x.mode = "manual" /\ Head(left) THEN "begin" ELSE "auto"
               l == [left |-> left, cancelled |-> FALSE, sid |-> x.sid, reply |-> Null, call |-> c]
    <2>1. Call(x, left, cancelled) = l
      BY <1>2 DEF Call
    <2>2. x.sid \in Sids \cup {Null}
      BY DEF Tx
    <2>3. c \in {"begin", "session", "auto"}
      OBVIOUS
    <2>4. l \in Loop
      <3> HIDE DEF c
      <3> QED BY <2>2, <2>3 DEF Loop, Reply
    <2>5. (c = "session") = (x.sid # Null)
      OBVIOUS
    <2>6. c = "auto" => (Head(left) => x.mode # "manual")
      OBVIOUS
    <2>7. l.left = left /\ l.sid = x.sid /\ l.reply = Null /\ l.call = c
      OBVIOUS
    <2> HIDE DEF l, c
    <2> QED BY <1>2, <2>1, <2>4, <2>5, <2>6, <2>7
  <1> QED BY <1>1, <1>2

\* In particular the first one.
LEMMA FirstCall ==
    ASSUME NEW x \in Tx, NEW left \in Seq(BOOLEAN)
    PROVE  /\ Call(x, left, FALSE) \in Loop \cup {Null}
           /\ Call(x, left, FALSE) # Null =>
                /\ left # <<>> /\ ~x.aborted
                /\ Call(x, left, FALSE).left = left
                /\ Call(x, left, FALSE).sid = x.sid
                /\ Call(x, left, FALSE).reply = Null
                /\ (Call(x, left, FALSE).call = "session") = (x.sid # Null)
                /\ Call(x, left, FALSE).call = "auto" => (Head(left) => x.mode # "manual")
  <1>1. FALSE \in BOOLEAN
    OBVIOUS
  <1> QED BY <1>1, CallType, Zenon

-----------------------------------------------------------------------------
(* What a step keeps of the tabs it is not about.                          *)

\* The sessions of a tab are as they were, or have ended.
Same(S, S2, t) == \A s \in Sids : Known(S, s, t) =>
    \/ S2[s] = S[s]
    \/ S2[s].state = "ended" /\ S2[s].tab = t /\ S2[s].done = S[s].done

\* Sessions of the tab that end disturb nothing.
LEMMA FitsKept ==
    ASSUME NEW S \in [Sids -> Session], NEW S2 \in [Sids -> Session], NEW t \in Tabs,
           NEW l \in Loop \cup {Null}, NEW x \in Tx, NEW d \in Idle \cup {Null},
           Fits(S, t, l, x, d), Same(S, S2, t)
    PROVE  Fits(S2, t, l, x, d)
  <1>1. \A s : Known(S, s, t) => Known(S2, s, t) /\ (HasEnded(S, s) => HasEnded(S2, s))
    BY DEF Same, Known, HasEnded
  <1>2. l # Null => LoopFits(S2, t, l, x)
    <2> SUFFICES ASSUME l # Null PROVE LoopFits(S2, t, l, x)
      OBVIOUS
    <2>1. LoopFits(S, t, l, x)
      BY DEF Fits
    <2>2. l.call = "begin" /\ l.sid # Null => S2[l.sid].done = 0 /\ S2[l.sid].state # "aborted"
      BY <2>1 DEF LoopFits, Same, Known
    <2> QED BY <1>1, <2>1, <2>2 DEF LoopFits
  <1>3. TxFits(S2, t, x)
    BY <1>1 DEF Fits, TxFits
  <1>4. IdleFits(S2, t, l, x, d)
    BY <1>1 DEF Fits, IdleFits
  <1>5. Counts(S2, l, x)
    <2>1. x.sid # Null => Known(S, x.sid, t)
      BY DEF Fits, TxFits
    <2>2. x.sid # Null /\ S2[x.sid].state \in {"open", "aborted"} => S2[x.sid] = S[x.sid]
      BY <2>1 DEF Same, Known
    <2> QED BY <2>2 DEF Fits, Counts
  <1> QED BY <1>2, <1>3, <1>4, <1>5 DEF Fits

\* A step about one tab.
LEMMA OneTab ==
    ASSUME TypeOK, TabsFit, NEW t \in Tabs,
           NEW l \in Loop \cup {Null}, NEW x \in Tx, NEW d \in Idle \cup {Null},
           loop' = [loop EXCEPT ![t] = l], tx' = [tx EXCEPT ![t] = x], idle' = [idle EXCEPT ![t] = d],
           sess' \in [Sids -> Session], \A u \in Tabs \ {t} : Same(sess, sess', u),
           Fits(sess', t, l, x, d)
    PROVE  /\ TabsFit' /\ loop' \in [Tabs -> Loop \cup {Null}] /\ tx' \in [Tabs -> Tx]
           /\ idle' \in [Tabs -> Idle \cup {Null}]
           /\ loop'[t] = l /\ tx'[t] = x /\ idle'[t] = d
           /\ \A u \in Tabs \ {t} : loop'[u] = loop[u] /\ tx'[u] = tx[u] /\ idle'[u] = idle[u]
  <1>1. /\ loop' \in [Tabs -> Loop \cup {Null}] /\ tx' \in [Tabs -> Tx]
        /\ idle' \in [Tabs -> Idle \cup {Null}]
        /\ loop'[t] = l /\ tx'[t] = x /\ idle'[t] = d
        /\ \A u \in Tabs \ {t} : loop'[u] = loop[u] /\ tx'[u] = tx[u] /\ idle'[u] = idle[u]
    BY DEF TypeOK
  <1>2. ASSUME NEW u \in Tabs \ {t} PROVE Fits(sess', u, loop'[u], tx'[u], idle'[u])
    <2>1. Fits(sess, u, loop[u], tx[u], idle[u]) /\ Same(sess, sess', u)
      BY DEF TabsFit
    <2>2. /\ sess \in [Sids -> Session] /\ loop[u] \in Loop \cup {Null} /\ tx[u] \in Tx
          /\ idle[u] \in Idle \cup {Null}
      BY DEF TypeOK
    <2>3. Fits(sess', u, loop[u], tx[u], idle[u])
      BY <2>1, <2>2, FitsKept
    <2> QED BY <1>1, <2>3
  <1>3. TabsFit'
    BY <1>1, <1>2 DEF TabsFit
  <1> QED BY <1>1, <1>3

\* Sessions that do not change are the same.
LEMMA Unchanged == ASSUME sess' = sess PROVE \A u \in Tabs : Same(sess, sess', u)
  BY DEF Same

\* A session that ends.
LEMMA EndedSame ==
    ASSUME TypeOK, NEW s \in Sids, Ended(s)
    PROVE  /\ sess' \in [Sids -> Session] /\ \A u \in Tabs : Same(sess, sess', u)
           /\ HasEnded(sess', s) /\ \A r \in Sids : r # s => sess'[r] = sess[r]
           /\ sess'[s].tab = sess[s].tab /\ sess'[s].done = sess[s].done
  <1> DEFINE e == [sess[s] EXCEPT !.state = "ended"]
  <1>1. e \in Session /\ e.state = "ended" /\ e.tab = sess[s].tab /\ e.done = sess[s].done
    BY DEF TypeOK, Session
  <1>2. sess' = [sess EXCEPT ![s] = e]
    BY DEF Ended, TypeOK
  <1> HIDE DEF e
  <1>3. /\ sess' \in [Sids -> Session] /\ sess'[s] = e
        /\ \A r \in Sids : r # s => sess'[r] = sess[r]
    BY <1>1, <1>2 DEF TypeOK
  <1> QED BY <1>1, <1>3 DEF Same, Known, HasEnded

\* Every tab fits when only sessions change, and only by ending.
LEMMA NoTab ==
    ASSUME TypeOK, TabsFit, UNCHANGED <<loop, tx, idle>>,
           sess' \in [Sids -> Session], \A u \in Tabs : Same(sess, sess', u)
    PROVE  TabsFit'
  <1>1. ASSUME NEW u \in Tabs PROVE Fits(sess', u, loop[u], tx[u], idle[u])
    <2>1. /\ sess \in [Sids -> Session] /\ loop[u] \in Loop \cup {Null} /\ tx[u] \in Tx
          /\ idle[u] \in Idle \cup {Null}
      BY DEF TypeOK
    <2> QED BY <2>1, FitsKept DEF TabsFit
  <1> QED BY <1>1 DEF TabsFit

\* What the user waits for, when its session is the same or has ended.
LEMMA EndKept ==
    ASSUME NEW S \in [Sids -> Session], NEW S2 \in [Sids -> Session],
           NEW f \in Finish, NEW l \in Loop \cup {Null}, NEW x \in Tx, EndFits(S, f, l, x),
           \A s \in Sids : S[s].state # "none" =>
              S2[s].state # "none" /\ S2[s].tab = S[s].tab /\ (HasEnded(S, s) => HasEnded(S2, s))
    PROVE  EndFits(S2, f, l, x)
  BY DEF EndFits, Known, HasEnded

-----------------------------------------------------------------------------
(* What the steps have in common.                                          *)

\* The types of what no tab has for itself.
RestOK ==
    /\ tabs \in [Tabs -> {"unused", "open", "closed"}] /\ active \in Tabs
    /\ isRunning \in BOOLEAN /\ mounted \in BOOLEAN
    /\ controller \in Tabs \cup {Null} /\ finish \in Finish \cup {Null}
    /\ closing \subseteq Sids /\ orphans \subseteq Sids /\ events \in 0 .. MaxEvents

\* A bounded event is one of a number of events.
LEMMA Counting == ASSUME TypeOK, Counted PROVE events' \in 0 .. MaxEvents
  BY ConsoleTabsAssumption DEF TypeOK, Counted

\* What a tab has, as it is.
LEMMA Itself ==
    ASSUME TypeOK, NEW t \in Tabs
    PROVE  /\ loop[t] \in Loop \cup {Null} /\ tx[t] \in Tx /\ idle[t] \in Idle \cup {Null}
           /\ loop = [loop EXCEPT ![t] = loop[t]] /\ tx = [tx EXCEPT ![t] = tx[t]]
           /\ idle = [idle EXCEPT ![t] = idle[t]]
  BY DEF TypeOK

\* A call of a run, with its answer or told to be the last.
LEMMA LoopUpdate ==
    ASSUME NEW l \in Loop, NEW r \in Reply
    PROVE  /\ [l EXCEPT !.reply = r] \in Loop
           /\ [l EXCEPT !.reply = r].left = l.left /\ [l EXCEPT !.reply = r].call = l.call
           /\ [l EXCEPT !.reply = r].sid = l.sid /\ [l EXCEPT !.reply = r].reply = r
           /\ [l EXCEPT !.cancelled = TRUE] \in Loop
           /\ [l EXCEPT !.cancelled = TRUE].left = l.left /\ [l EXCEPT !.cancelled = TRUE].call = l.call
           /\ [l EXCEPT !.cancelled = TRUE].sid = l.sid /\ [l EXCEPT !.cancelled = TRUE].reply = l.reply
  BY DEF Loop

\* What the user waits for still is, when its tab and its session allow it.
LEMMA FinishStays ==
    ASSUME TypeOK, finish' = finish, sess' \in [Sids -> Session],
           \A t \in Tabs : loop'[t] \in Loop \cup {Null} /\ tx'[t] \in Tx,
           \A s \in Sids : sess[s].state # "none" =>
              sess'[s].state # "none" /\ sess'[s].tab = sess[s].tab
                 /\ (HasEnded(sess, s) => HasEnded(sess', s)),
           finish # Null => EndFits(sess, finish, loop'[finish.tab], tx'[finish.tab])
    PROVE  FinishFits'
  <1> SUFFICES ASSUME finish # Null
               PROVE  EndFits(sess', finish, loop'[finish.tab], tx'[finish.tab])
    BY DEF FinishFits
  <1>1. finish \in Finish /\ finish.tab \in Tabs /\ sess \in [Sids -> Session]
    BY DEF TypeOK, Finish
  <1> QED BY <1>1, EndKept

-----------------------------------------------------------------------------
(* The steps of the user and of the timer.                                 *)

\* The tabs' runs, transactions and closes, and the sessions, are as they were.
LEMMA Quiet ==
    ASSUME IInv, RestOK', UNCHANGED <<loop, tx, idle, sess, finish>>, NoSessionForgotten'
    PROVE  IInv'
  <1>1. TypeOK'
    BY DEF IInv, TypeOK, RestOK
  <1>2. TabsFit' /\ FinishFits'
    BY DEF IInv, TabsFit, FinishFits
  <1> QED BY <1>1, <1>2 DEF IInv

\* A tab that goes leaves one to show.
LEMMA RemovedType ==
    ASSUME TypeOK, NEW t \in Tabs, NEW shown \in Tabs, Removed(t, shown)
    PROVE  tabs' \in [Tabs -> {"unused", "open", "closed"}] /\ active' \in Tabs
  BY DEF TypeOK, Removed

\* Showing and adding tabs, hiding the page and leaving the console: the sessions
\* of the tabs are closed when the console goes.
LEMMA QuietSteps ==
    ASSUME IInv,
           \/ \E t \in Tabs : handleSelectTab(t) \/ handleNewTab(t)
           \/ PageHides \/ Unmount
    PROVE  IInv'
  <1> USE DEF IInv
  <1>1. RestOK'
    <2>1. \A t \in Tabs : tx[t].sid \in Sids \cup {Null}
      BY DEF TypeOK, Tx
    <2>2. {tx[t].sid : t \in Tabs} \ {Null} \subseteq Sids
      BY <2>1
    <2>3. CASE \E t \in Tabs : handleSelectTab(t) \/ handleNewTab(t)
      BY <2>3, Counting DEF TypeOK, RestOK, handleSelectTab, handleNewTab
    <2>4. CASE PageHides \/ Unmount
      BY <2>2, <2>4, Counting DEF TypeOK, RestOK, PageHides, Unmount, closeAll
    <2> QED BY <2>3, <2>4
  <1>2. UNCHANGED <<loop, tx, idle, sess, finish>>
    BY DEF handleSelectTab, handleNewTab, PageHides, Unmount
  <1>3. CASE \E t \in Tabs : handleSelectTab(t) \/ handleNewTab(t)
    <2>1. UNCHANGED <<closing, orphans, mounted>>
      BY <1>3 DEF handleSelectTab, handleNewTab
    <2>2. NoSessionForgotten'
      BY <2>1, <1>2 DEF NoSessionForgotten, Live
    <2> QED BY <2>2, <1>1, <1>2, Quiet
  <1>4. CASE PageHides \/ Unmount
    <2>1. closing' = closing \cup ({tx[t].sid : t \in Tabs} \ {Null}) /\ orphans' = orphans
      BY <1>4 DEF PageHides, Unmount, closeAll
    <2>2. ASSUME NEW s \in Sids, Live(s)'
          PROVE  \/ s \in closing' \cup orphans'
                 \/ \E t \in Tabs : loop'[t] # Null /\ loop'[t].call = "begin" /\ loop'[t].sid = s
      <3>1. Live(s) /\ s # Null
        BY <1>2, <2>2, NullIsNothing DEF Live
      <3>2. CASE \E t \in Tabs : tx[t].sid = s
        BY <3>1, <3>2, <2>1
      <3>3. CASE ~\E t \in Tabs : tx[t].sid = s
        BY <3>1, <3>3, <2>1, <1>2 DEF NoSessionForgotten
      <3> QED BY <3>2, <3>3
    <2>3. NoSessionForgotten'
      BY <2>2 DEF NoSessionForgotten
    <2> QED BY <2>3, <1>1, <1>2, Quiet
  <1> QED BY <1>3, <1>4

-----------------------------------------------------------------------------
(* The steps about one tab.                                                *)

\* A run of the tab awaits the begin that gave the session.
Begins(l, s) == l # Null /\ l.call = "begin" /\ l.sid = s

\* The step is about the tab, and what the user waits for fits it.
About(t, l, x, d) ==
    /\ loop' = [loop EXCEPT ![t] = l] /\ tx' = [tx EXCEPT ![t] = x] /\ idle' = [idle EXCEPT ![t] = d]
    /\ finish' = Null \/ finish' = finish
    /\ finish' # Null /\ finish.tab = t => EndFits(sess, finish, l, x)

\* It remembers the sessions that the tab knew or begins.
Remembers(t, l, x) ==
    /\ closing \subseteq closing' /\ orphans \subseteq orphans' /\ mounted' = mounted
    /\ \A s \in Sids : sess'[s].state \in {"open", "aborted"}
             /\ (~Live(s) \/ Begins(loop[t], s) \/ (mounted /\ tx[t].sid = s))
          => s \in closing' \cup orphans' \/ Begins(l, s) \/ (mounted /\ x.sid = s)

\* Sessions once begun stay the ones of their tab, and those of other tabs can
\* only end.
SessionsGoOn(t) ==
    /\ sess' \in [Sids -> Session] /\ \A u \in Tabs \ {t} : Same(sess, sess', u)
    /\ \A s \in Sids : sess[s].state # "none" =>
           sess'[s].state # "none" /\ sess'[s].tab = sess[s].tab
              /\ (HasEnded(sess, s) => HasEnded(sess', s))

\* A step about one tab keeps the invariant when the tab fits afterwards, and
\* so does what the user waits for, and the sessions it knew or begins are
\* remembered.
LEMMA TabStep ==
    ASSUME IInv, RestOK', NEW t \in Tabs,
           NEW l \in Loop \cup {Null}, NEW x \in Tx, NEW d \in Idle \cup {Null},
           About(t, l, x, d), Remembers(t, l, x), SessionsGoOn(t), Fits(sess', t, l, x, d)
    PROVE  IInv'
  <1>1. /\ TabsFit' /\ loop' \in [Tabs -> Loop \cup {Null}] /\ tx' \in [Tabs -> Tx]
        /\ idle' \in [Tabs -> Idle \cup {Null}] /\ loop'[t] = l /\ tx'[t] = x
        /\ \A u \in Tabs \ {t} : loop'[u] = loop[u] /\ tx'[u] = tx[u]
    BY OneTab DEF IInv, About, SessionsGoOn
  <1>2. TypeOK'
    BY <1>1 DEF TypeOK, RestOK, SessionsGoOn
  <1>3. FinishFits'
    <2> USE DEF About, SessionsGoOn
    <2>1. CASE finish' = Null
      BY <2>1 DEF FinishFits
    <2>2. CASE finish' # Null
      <3>1. finish' = finish /\ finish \in Finish /\ finish.tab \in Tabs
        BY <2>2 DEF IInv, TypeOK, Finish
      <3>2. EndFits(sess, finish, loop'[finish.tab], tx'[finish.tab])
        <4>1. CASE finish.tab = t
          BY <4>1, <2>2, <1>1
        <4>2. CASE finish.tab # t
          BY <4>2, <3>1, <2>2, <1>1 DEF IInv, FinishFits
        <4> QED BY <4>1, <4>2
      <3>3. \A u \in Tabs : loop'[u] \in Loop \cup {Null} /\ tx'[u] \in Tx
        BY <1>1
      <3> QED BY <3>1, <3>2, <3>3, FinishStays DEF IInv
    <2> QED BY <2>1, <2>2
  <1>4. NoSessionForgotten'
    <2> SUFFICES ASSUME NEW s \in Sids, sess'[s].state \in {"open", "aborted"}
                 PROVE  \/ s \in closing' \cup orphans'
                        \/ \E u \in Tabs : loop'[u] # Null /\ loop'[u].call = "begin" /\ loop'[u].sid = s
                        \/ mounted' /\ \E u \in Tabs : tx'[u].sid = s
      BY DEF NoSessionForgotten, Live
    <2>1. CASE ~Live(s) \/ Begins(loop[t], s) \/ (mounted /\ tx[t].sid = s)
      BY <2>1, <1>1 DEF Begins, Remembers
    <2>2. CASE Live(s) /\ ~Begins(loop[t], s) /\ ~(mounted /\ tx[t].sid = s)
      <3>1. CASE s \in closing \cup orphans
        BY <3>1 DEF Remembers
      <3>2. CASE \E u \in Tabs : loop[u] # Null /\ loop[u].call = "begin" /\ loop[u].sid = s
        BY <3>2, <2>2, <1>1 DEF Begins
      <3>3. CASE mounted /\ \E u \in Tabs : tx[u].sid = s
        BY <3>3, <2>2, <1>1 DEF Remembers
      <3>4. NoSessionForgotten
        BY DEF IInv
      <3>5. \/ s \in closing \cup orphans
            \/ \E u \in Tabs : loop[u] # Null /\ loop[u].call = "begin" /\ loop[u].sid = s
            \/ mounted /\ \E u \in Tabs : tx[u].sid = s
        BY <2>2, <3>4 DEF NoSessionForgotten
      <3> QED BY <3>1, <3>2, <3>3, <3>5
    <2> QED BY <2>1, <2>2
  <1> QED BY <1>1, <1>2, <1>3, <1>4 DEF IInv

\* A step about one tab that leaves the sessions alone.
LEMMA ClientStep ==
    ASSUME IInv, RestOK', NEW t \in Tabs,
           NEW l \in Loop \cup {Null}, NEW x \in Tx, NEW d \in Idle \cup {Null},
           About(t, l, x, d), Remembers(t, l, x), sess' = sess, Fits(sess, t, l, x, d)
    PROVE  IInv'
  <1>1. SessionsGoOn(t)
    BY Unchanged DEF IInv, TypeOK, SessionsGoOn, HasEnded
  <1> QED BY <1>1, TabStep

\* What is known of a tab.
LEMMA TabFacts ==
    ASSUME IInv, NEW t \in Tabs
    PROVE  /\ loop[t] \in Loop \cup {Null} /\ tx[t] \in Tx /\ idle[t] \in Idle \cup {Null}
           /\ loop[t] # Null => loop[t] \in Loop /\ LoopFits(sess, t, loop[t], tx[t]) /\ idle[t] = Null
           /\ TxFits(sess, t, tx[t]) /\ IdleFits(sess, t, loop[t], tx[t], idle[t])
           /\ Counts(sess, loop[t], tx[t])
           /\ finish # Null /\ finish.tab = t => EndFits(sess, finish, loop[t], tx[t])
  <1>1. loop[t] \in Loop \cup {Null} /\ tx[t] \in Tx /\ idle[t] \in Idle \cup {Null}
    BY DEF IInv, TypeOK
  <1>2. Fits(sess, t, loop[t], tx[t], idle[t])
    BY DEF IInv, TabsFit
  <1>3. finish # Null /\ finish.tab = t => EndFits(sess, finish, loop[t], tx[t])
    BY DEF IInv, FinishFits
  <1> QED BY <1>1, <1>2, <1>3 DEF Fits, IdleFits

\* A run begins with a call that fits its tab.
LEMMA RunBegins ==
    ASSUME IInv, NEW t \in Tabs, NEW statements \in Runs, runStatements(t, statements)
    PROVE  IInv'
  <1> DEFINE l == Call(tx[t], statements, FALSE)
  <1>1. /\ loop' = [loop EXCEPT ![t] = l] /\ loop[t] = Null /\ idle[t] = Null /\ finish = Null
        /\ UNCHANGED <<tabs, active, tx, finish, idle, closing, mounted, sess, orphans>>
        /\ controller' = t /\ isRunning' = TRUE /\ Counted
    BY DEF runStatements, isFinishingTransaction, inFlight
  <1>2. statements \in Seq(BOOLEAN) /\ tx[t] \in Tx
    BY ConsoleTabsAssumption, TabFacts
  <1>3. /\ l \in Loop \cup {Null}
        /\ l # Null => /\ l.left # <<>> /\ l.reply = Null /\ l.sid = tx[t].sid
                       /\ (l.call = "session") = (tx[t].sid # Null)
    <2> DEFINE x == tx[t]
    <2>2. x \in Tx
      BY <1>2
    <2> HIDE DEF x
    <2>1. /\ Call(x, statements, FALSE) \in Loop \cup {Null}
          /\ Call(x, statements, FALSE) # Null =>
                /\ Call(x, statements, FALSE).left # <<>> /\ Call(x, statements, FALSE).reply = Null
                /\ Call(x, statements, FALSE).sid = x.sid
                /\ (Call(x, statements, FALSE).call = "session") = (x.sid # Null)
      BY <1>2, <2>2, FirstCall
    <2> QED BY <2>1 DEF x
  <1> HIDE DEF l
  <1>4. Fits(sess, t, l, tx[t], Null)
    <2>1. TxFits(sess, t, tx[t]) /\ Counts(sess, loop[t], tx[t])
      BY TabFacts
    <2>2. l # Null => LoopFits(sess, t, l, tx[t])
      BY <1>3, <2>1, NullIsNothing DEF LoopFits, TxFits
    <2>3. Counts(sess, l, tx[t])
      BY <2>1, <1>1, <1>3, NullIsNothing DEF Counts
    <2> QED BY <2>1, <2>2, <2>3 DEF Fits, IdleFits
  <1>5. About(t, l, tx[t], Null)
    BY <1>1, Itself DEF IInv, About
  <1>6. RestOK'
    BY <1>1, Counting DEF IInv, TypeOK, RestOK
  <1>7. Remembers(t, l, tx[t])
    BY <1>1 DEF Begins, Remembers, Live
  <1> QED BY <1>1, <1>2, <1>3, <1>4, <1>5, <1>6, <1>7, ClientStep

\* Only a tab without a transaction changes its mode, and its run waits on.
LEMMA ModeChanges ==
    ASSUME IInv, NEW mode \in {"auto", "manual"}, SelectMode(mode)
    PROVE  IInv'
  <1> DEFINE t == active
             x == ToMode(tx[t], mode)
  <1>1. t \in Tabs
    BY DEF IInv, TypeOK
  <1>2. /\ tx' = [tx EXCEPT ![t] = x] /\ finish = Null /\ Counted
        /\ UNCHANGED <<tabs, active, loop, isRunning, controller, finish, idle, closing, mounted,
                       sess, orphans>>
    BY <1>1 DEF SelectMode, isFinishingTransaction, IInv, TypeOK
  <1>3. x \in Tx /\ x.sid = tx[t].sid /\ x.pending = tx[t].pending /\ x.aborted = tx[t].aborted
    <2> DEFINE y == tx[t]
    <2>1. y \in Tx
      BY <1>1, TabFacts
    <2> HIDE DEF y
    <2>2. /\ ToMode(y, mode) \in Tx /\ ToMode(y, mode).sid = y.sid
          /\ ToMode(y, mode).pending = y.pending /\ ToMode(y, mode).aborted = y.aborted
      BY <2>1 DEF ToMode, Tx
    <2> QED BY <2>2 DEF y
  <1> HIDE DEF t, x
  <1>4. Fits(sess, t, loop[t], x, idle[t])
    <2>1. /\ loop[t] # Null => LoopFits(sess, t, loop[t], tx[t])
          /\ TxFits(sess, t, tx[t]) /\ IdleFits(sess, t, loop[t], tx[t], idle[t])
          /\ Counts(sess, loop[t], tx[t])
      BY <1>1, TabFacts
    <2>2. loop[t] # Null => LoopFits(sess, t, loop[t], x)
      BY <2>1, <1>3 DEF LoopFits
    <2>3. TxFits(sess, t, x)
      BY <2>1, <1>3 DEF TxFits
    <2>4. IdleFits(sess, t, loop[t], x, idle[t])
      BY <2>1, <1>3 DEF IdleFits
    <2>5. Counts(sess, loop[t], x)
      BY <2>1, <1>3 DEF Counts
    <2> QED BY <2>2, <2>3, <2>4, <2>5 DEF Fits
  <1>5. About(t, loop[t], x, idle[t])
    BY <1>1, <1>2, Itself DEF IInv, About
  <1>6. RestOK'
    BY <1>2, Counting DEF IInv, TypeOK, RestOK
  <1>7. Remembers(t, loop[t], x)
    BY <1>2, <1>3 DEF Remembers, Live
  <1>8. loop[t] \in Loop \cup {Null} /\ idle[t] \in Idle \cup {Null}
    BY <1>1, TabFacts
  <1> QED BY <1>1, <1>2, <1>3, <1>4, <1>5, <1>6, <1>7, <1>8, ClientStep

\* A run that is cancelled ends, or goes on to its answer.
LEMMA RunCancelled ==
    ASSUME IInv, handleCancelQuery
    PROVE  IInv'
  <1> DEFINE L(t) == IF t # controller \/ loop[t] = Null THEN loop[t]
                     ELSE IF loop[t].call = "auto" THEN Null
                     ELSE [loop[t] EXCEPT !.cancelled = TRUE]
  <1>1. /\ loop' = [t \in Tabs |-> L(t)] /\ finish = Null /\ Counted
        /\ UNCHANGED <<tabs, active, tx, finish, idle, closing, mounted, sess, orphans>>
        /\ isRunning' = FALSE /\ controller' = Null
    BY DEF handleCancelQuery, isFinishingTransaction
  <1>2. RestOK'
    BY <1>1, Counting DEF IInv, TypeOK, RestOK
  <1>3. controller \in Tabs \cup {Null} /\ Null \notin Tabs /\ loop \in [Tabs -> Loop \cup {Null}]
    BY NullIsNothing DEF IInv, TypeOK
  <1>4. CASE controller = Null
    <2>1. loop' = loop
      BY <1>1, <1>3, <1>4
    <2>2. NoSessionForgotten'
      BY <1>1, <2>1 DEF IInv, NoSessionForgotten, Live
    <2> QED BY <1>1, <1>2, <2>1, <2>2, Quiet
  <1>5. CASE controller \in Tabs
    <2> DEFINE t == controller
               l == L(t)
    <2>1. loop' = [loop EXCEPT ![t] = l] /\ t \in Tabs
      BY <1>1, <1>3, <1>5
    <2>2. /\ loop[t] \in Loop \cup {Null} /\ tx[t] \in Tx /\ idle[t] \in Idle \cup {Null}
          /\ loop[t] # Null => loop[t] \in Loop /\ LoopFits(sess, t, loop[t], tx[t]) /\ idle[t] = Null
          /\ TxFits(sess, t, tx[t]) /\ IdleFits(sess, t, loop[t], tx[t], idle[t])
          /\ Counts(sess, loop[t], tx[t])
      BY <2>1, TabFacts
    <2>3. CASE loop[t] = Null \/ loop[t].call = "auto"
      <3>1. l = Null
        BY <2>3
      <3>2. Fits(sess, t, Null, tx[t], idle[t])
        <4>1. CASE loop[t] = Null
          BY <4>1, <2>2 DEF Fits
        <4>2. CASE loop[t] # Null
          <5>1. tx[t].sid = Null /\ idle[t] = Null
            BY <4>2, <2>3, <2>2 DEF LoopFits
          <5> QED BY <5>1, <2>2 DEF Fits, Counts, IdleFits
        <4> QED BY <4>1, <4>2
      <3>3. About(t, Null, tx[t], idle[t])
        BY <1>1, <2>1, <3>1, Itself DEF IInv, About
      <3>4. Remembers(t, Null, tx[t])
        BY <1>1, <2>3 DEF Remembers, Begins, Live
      <3> HIDE DEF l, t
      <3> QED BY <2>1, <2>2, <1>1, <1>2, <3>2, <3>3, <3>4, ClientStep
    <2>4. CASE loop[t] # Null /\ loop[t].call # "auto"
      <3>1. /\ l = [loop[t] EXCEPT !.cancelled = TRUE]
        BY <2>4
      <3>2. /\ l \in Loop /\ l.left = loop[t].left /\ l.call = loop[t].call
            /\ l.sid = loop[t].sid /\ l.reply = loop[t].reply /\ l # Null
        <4> HIDE DEF l, t
        <4>1. loop[t] \in Loop /\ Null \in Reply
          BY <2>2, <2>4 DEF Reply
        <4> QED BY <3>1, <4>1, LoopUpdate, NullIsNothing
      <3> HIDE DEF l, t
      <3>3. Fits(sess, t, l, tx[t], idle[t])
        <4>1. LoopFits(sess, t, l, tx[t])
          BY <2>2, <2>4, <3>2 DEF LoopFits
        <4>2. Counts(sess, l, tx[t])
          BY <2>2, <2>4, <3>2 DEF Counts
        <4> QED BY <4>1, <4>2, <2>2, <2>4 DEF Fits, IdleFits
      <3>4. About(t, l, tx[t], idle[t])
        BY <1>1, <2>1, Itself DEF IInv, About
      <3>5. Remembers(t, l, tx[t])
        BY <1>1, <2>4, <3>2 DEF Remembers, Begins, Live
      <3> QED BY <2>1, <2>2, <3>2, <1>1, <1>2, <3>3, <3>4, <3>5, ClientStep
    <2> QED BY <2>3, <2>4
  <1> QED BY <1>3, <1>4, <1>5

\* What the user begins to wait for is the end of the tab's session.
LEMMA EndAsked ==
    ASSUME IInv, RestOK', NEW t \in Tabs, tx[t].sid # Null,
           NEW action \in {"commit", "rollback", "close"}, NEW next \in {"stay", "auto", "remove"},
           Finishing(t, action, next),
           UNCHANGED <<tx, loop, idle, closing, mounted, sess, orphans>>
    PROVE  IInv'
  <1>1. finish'.tab = t /\ finish'.sid = tx[t].sid /\ finish'.reply = Null
    BY DEF Finishing
  <1>2. Known(sess, tx[t].sid, t)
    BY TabFacts DEF TxFits
  <1>3. FinishFits'
    BY <1>1, <1>2, NullIsNothing DEF FinishFits, EndFits
  <1>4. TypeOK' /\ TabsFit' /\ NoSessionForgotten'
    BY DEF IInv, TypeOK, RestOK, TabsFit, NoSessionForgotten, Live
  <1> QED BY <1>3, <1>4 DEF IInv

\* It is one.
LEMMA EndType ==
    ASSUME TypeOK, NEW t \in Tabs, tx[t].sid # Null,
           NEW action \in {"commit", "rollback", "close"}, NEW next \in {"stay", "auto", "remove"},
           Finishing(t, action, next)
    PROVE  finish' \in Finish
  <1>1. tx[t].sid \in Sids /\ active \in Tabs /\ Null \in Reply
    BY DEF TypeOK, Tx, Reply
  <1> QED BY <1>1 DEF Finishing, Finish

\* The buttons and the dialogs that end a transaction, and the tab's cross.
LEMMA EndSteps ==
    ASSUME IInv,
           \/ \E action \in {"commit", "rollback"}, next \in {"stay", "auto"} :
                 finishActiveTransaction(action, next)
           \/ \E t \in Tabs : handleConfirmCloseTab(t)
    PROVE  IInv'
  <1>1. ASSUME NEW action \in {"commit", "rollback"}, NEW next \in {"stay", "auto"},
               finishActiveTransaction(action, next)
        PROVE  IInv'
    <2>1. /\ active \in Tabs /\ tx[active].sid # Null /\ Finishing(active, action, next) /\ Counted
          /\ UNCHANGED <<tabs, active, tx, loop, isRunning, controller, idle, closing, mounted, sess,
                         orphans>>
      BY <1>1 DEF finishActiveTransaction, IInv, TypeOK
    <2>2. finish' \in Finish
      BY <2>1, EndType DEF IInv
    <2>3. RestOK'
      BY <2>1, <2>2, Counting DEF IInv, TypeOK, RestOK
    <2> QED BY <2>1, <2>3, EndAsked
  <1>2. ASSUME NEW t \in Tabs, handleConfirmCloseTab(t)
        PROVE  IInv'
    <2>1. /\ UNCHANGED <<tx, loop, isRunning, controller, idle, closing, mounted, sess, orphans>>
          /\ Counted
      BY <1>2 DEF handleConfirmCloseTab
    <2>2. CASE tx[t].sid # Null
      <3>1. Finishing(t, "close", "remove") /\ UNCHANGED <<tabs, active>>
        BY <1>2, <2>2 DEF handleConfirmCloseTab
      <3>2. finish' \in Finish
        BY <3>1, <2>2, EndType DEF IInv
      <3>3. RestOK'
        BY <2>1, <3>1, <3>2, Counting DEF IInv, TypeOK, RestOK
      <3> QED BY <2>1, <2>2, <3>1, <3>3, EndAsked
    <2>3. CASE tx[t].sid = Null
      <3>1. Removed(t, active) /\ finish' = finish /\ active \in Tabs
        BY <1>2, <2>3 DEF handleConfirmCloseTab, IInv, TypeOK
      <3>2. tabs' \in [Tabs -> {"unused", "open", "closed"}] /\ active' \in Tabs
        BY <3>1, RemovedType DEF IInv
      <3>3. RestOK'
        BY <2>1, <3>1, <3>2, Counting DEF IInv, TypeOK, RestOK
      <3>4. NoSessionForgotten'
        BY <2>1 DEF IInv, NoSessionForgotten, Live
      <3> QED BY <2>1, <3>1, <3>3, <3>4, Quiet
    <2> QED BY <2>2, <2>3
  <1> QED BY <1>1, <1>2

\* The transaction that a tab is told has ended has.
LEMMA EndFitsTab ==
    ASSUME NEW S \in [Sids -> Session], NEW t \in Tabs, NEW l \in Loop \cup {Null}, NEW x \in Tx,
           NEW y \in Tx, NEW d \in Idle \cup {Null}, Fits(S, t, l, x, d),
           y.sid = Null, y.pending = 0, ~y.aborted
    PROVE  Fits(S, t, l, y, d)
  <1>1. l # Null => LoopFits(S, t, l, y)
    BY DEF Fits, LoopFits
  <1>2. IdleFits(S, t, l, y, d)
    BY DEF Fits, IdleFits
  <1>3. TxFits(S, t, y) /\ Counts(S, l, y)
    BY DEF TxFits, Counts
  <1> QED BY <1>1, <1>2, <1>3 DEF Fits

\* A transaction that is marked.
LEMMA AbortFitsTab ==
    ASSUME NEW S \in [Sids -> Session], NEW t \in Tabs, NEW l \in Loop \cup {Null}, NEW x \in Tx,
           NEW d \in Idle \cup {Null}, Fits(S, t, l, x, d)
    PROVE  Fits(S, t, l, Abort(x), d)
  <1>1. CASE x.sid = Null
    BY <1>1 DEF Abort
  <1>2. CASE x.sid # Null
    <2> DEFINE y == Abort(x)
    <2>1. y.sid = x.sid /\ y.aborted
      BY <1>2, ReducerEffect
    <2> HIDE DEF y
    <2>2. l # Null => LoopFits(S, t, l, y)
      BY <2>1 DEF Fits, LoopFits
    <2>3. IdleFits(S, t, l, y, d)
      BY <2>1 DEF Fits, IdleFits
    <2>4. TxFits(S, t, y) /\ Counts(S, l, y)
      BY <2>1, <1>2 DEF Fits, TxFits, Counts
    <2>5. Fits(S, t, l, y, d)
      BY <2>2, <2>3, <2>4 DEF Fits
    <2> QED BY <2>5 DEF y
  <1> QED BY <1>1, <1>2

\* What the user waited for has ended, and the tab has no transaction.
LEMMA FinishReturns ==
    ASSUME IInv, FinishAnswered
    PROVE  IInv'
  <1> DEFINE t == finish.tab
             x == IF finish.next = "auto" THEN ToMode(End(tx[t]), "auto") ELSE End(tx[t])
  <1>1. /\ finish # Null /\ finish.reply \in {"ok", "gone"} /\ finish \in Finish
        /\ t \in Tabs /\ finish.shown \in Tabs /\ finish' = Null
        /\ UNCHANGED <<loop, isRunning, controller, idle, closing, mounted, sess, orphans, events>>
    BY DEF FinishAnswered, IInv, TypeOK, Finish
  <1>2. tx' = [tx EXCEPT ![t] = x]
    BY <1>1 DEF FinishAnswered, IInv, TypeOK
  <1>3. x \in Tx /\ x.sid = Null /\ x.pending = 0 /\ ~x.aborted
    <2> DEFINE y == tx[t]
    <2>1. y \in Tx
      BY <1>1, TabFacts
    <2> HIDE DEF y
    <2> DEFINE e == End(y)
    <2>2. e \in Tx /\ e.sid = Null /\ e.pending = 0 /\ e.aborted = FALSE
      BY <2>1, ReducerType, ReducerEffect
    <2> HIDE DEF e
    <2>3. /\ ToMode(e, "auto") \in Tx /\ ToMode(e, "auto").sid = Null
          /\ ToMode(e, "auto").pending = 0 /\ ToMode(e, "auto").aborted = FALSE
      BY <2>2, ReducerType, ReducerEffect
    <2>4. x = IF finish.next = "auto" THEN ToMode(e, "auto") ELSE e
      BY DEF e, y
    <2> HIDE DEF x
    <2> QED BY <2>2, <2>3, <2>4
  <1>4. EndFits(sess, finish, loop[t], tx[t]) /\ loop[t] \in Loop \cup {Null} /\ tx[t] \in Tx
        /\ idle[t] \in Idle \cup {Null} /\ Fits(sess, t, loop[t], tx[t], idle[t])
    BY <1>1, TabFacts DEF IInv, TabsFit
  <1>5. RestOK'
    <2>1. tabs' \in [Tabs -> {"unused", "open", "closed"}] /\ active' \in Tabs
      <3>1. CASE Removed(t, finish.shown)
        BY <1>1, <3>1, RemovedType DEF IInv
      <3>2. CASE UNCHANGED <<tabs, active>>
        BY <3>2 DEF IInv, TypeOK
      <3>3. Removed(t, finish.shown) \/ UNCHANGED <<tabs, active>>
        BY DEF FinishAnswered
      <3> QED BY <3>1, <3>2, <3>3
    <2> QED BY <1>1, <2>1 DEF IInv, TypeOK, RestOK
  <1> HIDE DEF x, t
  <1>6. Fits(sess, t, loop[t], x, idle[t])
    <2>1. sess \in [Sids -> Session]
      BY DEF IInv, TypeOK
    <2> DEFINE y == tx[t]
               l == loop[t]
               d == idle[t]
    <2>2. y \in Tx /\ l \in Loop \cup {Null} /\ d \in Idle \cup {Null} /\ Fits(sess, t, l, y, d)
      BY <1>4
    <2> HIDE DEF y, l, d
    <2>3. Fits(sess, t, l, x, d)
      BY <2>1, <2>2, <1>1, <1>3, EndFitsTab
    <2> QED BY <2>3 DEF l, d
  <1>7. About(t, loop[t], x, idle[t])
    BY <1>1, <1>2, Itself DEF IInv, About
  <1>8. Remembers(t, loop[t], x)
    <2>1. ~Live(finish.sid) /\ (tx[t].sid = finish.sid \/ tx[t].sid = Null)
      BY <1>1, <1>4 DEF EndFits, HasEnded, Live
    <2> QED BY <1>1, <2>1, NullIsNothing DEF Remembers, Live
  <1> QED BY <1>1, <1>3, <1>4, <1>5, <1>6, <1>7, <1>8, ClientStep

\* It failed, and the tab keeps what it has.
LEMMA FinishGivesUp ==
    ASSUME IInv, NEW conflict \in BOOLEAN, FinishFails(conflict)
    PROVE  IInv'
  <1> DEFINE t == finish.tab
  <1>1. /\ finish # Null /\ finish \in Finish /\ t \in Tabs /\ finish' = Null
        /\ UNCHANGED <<tabs, active, loop, isRunning, controller, idle, closing, mounted, sess, orphans, events>>
    BY DEF FinishFails, IInv, TypeOK, Finish
  <1>2. RestOK'
    BY <1>1 DEF IInv, TypeOK, RestOK
  <1> DEFINE y == tx[t]
             l == loop[t]
             d == idle[t]
  <1>3. /\ y \in Tx /\ l \in Loop \cup {Null} /\ d \in Idle \cup {Null} /\ Fits(sess, t, l, y, d)
        /\ sess \in [Sids -> Session]
    BY <1>1, TabFacts DEF IInv, TabsFit, TypeOK
  <1>4. CASE conflict
    <2>1. tx' = [tx EXCEPT ![t] = Abort(y)]
      BY <1>1, <1>4 DEF FinishFails, IInv, TypeOK
    <2>2. About(t, l, Abort(y), d)
      BY <1>1, <2>1, Itself DEF IInv, About
    <2> HIDE DEF t
    <2>3. Abort(y) \in Tx /\ Abort(y).sid = y.sid
      <3> HIDE DEF y
      <3> QED BY <1>3, ReducerType, ReducerEffect
    <2>4. Remembers(t, l, Abort(y))
      BY <1>1, <2>3 DEF Remembers, Live
    <2> HIDE DEF y, l, d
    <2>5. Fits(sess, t, l, Abort(y), d)
      BY <1>1, <1>3, AbortFitsTab
    <2> QED BY <1>1, <1>2, <1>3, <2>2, <2>3, <2>4, <2>5, ClientStep
  <1>5. CASE ~conflict
    <2>1. tx' = tx
      BY <1>5 DEF FinishFails
    <2>2. TypeOK' /\ TabsFit' /\ FinishFits' /\ NoSessionForgotten'
      BY <1>1, <1>2, <2>1 DEF IInv, TypeOK, RestOK, TabsFit, FinishFits, NoSessionForgotten, Live
    <2> QED BY <2>2 DEF IInv
  <1> QED BY <1>4, <1>5

\* The timer closes the tab's session while no run of it is under way.
LEMMA IdleBegins ==
    ASSUME IInv, NEW t \in Tabs, IdleCloses(t)
    PROVE  IInv'
  <1> DEFINE d == [sid |-> tx[t].sid, reply |-> Null]
  <1>1. /\ tx[t].sid # Null /\ loop[t] = Null /\ idle' = [idle EXCEPT ![t] = d] /\ Counted
        /\ UNCHANGED <<tabs, active, tx, loop, isRunning, controller, finish, closing, mounted, sess,
                       orphans>>
    BY DEF IdleCloses, inFlight
  <1>2. d \in Idle /\ d.sid = tx[t].sid /\ d.reply = Null
    <2>1. tx[t].sid \in Sids
      BY <1>1, TabFacts DEF Tx
    <2>2. Null \in Reply \ {"failed"}
      BY NullIsNothing DEF Reply
    <2> QED BY <2>1, <2>2 DEF Idle
  <1> HIDE DEF d
  <1>3. /\ tx[t] \in Tx /\ TxFits(sess, t, tx[t]) /\ Counts(sess, loop[t], tx[t])
        /\ finish # Null /\ finish.tab = t => EndFits(sess, finish, loop[t], tx[t])
    BY TabFacts
  <1>4. Fits(sess, t, Null, tx[t], d)
    BY <1>1, <1>2, <1>3 DEF Fits, IdleFits, TxFits
  <1>5. About(t, Null, tx[t], d)
    BY <1>1, <1>3, Itself DEF IInv, About
  <1>6. Remembers(t, Null, tx[t])
    BY <1>1 DEF Remembers, Begins, Live
  <1>7. RestOK'
    BY <1>1, Counting DEF IInv, TypeOK, RestOK
  <1> QED BY <1>1, <1>2, <1>3, <1>4, <1>5, <1>6, <1>7, ClientStep

\* Its answer ends the transaction, or the timer will try again.
LEMMA IdleReturns ==
    ASSUME IInv, NEW t \in Tabs, IdleAnswered(t)
    PROVE  IInv'
  <1>1. /\ idle[t] # Null /\ idle[t].reply # Null /\ idle' = [idle EXCEPT ![t] = Null]
        /\ tx' = tx \/ tx' = [tx EXCEPT ![t] = End(tx[t])]
        /\ UNCHANGED <<tabs, active, loop, isRunning, controller, finish, closing, mounted, sess,
                       orphans, events>>
    BY DEF IdleAnswered, IInv, TypeOK
  <1>2. /\ tx[t] \in Tx /\ TxFits(sess, t, tx[t]) /\ Counts(sess, loop[t], tx[t])
        /\ finish # Null /\ finish.tab = t => EndFits(sess, finish, loop[t], tx[t])
        /\ IdleFits(sess, t, loop[t], tx[t], idle[t])
    BY TabFacts
  <1>3. /\ loop[t] = Null /\ tx[t].sid \in {idle[t].sid, Null} /\ ~Live(idle[t].sid)
    BY <1>1, <1>2 DEF IdleFits, HasEnded, Live
  <1>4. RestOK'
    BY <1>1 DEF IInv, TypeOK, RestOK
  <1>5. CASE tx' = tx
    <2>1. About(t, Null, tx[t], Null)
      BY <1>1, <1>2, <1>3, <1>5, Itself DEF IInv, About
    <2>2. Remembers(t, Null, tx[t])
      BY <1>1, <1>3 DEF Remembers, Begins, Live
    <2>3. Fits(sess, t, Null, tx[t], Null)
      BY <1>2, <1>3 DEF Fits, IdleFits
    <2> QED BY <1>1, <1>2, <1>4, <2>1, <2>2, <2>3, ClientStep
  <1>6. CASE tx' = [tx EXCEPT ![t] = End(tx[t])]
    <2> DEFINE y == tx[t]
               x == End(y)
    <2>1. y \in Tx
      BY <1>2
    <2>2. x \in Tx /\ x.sid = Null /\ x.pending = 0 /\ ~x.aborted
      <3> HIDE DEF y
      <3> QED BY <2>1, ReducerType, ReducerEffect
    <2>3. tx' = [tx EXCEPT ![t] = x]
      BY <1>6
    <2> HIDE DEF x, y
    <2>4. finish # Null /\ finish.tab = t => EndFits(sess, finish, Null, x)
      BY <1>2, <2>2 DEF EndFits
    <2>5. About(t, Null, x, Null)
      BY <1>1, <1>3, <2>3, <2>4, Itself DEF IInv, About
    <2>6. Remembers(t, Null, x)
      BY <1>1, <1>3, NullIsNothing DEF Remembers, Begins, Live
    <2>7. Fits(sess, t, Null, x, Null)
      BY <2>2 DEF Fits, TxFits, IdleFits, Counts
    <2> QED BY <1>1, <1>4, <2>2, <2>5, <2>6, <2>7, ClientStep
  <1> QED BY <1>1, <1>5, <1>6

-----------------------------------------------------------------------------
(* The answers to the calls of a run.                                      *)

\* The run of a tab goes on or ends.
LEMMA ContinueRest ==
    ASSUME TypeOK, NEW t \in Tabs, NEW next, Continue(t, next),
           UNCHANGED <<tabs, active, finish, idle, mounted, sess, events>>,
           closing' \subseteq Sids, orphans' \subseteq Sids
    PROVE  RestOK' /\ loop' = [loop EXCEPT ![t] = next]
  BY DEF TypeOK, RestOK, Continue

\* The session that was begun is the tab's, or is being closed, or is known to
\* be lost.
LEMMA BeginReturns ==
    ASSUME IInv, NEW t \in Tabs, BeginAnswered(t)
    PROVE  IInv'
  <1> DEFINE s == loop[t].sid
             b == Begun(tx[t], s)
             m == [loop[t] EXCEPT !.reply = Null, !.sid = b.sid,
                      !.call = IF b.sid # Null THEN "session" ELSE "auto"]
             l == IF loop[t].cancelled /\ b.sid = Null THEN Null ELSE m
  <1>1. /\ loop[t] \in Loop /\ loop[t].call = "begin" /\ loop[t].reply = "ok"
        /\ tx[t] \in Tx /\ idle[t] = Null /\ LoopFits(sess, t, loop[t], tx[t])
        /\ TxFits(sess, t, tx[t])
        /\ UNCHANGED <<tabs, active, finish, idle, mounted, sess, events>>
    BY TabFacts DEF BeginAnswered
  <1>2. /\ s # Null /\ s \in Sids /\ tx[t].sid = Null /\ tx[t].pending = 0 /\ ~tx[t].aborted
        /\ Known(sess, s, t) /\ sess[s].done = 0 /\ sess[s].state # "aborted"
        /\ loop[t].left # <<>>
    BY <1>1 DEF LoopFits, TxFits, Known
  <1>3. finish' = finish /\ ~(finish # Null /\ finish.tab = t)
    <2>1. finish # Null => finish.sid # Null
      BY NullIsNothing DEF IInv, TypeOK, Finish
    <2> QED BY <1>1, <1>2, <2>1, TabFacts, NullIsNothing DEF EndFits
  <1>4. CASE mounted
    <2>1. /\ tx' = [tx EXCEPT ![t] = b] /\ Continue(t, l) /\ closing' = closing
          /\ orphans' = IF b.sid = s THEN orphans ELSE orphans \cup {s}
      BY <1>4 DEF BeginAnswered
    <2>2. b \in Tx /\ b.sid \in {s, Null} /\ b.pending = 0 /\ ~b.aborted
      <3> DEFINE y == tx[t]
      <3>1. y \in Tx /\ s \in Sids /\ y.sid = Null
        BY <1>1, <1>2
      <3> HIDE DEF y, s
      <3>2. /\ Begun(y, s) \in Tx /\ Begun(y, s).sid \in {s, Null}
            /\ Begun(y, s).pending = y.pending /\ Begun(y, s).aborted = y.aborted
        BY <3>1, ReducerType, BegunEffect
      <3> QED BY <1>2, <3>2 DEF y
    <2>3. /\ m \in Loop /\ m.left = loop[t].left /\ m.reply = Null /\ m.sid = b.sid
          /\ m.call = IF b.sid # Null THEN "session" ELSE "auto"
      <3> HIDE DEF b
      <3>1. b.sid \in Sids \cup {Null} /\ Null \in Reply
        BY <2>2 DEF Tx, Reply
      <3> QED BY <1>1, <3>1 DEF Loop
    <2>4. m # Null
      BY <2>3, NullIsNothing
    <2>5. l \in Loop \cup {Null} /\ (l # Null => l = m)
      BY <2>3
    <2> HIDE DEF m, l, b
    <2>6. LoopFits(sess, t, m, b)
      BY <1>2, <2>2, <2>3, NullIsNothing DEF LoopFits
    <2>7. TxFits(sess, t, b)
      BY <1>2, <2>2 DEF TxFits
    <2>8. Counts(sess, l, b)
      <3>1. b.sid # Null /\ sess[b.sid].state \in {"open", "aborted"}
              => sess[b.sid].state = "open" /\ sess[b.sid].done = b.pending
        BY <1>2, <2>2
      <3> QED BY <2>3, <2>5, <3>1, NullIsNothing DEF Counts
    <2>9. Fits(sess, t, l, b, Null)
      BY <2>5, <2>6, <2>7, <2>8 DEF Fits, IdleFits
    <2>10. closing' \subseteq Sids /\ orphans' \subseteq Sids
      BY <1>2, <2>1 DEF IInv, TypeOK
    <2>11. RestOK' /\ loop' = [loop EXCEPT ![t] = l]
      BY <1>1, <2>1, <2>10, ContinueRest DEF IInv
    <2>12. About(t, l, b, Null)
      BY <1>1, <1>3, <2>1, <2>11, Itself DEF IInv, About
    <2>13. Remembers(t, l, b)
      <3>1. \A r \in Sids : Begins(loop[t], r) => r = s
        BY DEF Begins
      <3>2. \A r \in Sids : tx[t].sid # r
        BY <1>2, NullIsNothing
      <3>3. s \in orphans' \/ b.sid = s
        BY <2>1
      <3> QED BY <1>1, <1>4, <2>1, <3>1, <3>2, <3>3 DEF Remembers, Live
    <2> QED BY <1>1, <2>2, <2>5, <2>9, <2>11, <2>12, <2>13, ClientStep
  <1>5. CASE ~mounted
    <2>1. /\ closing' = closing \cup {s} /\ Continue(t, Null) /\ UNCHANGED <<tx, orphans>>
      BY <1>5 DEF BeginAnswered
    <2>2. closing' \subseteq Sids /\ orphans' \subseteq Sids
      BY <1>2, <2>1 DEF IInv, TypeOK
    <2>3. RestOK' /\ loop' = [loop EXCEPT ![t] = Null]
      BY <1>1, <2>1, <2>2, ContinueRest DEF IInv
    <2>4. Fits(sess, t, Null, tx[t], Null)
      BY <1>1, <1>2 DEF Fits, IdleFits, Counts
    <2>5. About(t, Null, tx[t], Null)
      BY <1>1, <1>3, <2>1, <2>3, Itself DEF IInv, About
    <2>6. Remembers(t, Null, tx[t])
      BY <1>1, <1>5, <2>1 DEF Remembers, Begins, Live
    <2> QED BY <1>1, <2>3, <2>4, <2>5, <2>6, ClientStep
  <1> QED BY <1>4, <1>5

\* A statement was executed, and counts if it is a write of the transaction.
LEMMA ExecuteReturns ==
    ASSUME IInv, NEW t \in Tabs, ExecuteAnswered(t)
    PROVE  IInv'
  <1> DEFINE k == loop[t]
             y == tx[t]
             x == IF k.call = "session" THEN Success(y, Head(k.left)) ELSE y
             l == Call(x, Tail(k.left), k.cancelled)
  <1>1. /\ k # Null /\ k \in Loop /\ k.call # "begin" /\ k.reply = "ok"
        /\ y \in Tx /\ idle[t] = Null /\ LoopFits(sess, t, k, y)
        /\ TxFits(sess, t, y) /\ Counts(sess, k, y)
        /\ finish # Null /\ finish.tab = t => EndFits(sess, finish, k, y)
        /\ UNCHANGED <<tabs, active, finish, idle, closing, mounted, sess, orphans, events>>
    BY TabFacts DEF ExecuteAnswered
  <1>2. tx' = [tx EXCEPT ![t] = x] /\ Continue(t, l)
    BY DEF ExecuteAnswered
  <1>3. k.left \in Seq(BOOLEAN) /\ k.left # <<>> /\ k.cancelled \in BOOLEAN
    BY <1>1 DEF Loop, LoopFits
  <1>4. Head(k.left) \in BOOLEAN /\ Tail(k.left) \in Seq(BOOLEAN)
    BY <1>3, HeadTailProperties
  <1> HIDE DEF k, y
  <1>5. /\ x \in Tx /\ x.sid = y.sid /\ x.aborted = y.aborted
        /\ x.pending = IF y.sid = Null \/ y.aborted \/ ~Head(k.left) \/ k.call # "session"
                       THEN y.pending ELSE y.pending + 1
    <2>1. CASE k.call # "session"
      BY <2>1, <1>1
    <2>2. CASE k.call = "session"
      <3> DEFINE h == Head(k.left)
      <3>1. h \in BOOLEAN
        BY <1>4
      <3> HIDE DEF h
      <3>2. /\ Success(y, h) \in Tx /\ Success(y, h).sid = y.sid /\ Success(y, h).aborted = y.aborted
            /\ Success(y, h).pending = IF y.sid = Null \/ y.aborted \/ ~h THEN y.pending ELSE y.pending + 1
        <4>1. y.pending + 1 \in Nat
          BY <1>1 DEF Tx
        <4> QED BY <1>1, <3>1, <4>1 DEF Success, Tx
      <3> QED BY <2>2, <3>2 DEF h
    <2> QED BY <2>1, <2>2
  <1>6. /\ l \in Loop \cup {Null}
        /\ l # Null => /\ l.left # <<>> /\ l.reply = Null /\ l.sid = x.sid
                       /\ (l.call = "session") = (x.sid # Null)
    <2> DEFINE left == Tail(k.left)
               cancelled == k.cancelled
    <2>1. left \in Seq(BOOLEAN) /\ cancelled \in BOOLEAN
      BY <1>3, <1>4
    <2> HIDE DEF left, cancelled, x, l
    <2>2. /\ Call(x, left, cancelled) \in Loop \cup {Null}
          /\ Call(x, left, cancelled) # Null =>
                /\ Call(x, left, cancelled).left = left /\ left # <<>>
                /\ Call(x, left, cancelled).sid = x.sid /\ Call(x, left, cancelled).reply = Null
                /\ (Call(x, left, cancelled).call = "session") = (x.sid # Null)
      BY <1>5, <2>1, CallType
    <2>3. l = Call(x, left, cancelled)
      BY DEF l, left, cancelled
    <2> QED BY <2>2, <2>3
  <1> HIDE DEF x, l
  <1>7. Counts(sess, l, x)
    <2> SUFFICES ASSUME x.sid # Null, ~x.aborted, sess[x.sid].state \in {"open", "aborted"}
                 PROVE  sess[x.sid].state = "open" /\ sess[x.sid].done = x.pending
      BY <1>6, NullIsNothing DEF Counts
    <2>1. y.sid # Null /\ ~y.aborted /\ x.sid = y.sid /\ k.call = "session"
      BY <1>1, <1>5 DEF LoopFits
    <2>2. /\ sess[x.sid].state = "open"
          /\ sess[x.sid].done = IF Head(k.left) THEN y.pending + 1 ELSE y.pending
      BY <2>1, <1>1 DEF Counts
    <2> QED BY <2>1, <2>2, <1>5
  <1>8. TxFits(sess, t, x)
    <2>1. x.sid = Null => x.pending = y.pending
      BY <1>5
    <2> QED BY <2>1, <1>1, <1>5 DEF TxFits
  <1>9. l # Null => LoopFits(sess, t, l, x)
    BY <1>6, <1>8, NullIsNothing DEF LoopFits, TxFits
  <1>10. Fits(sess, t, l, x, Null)
    BY <1>7, <1>8, <1>9 DEF Fits, IdleFits
  <1>11. RestOK' /\ loop' = [loop EXCEPT ![t] = l]
    BY <1>1, <1>2, ContinueRest DEF IInv, TypeOK
  <1>12. About(t, l, x, Null)
    <2>1. finish # Null /\ finish.tab = t => EndFits(sess, finish, l, x)
      BY <1>1, <1>5 DEF EndFits
    <2> QED BY <1>1, <1>2, <1>11, <2>1, Itself DEF IInv, About
  <1>13. Remembers(t, l, x)
    <2>1. \A s \in Sids : ~Begins(loop[t], s)
      BY <1>1 DEF k, Begins
    <2>2. x.sid = tx[t].sid
      BY <1>5 DEF y
    <2> QED BY <1>1, <2>1, <2>2 DEF Remembers, Live
  <1> QED BY <1>1, <1>5, <1>6, <1>10, <1>11, <1>12, <1>13, ClientStep

\* A call failed: the run ends, and the transaction is marked or has ended.
LEMMA ExecuteGivesUp ==
    ASSUME IInv, NEW t \in Tabs, NEW lost \in BOOLEAN, ExecuteFails(t, lost)
    PROVE  IInv'
  <1> DEFINE k == loop[t]
             y == tx[t]
             gone == ~lost /\ k.reply = "gone"
             x == IF gone THEN End(y) ELSE Abort(y)
  <1>1. /\ k # Null /\ k \in Loop /\ k.reply # Null
        /\ y \in Tx /\ idle[t] = Null /\ LoopFits(sess, t, k, y)
        /\ TxFits(sess, t, y)
        /\ finish # Null /\ finish.tab = t => EndFits(sess, finish, k, y)
        /\ UNCHANGED <<tabs, active, finish, idle, closing, mounted, sess, events>>
        /\ orphans' = IF k.call = "begin" /\ k.sid # Null THEN orphans \cup {k.sid} ELSE orphans
    BY TabFacts DEF ExecuteFails
  <1>2. tx' = [tx EXCEPT ![t] = x] /\ Continue(t, Null)
    BY DEF ExecuteFails, IInv, TypeOK
  <1> HIDE DEF y
  <1>3. /\ x \in Tx
        /\ gone => x.sid = Null /\ x.pending = 0 /\ ~x.aborted
        /\ ~gone => x.sid = y.sid /\ x.pending = y.pending
                    /\ x.aborted = IF y.sid = Null THEN y.aborted ELSE TRUE
    <2> HIDE DEF gone
    <2> QED BY <1>1, ReducerType, ReducerEffect
  <1>4. gone => ~Live(k.sid) /\ y.sid \in {k.sid, Null}
    BY <1>1, NullIsNothing DEF LoopFits, HasEnded, Live
  <1>5. k.sid \in Sids \cup {Null}
    BY <1>1 DEF Loop
  <1> HIDE DEF k, gone, x
  <1>6. Fits(sess, t, Null, x, Null)
    <2>1. TxFits(sess, t, x)
      BY <1>1, <1>3 DEF TxFits
    <2>2. Counts(sess, Null, x)
      BY <1>1, <1>3 DEF Counts
    <2> QED BY <2>1, <2>2 DEF Fits, IdleFits
  <1>7. closing' \subseteq Sids /\ orphans' \subseteq Sids
    BY <1>1, <1>5 DEF IInv, TypeOK
  <1>8. RestOK' /\ loop' = [loop EXCEPT ![t] = Null]
    BY <1>1, <1>2, <1>7, ContinueRest DEF IInv
  <1>9. About(t, Null, x, Null)
    <2>1. finish # Null /\ finish.tab = t => EndFits(sess, finish, Null, x)
      BY <1>1, <1>3 DEF EndFits
    <2> QED BY <1>1, <1>2, <1>8, <2>1, Itself DEF IInv, About
  <1>10. Remembers(t, Null, x)
    <2>1. \A s \in Sids : Begins(loop[t], s) => s \in orphans'
      BY <1>1, NullIsNothing DEF k, Begins
    <2>2. \A s \in Sids : Live(s) /\ tx[t].sid = s => x.sid = s
      BY <1>3, <1>4, NullIsNothing DEF y
    <2> QED BY <1>1, <2>1, <2>2 DEF Remembers, Live
  <1> QED BY <1>1, <1>3, <1>6, <1>8, <1>9, <1>10, ClientStep

-----------------------------------------------------------------------------
(* The server.                                                             *)

\* The begin of a tab is given a new session.
LEMMA BeginServed ==
    ASSUME IInv, NEW t \in Tabs, NEW s \in Sids, ServerBegins(t, s)
    PROVE  IInv'
  <1> DEFINE k == loop[t]
             l == [k EXCEPT !.reply = "ok", !.sid = s]
             n == [state |-> "open", tab |-> t, done |-> 0]
  <1>1. /\ k # Null /\ k \in Loop /\ k.call = "begin" /\ k.reply = Null /\ tx[t] \in Tx /\ idle[t] = Null
        /\ LoopFits(sess, t, k, tx[t]) /\ TxFits(sess, t, tx[t])
        /\ finish # Null /\ finish.tab = t => EndFits(sess, finish, k, tx[t])
        /\ sess[s].state = "none" /\ sess' = [sess EXCEPT ![s] = n]
        /\ UNCHANGED <<tabs, active, tx, isRunning, controller, finish, idle, closing, mounted, orphans, events>>
    BY TabFacts DEF ServerBegins
  <1>2. l \in Loop /\ l.left = k.left /\ l.call = "begin" /\ l.reply = "ok" /\ l.sid = s
    BY <1>1 DEF Loop, Reply
  <1>3. loop' = [loop EXCEPT ![t] = l]
    BY DEF ServerBegins, IInv, TypeOK
  <1>4. n \in Session /\ n.state = "open" /\ n.tab = t /\ n.done = 0
    BY DEF Session
  <1>5. s # Null /\ l # Null /\ k.sid = Null /\ tx[t].sid = Null /\ k.left # <<>>
    BY <1>1, <1>2, NullIsNothing DEF LoopFits
  <1> HIDE DEF l, n, k
  <1>6. /\ sess \in [Sids -> Session] /\ sess' \in [Sids -> Session] /\ sess'[s] = n
        /\ \A r \in Sids : r # s => sess'[r] = sess[r]
    BY <1>1, <1>4 DEF IInv, TypeOK
  <1>7. SessionsGoOn(t)
    BY <1>1, <1>6 DEF SessionsGoOn, Same, Known, HasEnded
  <1>8. Fits(sess', t, l, tx[t], Null)
    <2>1. LoopFits(sess', t, l, tx[t])
      BY <1>2, <1>4, <1>5, <1>6 DEF LoopFits, Known
    <2>2. TxFits(sess', t, tx[t]) /\ Counts(sess', l, tx[t])
      BY <1>1, <1>5 DEF TxFits, Counts
    <2> QED BY <2>1, <2>2 DEF Fits, IdleFits
  <1>9. About(t, l, tx[t], Null)
    <2>1. ~(finish # Null /\ finish.tab = t)
      <3>1. finish # Null => finish.sid # Null
        BY NullIsNothing DEF IInv, TypeOK, Finish
      <3> QED BY <1>1, <1>5, <3>1 DEF EndFits
    <2> QED BY <1>1, <1>3, <2>1, Itself DEF IInv, About
  <1>10. Remembers(t, l, tx[t])
    <2>1. \A r \in Sids : ~Begins(loop[t], r)
      BY <1>5, NullIsNothing DEF k, Begins
    <2>2. Begins(l, s)
      BY <1>2, <1>5 DEF Begins
    <2>3. \A r \in Sids : sess'[r].state \in {"open", "aborted"} /\ ~Live(r) => r = s
      BY <1>6 DEF Live
    <2> QED BY <1>1, <2>1, <2>2, <2>3 DEF Remembers
  <1>11. RestOK'
    BY <1>1 DEF IInv, TypeOK, RestOK
  <1> QED BY <1>1, <1>2, <1>7, <1>8, <1>9, <1>10, <1>11, TabStep

\* A statement changes a session of the tab that stays one.
LEMMA OwnSession ==
    ASSUME IInv, NEW t \in Tabs, NEW s \in Sids, Known(sess, s, t), sess[s].state = "open",
           NEW e \in Session, e.state \in {"open", "aborted"}, e.tab = t,
           sess' = [sess EXCEPT ![s] = e]
    PROVE  /\ SessionsGoOn(t) /\ sess'[s] = e /\ \A r \in Sids : r # s => sess'[r] = sess[r]
           /\ \A r \in Sids : sess'[r].state \in {"open", "aborted"} => Live(r)
  <1>1. /\ sess \in [Sids -> Session] /\ sess' \in [Sids -> Session] /\ sess'[s] = e
        /\ \A r \in Sids : r # s => sess'[r] = sess[r]
    BY DEF IInv, TypeOK
  <1> QED BY <1>1 DEF SessionsGoOn, Same, Known, HasEnded, Live

\* The call of the tab's run is answered: in general.
LEMMA CallServed ==
    ASSUME IInv, NEW t \in Tabs, loop[t] # Null, NEW r \in {"ok", "failed", "gone"},
           NEW l, l = [loop[t] EXCEPT !.reply = r],
           loop' = [loop EXCEPT ![t] = l],
           UNCHANGED <<tabs, active, tx, isRunning, controller, finish, idle, closing, mounted, orphans, events>>,
           SessionsGoOn(t), LoopFits(sess', t, l, tx[t]), Counts(sess', l, tx[t]),
           \A s \in Sids : sess'[s].state \in {"open", "aborted"} => Live(s)
    PROVE  IInv'
  <1>1. /\ loop[t] \in Loop /\ tx[t] \in Tx /\ idle[t] = Null /\ TxFits(sess, t, tx[t])
        /\ finish # Null /\ finish.tab = t => EndFits(sess, finish, loop[t], tx[t])
    BY TabFacts
  <1>2. l \in Loop /\ l # Null /\ l.call = loop[t].call /\ l.sid = loop[t].sid
    <2> DEFINE k == loop[t]
    <2>1. k \in Loop /\ r \in Reply
      BY <1>1 DEF Reply
    <2> HIDE DEF k
    <2>2. /\ [k EXCEPT !.reply = r] \in Loop /\ [k EXCEPT !.reply = r].call = k.call
          /\ [k EXCEPT !.reply = r].sid = k.sid
      BY <2>1, LoopUpdate
    <2> QED BY <2>2, NullIsNothing DEF k
  <1>3. TxFits(sess', t, tx[t])
    BY <1>1 DEF TxFits, SessionsGoOn, Known
  <1>4. Fits(sess', t, l, tx[t], Null)
    BY <1>3 DEF Fits, IdleFits
  <1>5. About(t, l, tx[t], Null)
    <2>1. finish # Null /\ finish.tab = t => EndFits(sess, finish, l, tx[t])
      BY <1>1, <1>2 DEF EndFits
    <2> QED BY <1>1, <2>1, Itself DEF IInv, About
  <1>6. Remembers(t, l, tx[t])
    BY <1>1, <1>2 DEF Remembers, Begins
  <1>7. RestOK'
    BY DEF IInv, TypeOK, RestOK
  <1> QED BY <1>1, <1>2, <1>4, <1>5, <1>6, <1>7, TabStep

\* Sessions that are as they were go on.
LEMMA SameSessions ==
    ASSUME IInv, NEW t \in Tabs, sess' = sess
    PROVE  SessionsGoOn(t) /\ \A s \in Sids : sess'[s].state \in {"open", "aborted"} => Live(s)
  BY Unchanged DEF IInv, TypeOK, SessionsGoOn, HasEnded, Live

\* A begin is refused, or a statement fails and marks its session.
LEMMA CallRefused ==
    ASSUME IInv, NEW t \in Tabs, ServerFails(t)
    PROVE  IInv'
  <1> DEFINE k == loop[t]
             l == [k EXCEPT !.reply = "failed"]
  <1>1. /\ k # Null /\ k \in Loop /\ k.reply = Null /\ tx[t] \in Tx
        /\ LoopFits(sess, t, k, tx[t]) /\ Counts(sess, k, tx[t])
        /\ k.call = "session" => sess[k.sid].state = "open"
        /\ UNCHANGED <<tabs, active, tx, isRunning, controller, finish, idle, closing, mounted, orphans, events>>
        /\ sess' = IF k.call = "session" THEN [sess EXCEPT ![k.sid].state = "aborted"] ELSE sess
    BY TabFacts DEF ServerFails
  <1>2. loop' = [loop EXCEPT ![t] = l]
    BY DEF ServerFails, IInv, TypeOK
  <1>3. /\ l.left = k.left /\ l.call = k.call /\ l.sid = k.sid /\ l.reply = "failed"
        /\ l.reply # Null /\ l # Null
    <2>1. l \in Loop
      BY <1>1 DEF Loop, Reply
    <2>2. l.left = k.left /\ l.call = k.call /\ l.sid = k.sid /\ l.reply = "failed"
      BY <1>1 DEF Loop
    <2> HIDE DEF l
    <2> QED BY <2>1, <2>2, NullIsNothing
  <1>4. CASE k.call = "session"
    <2> DEFINE s == k.sid
               e == [sess[s] EXCEPT !.state = "aborted"]
    <2>1. Known(sess, s, t) /\ s \in Sids /\ sess[s].state = "open" /\ sess \in [Sids -> Session]
      BY <1>1, <1>4 DEF LoopFits, Known, IInv, TypeOK
    <2>2. sess' = [sess EXCEPT ![s] = e]
      BY <1>1, <1>4, <2>1
    <2>3. e \in Session /\ e.state = "aborted" /\ e.tab = t
      BY <2>1 DEF Session, Known
    <2> HIDE DEF s, e, l, k
    <2>4. /\ SessionsGoOn(t) /\ sess'[s] = e /\ \A r \in Sids : r # s => sess'[r] = sess[r]
          /\ \A r \in Sids : sess'[r].state \in {"open", "aborted"} => Live(r)
      BY <2>1, <2>2, <2>3, OwnSession
    <2>5. LoopFits(sess', t, l, tx[t])
      BY <1>1, <1>3, <1>4, <2>1, <2>3, <2>4, NullIsNothing DEF LoopFits, Known, s
    <2>6. Counts(sess', l, tx[t])
      BY <1>3 DEF Counts
    <2> QED BY <1>1, <1>2, <2>4, <2>5, <2>6, CallServed DEF k, l
  <1>5. CASE k.call # "session"
    <2> HIDE DEF k, l
    <2>1. sess' = sess
      BY <1>1, <1>5
    <2>2. LoopFits(sess', t, l, tx[t])
      BY <1>1, <1>3, <1>5, <2>1, NullIsNothing DEF LoopFits
    <2>3. Counts(sess', l, tx[t])
      BY <1>1, <1>5 DEF LoopFits, Counts
    <2> QED BY <1>1, <1>2, <2>1, <2>2, <2>3, SameSessions, CallServed DEF k, l
  <1> QED BY <1>4, <1>5

\* A statement is executed, or refused by a session that is marked or has ended.
LEMMA StatementServed ==
    ASSUME IInv, NEW t \in Tabs, ServerExecutes(t)
    PROVE  IInv'
  <1> DEFINE k == loop[t]
             L(r) == [k EXCEPT !.reply = r]
  <1>1. /\ k # Null /\ k \in Loop /\ k.reply = Null /\ k.call # "begin" /\ tx[t] \in Tx
        /\ LoopFits(sess, t, k, tx[t]) /\ Counts(sess, k, tx[t])
        /\ UNCHANGED <<tabs, active, tx, isRunning, controller, finish, idle, closing, mounted, orphans, events>>
    BY TabFacts DEF ServerExecutes
  <1>2. \A r \in {"ok", "failed", "gone"} :
           L(r).left = k.left /\ L(r).call = k.call /\ L(r).sid = k.sid /\ L(r).reply = r /\ L(r) # Null
    <2>1. \A r \in {"ok", "failed", "gone"} : r \in Reply
      BY DEF Reply
    <2> HIDE DEF k
    <2> QED BY <1>1, <2>1, LoopUpdate, NullIsNothing
  <1>3. CASE k.call = "session" /\ sess[k.sid].state = "open"
    <2> DEFINE s == k.sid
               h == Head(k.left)
               e == [sess[s] EXCEPT !.done = IF h THEN @ + 1 ELSE @]
               l == L("ok")
    <2>1. Known(sess, s, t) /\ s \in Sids /\ sess[s].state = "open" /\ sess \in [Sids -> Session]
      BY <1>1, <1>3 DEF LoopFits, Known, IInv, TypeOK
    <2>2. loop' = [loop EXCEPT ![t] = l]
      BY <1>3 DEF ServerExecutes, IInv, TypeOK
    <2>3. sess' = [sess EXCEPT ![s] = e]
      BY <1>3, <2>1 DEF ServerExecutes
    <2>4. /\ e \in Session /\ e.state = "open" /\ e.tab = t
          /\ e.done = IF h THEN sess[s].done + 1 ELSE sess[s].done
      <3>1. sess[s].done \in Nat /\ sess[s].done + 1 \in Nat
        BY <2>1 DEF Session
      <3> HIDE DEF h
      <3> QED BY <2>1, <3>1 DEF Session, Known
    <2>5. l.left = k.left /\ l.call = k.call /\ l.sid = k.sid /\ l.reply = "ok" /\ l # Null
      BY <1>2
    <2> HIDE DEF l, k, e, h, s
    <2>6. /\ SessionsGoOn(t) /\ sess'[s] = e /\ \A r \in Sids : r # s => sess'[r] = sess[r]
          /\ \A r \in Sids : sess'[r].state \in {"open", "aborted"} => Live(r)
      BY <2>1, <2>3, <2>4, OwnSession
    <2>7. LoopFits(sess', t, l, tx[t])
      BY <1>1, <1>3, <2>1, <2>4, <2>5, <2>6, NullIsNothing DEF LoopFits, Known, s
    <2>8. Counts(sess', l, tx[t])
      <3> SUFFICES ASSUME tx[t].sid # Null, ~tx[t].aborted,
                          sess'[tx[t].sid].state \in {"open", "aborted"}
                   PROVE  /\ sess'[tx[t].sid].state = "open"
                          /\ sess'[tx[t].sid].done = IF Head(l.left) THEN tx[t].pending + 1 ELSE tx[t].pending
        BY <2>5, NullIsNothing DEF Counts
      <3>1. tx[t].sid = s
        BY <1>1, <1>3 DEF LoopFits, s
      <3>2. sess[s].done = tx[t].pending
        BY <1>1, <2>1, <3>1 DEF Counts
      <3> QED BY <3>1, <3>2, <2>4, <2>5, <2>6 DEF h
    <2> QED BY <1>1, <2>2, <2>6, <2>7, <2>8, CallServed DEF k, l
  <1>4. CASE k.call = "session" /\ sess[k.sid].state # "open"
    <2> DEFINE r == IF Live(k.sid) THEN "failed" ELSE "gone"
               l == L(r)
    <2>1. loop' = [loop EXCEPT ![t] = l] /\ sess' = sess
      BY <1>4 DEF ServerExecutes, IInv, TypeOK
    <2>2. Known(sess, k.sid, t) /\ sess \in [Sids -> Session]
      BY <1>1, <1>4 DEF LoopFits, IInv, TypeOK
    <2>3. r = "gone" => HasEnded(sess, k.sid)
      BY <2>2, <1>4 DEF Known, HasEnded, Live, Session
    <2>4. r \in {"ok", "failed", "gone"} /\ r # "ok"
      OBVIOUS
    <2> HIDE DEF r
    <2>5. l.left = k.left /\ l.call = k.call /\ l.sid = k.sid /\ l.reply = r /\ l # Null
      BY <1>2, <2>4
    <2> HIDE DEF l, k
    <2>6. LoopFits(sess', t, l, tx[t])
      BY <1>1, <1>4, <2>1, <2>2, <2>3, <2>5, NullIsNothing DEF LoopFits
    <2>7. Counts(sess', l, tx[t])
      BY <2>4, <2>5, NullIsNothing DEF Counts
    <2> QED BY <1>1, <2>1, <2>4, <2>6, <2>7, SameSessions, CallServed DEF k, l
  <1>5. CASE k.call # "session"
    <2> DEFINE l == L("ok")
    <2>1. loop' = [loop EXCEPT ![t] = l] /\ sess' = sess
      BY <1>5 DEF ServerExecutes, IInv, TypeOK
    <2>2. l.left = k.left /\ l.call = k.call /\ l.sid = k.sid /\ l.reply = "ok" /\ l # Null
      BY <1>2
    <2> HIDE DEF l, k
    <2>3. LoopFits(sess', t, l, tx[t])
      BY <1>1, <1>5, <2>1, <2>2, NullIsNothing DEF LoopFits
    <2>4. Counts(sess', l, tx[t])
      BY <1>1, <1>5 DEF LoopFits, Counts
    <2> QED BY <1>1, <2>1, <2>3, <2>4, SameSessions, CallServed DEF k, l
  <1> QED BY <1>3, <1>4, <1>5

\* Sessions end while the tabs go on as they were.
LEMMA SessionsEnd ==
    ASSUME IInv, RestOK', UNCHANGED <<tx, loop, idle>>,
           sess' = sess \/ \E s \in Sids : Ended(s), FinishFits', NoSessionForgotten'
    PROVE  IInv'
  <1>1. sess' \in [Sids -> Session] /\ \A u \in Tabs : Same(sess, sess', u)
    BY Unchanged, EndedSame DEF IInv, TypeOK
  <1>2. TabsFit'
    BY <1>1, NoTab DEF IInv
  <1>3. TypeOK'
    BY <1>1 DEF IInv, TypeOK, RestOK
  <1> QED BY <1>2, <1>3 DEF IInv

\* What the user waits for fits as before when sessions end.
LEMMA FinishWaits ==
    ASSUME IInv, UNCHANGED <<tx, loop, finish>>, sess' = sess \/ \E s \in Sids : Ended(s)
    PROVE  FinishFits'
  <1>1. sess' \in [Sids -> Session] /\ sess \in [Sids -> Session]
    BY EndedSame DEF IInv, TypeOK
  <1>2. \A s \in Sids : sess[s].state # "none" =>
           sess'[s].state # "none" /\ sess'[s].tab = sess[s].tab
              /\ (HasEnded(sess, s) => HasEnded(sess', s))
    <2>1. CASE sess' = sess
      BY <2>1 DEF HasEnded
    <2>2. ASSUME NEW r \in Sids, Ended(r)
          PROVE  \A s \in Sids : sess[s].state # "none" =>
                    sess'[s].state # "none" /\ sess'[s].tab = sess[s].tab
                       /\ (HasEnded(sess, s) => HasEnded(sess', s))
      BY <2>2, EndedSame DEF IInv, HasEnded
    <2> QED BY <2>1, <2>2
  <1>3. \A t \in Tabs : loop'[t] \in Loop \cup {Null} /\ tx'[t] \in Tx
    BY DEF IInv, TypeOK
  <1>4. finish # Null => EndFits(sess, finish, loop'[finish.tab], tx'[finish.tab])
    BY DEF IInv, FinishFits
  <1> QED BY <1>1, <1>2, <1>3, <1>4, FinishStays DEF IInv

\* Sessions that end live no more.
LEMMA EndedLives ==
    ASSUME IInv, sess' = sess \/ \E s \in Sids : Ended(s), NEW r \in Sids, Live(r)'
    PROVE  Live(r) /\ ~Ended(r)
  <1>1. CASE sess' = sess
    <2>1. Live(r)
      BY <1>1 DEF Live
    <2>2. ~Ended(r)
      <3> SUFFICES ASSUME Ended(r) PROVE FALSE
        OBVIOUS
      <3> QED BY EndedSame DEF IInv, HasEnded, Live
    <2> QED BY <2>1, <2>2
  <1>2. ASSUME NEW s \in Sids, Ended(s) PROVE Live(r) /\ ~Ended(r)
    <2>1. sess'[s].state = "ended" /\ (r # s => sess'[r] = sess[r])
      BY <1>2, EndedSame DEF IInv, HasEnded
    <2>2. Ended(r) => sess'[r].state = "ended"
      BY EndedSame DEF IInv, HasEnded
    <2> QED BY <2>1, <2>2 DEF Live
  <1> QED BY <1>1, <1>2

\* The server finishes what the user waits for, or finds that it has ended.
LEMMA FinishServed ==
    ASSUME IInv, ServerFinishes
    PROVE  IInv'
  <1> DEFINE r == FinishReply(finish.sid, finish.action)
             f == [finish EXCEPT !.reply = r]
  <1>1. /\ finish # Null /\ finish \in Finish /\ finish.tab \in Tabs /\ finish.sid \in Sids
        /\ EndFits(sess, finish, loop[finish.tab], tx[finish.tab])
        /\ finish' = f /\ IF r = "ok" THEN Ended(finish.sid) ELSE UNCHANGED sess
        /\ UNCHANGED <<tabs, active, tx, loop, isRunning, controller, idle, closing, mounted, orphans, events>>
    BY DEF ServerFinishes, IInv, TypeOK, Finish, FinishFits
  <1>2. r \in {"ok", "failed", "gone"} /\ (r = "gone" => ~Live(finish.sid))
    BY DEF FinishReply
  <1>3. f \in Finish /\ f.tab = finish.tab /\ f.sid = finish.sid /\ f.reply = r
    <2> HIDE DEF r
    <2> QED BY <1>1, <1>2 DEF Finish, Reply
  <1> HIDE DEF r, f
  <1>4. RestOK'
    BY <1>1, <1>3 DEF IInv, TypeOK, RestOK
  <1>5. sess' = sess \/ \E s \in Sids : Ended(s)
    BY <1>1
  <1>6. Known(sess', f.sid, f.tab) /\ (r \in {"ok", "gone"} => HasEnded(sess', f.sid))
    <2>1. Known(sess, f.sid, f.tab) /\ sess \in [Sids -> Session]
      BY <1>1, <1>3 DEF EndFits, IInv, TypeOK
    <2>2. CASE r = "ok"
      <3>1. HasEnded(sess', f.sid) /\ sess'[f.sid].tab = sess[f.sid].tab
        BY <1>1, <1>3, <2>2, EndedSame DEF IInv
      <3> QED BY <2>1, <3>1 DEF Known, HasEnded
    <2>3. CASE r # "ok"
      <3>1. sess' = sess
        BY <1>1, <2>3
      <3>2. r = "gone" => HasEnded(sess, f.sid)
        BY <1>2, <1>3, <2>1 DEF Known, HasEnded, Live, Session
      <3> QED BY <2>1, <2>3, <3>1, <3>2
    <2> QED BY <2>2, <2>3
  <1>7. FinishFits'
    BY <1>1, <1>3, <1>6 DEF FinishFits, EndFits
  <1>8. NoSessionForgotten'
    BY <1>1, <1>5, EndedLives DEF IInv, NoSessionForgotten
  <1> QED BY <1>1, <1>4, <1>5, <1>7, <1>8, SessionsEnd

\* So does it with the close of the timer.
LEMMA IdleServed ==
    ASSUME IInv, NEW t \in Tabs, ServerClosesIdle(t)
    PROVE  IInv'
  <1> DEFINE k == idle[t]
             r == FinishReply(k.sid, "close")
             d == [k EXCEPT !.reply = r]
  <1>1. /\ k # Null /\ k \in Idle /\ k.sid \in Sids /\ IdleFits(sess, t, loop[t], tx[t], k)
        /\ idle' = [idle EXCEPT ![t] = d]
        /\ IF r = "ok" THEN Ended(k.sid) ELSE UNCHANGED sess
        /\ UNCHANGED <<tabs, active, tx, loop, isRunning, controller, finish, closing, mounted, orphans, events>>
    <2>1. k # Null /\ k \in Idle /\ IdleFits(sess, t, loop[t], tx[t], k)
      BY TabFacts DEF ServerClosesIdle
    <2> QED BY <2>1 DEF ServerClosesIdle, IInv, TypeOK, Idle
  <1>2. r \in {"ok", "gone"} /\ (r = "gone" => ~Live(k.sid))
    BY DEF FinishReply
  <1>3. d \in Idle /\ d.sid = k.sid /\ d.reply = r
    <2> HIDE DEF r, k
    <2> QED BY <1>1, <1>2 DEF Idle, Reply
  <1> HIDE DEF k, r, d
  <1>4. /\ loop[t] = Null /\ tx[t] \in Tx /\ tx[t].sid \in {k.sid, Null} /\ Known(sess, k.sid, t)
        /\ TxFits(sess, t, tx[t]) /\ Counts(sess, loop[t], tx[t])
        /\ finish # Null /\ finish.tab = t => EndFits(sess, finish, loop[t], tx[t])
        /\ sess \in [Sids -> Session]
    BY <1>1, TabFacts DEF IdleFits, IInv, TypeOK
  <1>5. SessionsGoOn(t) /\ Same(sess, sess', t)
    <2>1. CASE sess' = sess
      BY <1>4, <2>1, Unchanged DEF SessionsGoOn, HasEnded
    <2>2. CASE Ended(k.sid)
      BY <1>1, <2>2, EndedSame DEF IInv, SessionsGoOn, HasEnded
    <2> QED BY <1>1, <2>1, <2>2
  <1>6. HasEnded(sess', k.sid)
    <2>1. CASE r = "ok"
      BY <1>1, <2>1, EndedSame DEF IInv
    <2>2. CASE r = "gone"
      BY <1>1, <1>2, <1>4, <2>2 DEF Known, HasEnded, Live, Session
    <2> QED BY <1>2, <2>1, <2>2
  <1>7. Fits(sess', t, Null, tx[t], d)
    <2>1. Fits(sess, t, Null, tx[t], Null)
      BY <1>4 DEF Fits, IdleFits
    <2>2. Fits(sess', t, Null, tx[t], Null)
      BY <1>4, <1>5, <2>1, FitsKept DEF SessionsGoOn
    <2>3. IdleFits(sess', t, Null, tx[t], d)
      BY <1>3, <1>4, <1>5, <1>6 DEF IdleFits, SessionsGoOn, Known
    <2> QED BY <2>2, <2>3 DEF Fits
  <1>8. About(t, Null, tx[t], d)
    BY <1>1, <1>4, Itself DEF IInv, About
  <1>9. Remembers(t, Null, tx[t])
    <2>1. \A s \in Sids : sess'[s].state \in {"open", "aborted"} => Live(s)
      <3>1. sess' = sess \/ \E s \in Sids : Ended(s)
        BY <1>1
      <3> QED BY <3>1, EndedLives DEF Live
    <2> QED BY <1>1, <1>4, <2>1 DEF Remembers, Begins
  <1>10. RestOK'
    BY <1>1 DEF IInv, TypeOK, RestOK
  <1> QED BY <1>3, <1>4, <1>5, <1>7, <1>8, <1>9, <1>10, TabStep

\* A close arrives or is lost, and the server ends sessions that are idle.
LEMMA CloseSteps ==
    ASSUME IInv, NEW s \in Sids, ServerCloses(s) \/ CloseLost(s) \/ ServerExpires(s)
    PROVE  IInv'
  <1>1. /\ UNCHANGED <<tabs, active, tx, loop, isRunning, controller, finish, idle, mounted, events>>
        /\ closing' \in {closing, closing \ {s}} /\ orphans' \in {orphans, orphans \cup {s}}
        /\ sess' = sess \/ Ended(s)
    BY DEF ServerCloses, CloseLost, ServerExpires
  <1>2. RestOK'
    BY <1>1 DEF IInv, TypeOK, RestOK
  <1>3. sess' = sess \/ \E r \in Sids : Ended(r)
    BY <1>1
  <1>4. FinishFits'
    BY <1>1, <1>3, FinishWaits
  <1>5. NoSessionForgotten'
    <2> SUFFICES ASSUME NEW r \in Sids, Live(r)'
                 PROVE  \/ r \in closing' \cup orphans'
                        \/ \E t \in Tabs : loop[t] # Null /\ loop[t].call = "begin" /\ loop[t].sid = r
                        \/ mounted /\ \E t \in Tabs : tx[t].sid = r
      BY <1>1 DEF NoSessionForgotten
    <2>1. Live(r) /\ ~Ended(r)
      BY <1>3, EndedLives
    <2>2. r = s => r \in closing' \cup orphans' \/ r \notin closing
      BY <1>1, <2>1 DEF ServerCloses, CloseLost, ServerExpires
    <2>3. \/ r \in closing \cup orphans
          \/ \E t \in Tabs : loop[t] # Null /\ loop[t].call = "begin" /\ loop[t].sid = r
          \/ mounted /\ \E t \in Tabs : tx[t].sid = r
      BY <2>1 DEF IInv, NoSessionForgotten
    <2> QED BY <1>1, <2>2, <2>3
  <1> QED BY <1>1, <1>2, <1>3, <1>4, <1>5, SessionsEnd

-----------------------------------------------------------------------------
(* The invariant.                                                          *)

\* It holds of a console that has just been opened.
THEOREM InitInvariant == Init => IInv
  <1> SUFFICES ASSUME Init PROVE IInv
    OBVIOUS
  <1>1. PICK mode \in {"auto", "manual"} :
           tx = [t \in Tabs |-> [mode |-> mode, sid |-> Null, pending |-> 0, aborted |-> FALSE]]
    BY DEF Init
  <1>2. [mode |-> mode, sid |-> Null, pending |-> 0, aborted |-> FALSE] \in Tx
    BY DEF Tx
  <1>3. [state |-> "none", tab |-> Null, done |-> 0] \in Session
    BY DEF Session
  <1>4. \A t \in Tabs : tx[t].sid = Null /\ tx[t].pending = 0 /\ ~tx[t].aborted
    BY <1>1
  <1>5. TypeOK
    <2>1. tx \in [Tabs -> Tx]
      BY <1>1, <1>2
    <2>2. sess \in [Sids -> Session]
      BY <1>3 DEF Init
    <2>3. tabs \in [Tabs -> {"unused", "open", "closed"}] /\ active \in Tabs
      BY ConsoleTabsAssumption DEF Init
    <2>4. events \in 0 .. MaxEvents
      BY ConsoleTabsAssumption DEF Init
    <2>5. loop \in [Tabs -> Loop \cup {Null}] /\ idle \in [Tabs -> Idle \cup {Null}]
      BY DEF Init
    <2> QED BY <2>1, <2>2, <2>3, <2>4, <2>5 DEF Init, TypeOK
  <1>6. TabsFit
    BY <1>4 DEF Init, TabsFit, Fits, TxFits, IdleFits, Counts
  <1>7. FinishFits /\ NoSessionForgotten
    BY DEF Init, FinishFits, NoSessionForgotten, Live
  <1> QED BY <1>5, <1>6, <1>7 DEF IInv

\* Every step keeps it.
THEOREM NextInvariant == IInv /\ [Next]_vars => IInv'
  <1> SUFFICES ASSUME IInv, [Next]_vars PROVE IInv'
    OBVIOUS
  <1>1. CASE UNCHANGED vars
    BY <1>1 DEF vars, IInv, TypeOK, TabsFit, FinishFits, NoSessionForgotten, Live
  <1>2. CASE UserStep
    <2>1. ASSUME NEW t \in Tabs, NEW statements \in Runs, runStatements(t, statements) PROVE IInv'
      BY <2>1, RunBegins
    <2>2. CASE \/ \E action \in {"commit", "rollback"}, next \in {"stay", "auto"} :
                     finishActiveTransaction(action, next)
               \/ \E t \in Tabs : handleConfirmCloseTab(t)
      BY <2>2, EndSteps
    <2>3. CASE (\E t \in Tabs : handleSelectTab(t) \/ handleNewTab(t)) \/ PageHides \/ Unmount
      BY <2>3, QuietSteps
    <2>4. ASSUME NEW mode \in {"auto", "manual"}, SelectMode(mode) PROVE IInv'
      BY <2>4, ModeChanges
    <2>5. CASE handleCancelQuery
      BY <2>5, RunCancelled
    <2> QED BY <1>2, <2>1, <2>2, <2>3, <2>4, <2>5 DEF UserStep
  <1>3. CASE FinishStep
    <2>1. ASSUME NEW conflict \in BOOLEAN, FinishFails(conflict) PROVE IInv'
      BY <2>1, FinishGivesUp
    <2> QED BY <1>3, <2>1, FinishServed, FinishReturns DEF FinishStep
  <1>4. ASSUME NEW t \in Tabs, RunStep(t) PROVE IInv'
    <2>1. ASSUME NEW lost \in BOOLEAN, ExecuteFails(t, lost) PROVE IInv'
      BY <2>1, ExecuteGivesUp
    <2>2. ASSUME NEW s \in Sids, ServerBegins(t, s) PROVE IInv'
      BY <2>2, BeginServed
    <2> QED BY <1>4, <2>1, <2>2, BeginReturns, ExecuteReturns, CallRefused, StatementServed DEF RunStep
  <1>5. ASSUME NEW t \in Tabs, IdleStep(t) \/ IdleCloses(t) PROVE IInv'
    BY <1>5, IdleServed, IdleReturns, IdleBegins DEF IdleStep
  <1>6. ASSUME NEW s \in Sids, CloseStep(s) \/ ServerExpires(s) PROVE IInv'
    BY <1>6, CloseSteps DEF CloseStep
  <1> QED BY <1>1, <1>2, <1>3, <1>4, <1>5, <1>6 DEF Next, CallStep

\* The invariant holds in every state the console and the server reach.
THEOREM Invariant == Spec => []IInv
  BY InitInvariant, NextInvariant, PTL DEF Spec

\* The variables hold values of their types.
THEOREM TypesHold == Spec => []TypeOK
  <1>1. IInv => TypeOK
    BY DEF IInv
  <1> QED BY <1>1, Invariant, PTL

\* No session of the server is forgotten: begin, finish, closeAll and the idle
\* timer each hand it on, whatever they cross.
THEOREM NoSessionIsForgotten == Spec => []NoSessionForgotten
  <1>1. IInv => NoSessionForgotten
    BY DEF IInv
  <1> QED BY <1>1, Invariant, PTL

\* The badge shows how many writes the open transaction of the tab holds.
THEOREM PendingCounts == Spec => []PendingIsOfSession
  <1>1. IInv => PendingIsOfSession
    <2> SUFFICES ASSUME IInv, NEW t \in Tabs, tx[t].sid # Null, ~tx[t].aborted, loop[t] = Null,
                        Live(tx[t].sid)
                 PROVE  sess[tx[t].sid] = [state |-> "open", tab |-> t, done |-> tx[t].pending]
      BY DEF PendingIsOfSession
    <2>1. /\ Known(sess, tx[t].sid, t) /\ sess[tx[t].sid].state = "open"
          /\ sess[tx[t].sid].done = tx[t].pending
      BY TabFacts DEF TxFits, Counts, Live
    <2>2. sess[tx[t].sid] \in Session
      BY <2>1 DEF IInv, TypeOK, Known
    <2> QED BY <2>1, <2>2 DEF Session, Known
  <1> QED BY <1>1, Invariant, PTL

-----------------------------------------------------------------------------
(* Where statements go.                                                    *)

\* A step gives the tab's run a new call to wait for, whose statement goes where
\* the tab says.
Started(call, k) ==
    /\ call # Null /\ call.call # "begin" /\ call.reply = Null /\ call # k
    /\ k # Null => [call EXCEPT !.cancelled = FALSE] # [k EXCEPT !.cancelled = FALSE]
GoesAsShown(call, x) ==
    IF call.call = "session" THEN call.sid = x.sid /\ ~x.aborted
    ELSE x.sid = Null /\ (Head(call.left) => x.mode = "auto")
Goes(t) == Started(loop'[t], loop[t]) => GoesAsShown(loop'[t], tx'[t])

\* Nothing starts for a tab whose run is as it was, has ended, or has the answer
\* of its call.
LEMMA NothingStarts ==
    ASSUME NEW t \in Tabs, loop'[t] = loop[t] \/ loop'[t] = Null \/ loop'[t].reply # Null
    PROVE  Goes(t)
  BY DEF Goes, Started

\* What starts is a call as a run makes it.
LEMMA CallGoes ==
    ASSUME NEW x \in Tx, NEW left \in Seq(BOOLEAN), NEW cancelled \in BOOLEAN,
           Call(x, left, cancelled) # Null, Call(x, left, cancelled).call # "begin"
    PROVE  GoesAsShown(Call(x, left, cancelled), x)
  <1> DEFINE l == Call(x, left, cancelled)
  <1>1. /\ l \in Loop \cup {Null}
        /\ l # Null => /\ ~x.aborted /\ l.left = left /\ l.sid = x.sid
                       /\ (l.call = "session") = (x.sid # Null)
                       /\ l.call = "auto" => (Head(left) => x.mode # "manual")
    BY CallType
  <1>2. l # Null /\ l.call # "begin"
    OBVIOUS
  <1> HIDE DEF l
  <1>3. l.call \in {"begin", "session", "auto"}
    BY <1>1, <1>2 DEF Loop
  <1>4. x.mode \in {"auto", "manual"}
    BY DEF Tx
  <1>5. GoesAsShown(l, x)
    BY <1>1, <1>2, <1>3, <1>4 DEF GoesAsShown
  <1> QED BY <1>5 DEF l

\* The steps that let a statement start, or let a run wait on.
LEMMA RunGoes ==
    ASSUME IInv, NEW t \in Tabs, NEW statements \in Runs, runStatements(t, statements), NEW u \in Tabs
    PROVE  Goes(u)
  <1> DEFINE x == tx[t]
  <1>1. x \in Tx /\ statements \in Seq(BOOLEAN) /\ FALSE \in BOOLEAN
    BY ConsoleTabsAssumption, TabFacts
  <1>2. loop' = [loop EXCEPT ![t] = Call(x, statements, FALSE)] /\ tx' = tx
    BY DEF runStatements
  <1>3. CASE u = t
    <2>1. loop'[t] = Call(x, statements, FALSE) /\ tx'[t] = x
      BY <1>2 DEF IInv, TypeOK
    <2> HIDE DEF x
    <2>2. Call(x, statements, FALSE) # Null /\ Call(x, statements, FALSE).call # "begin"
            => GoesAsShown(Call(x, statements, FALSE), x)
      BY <1>1, CallGoes, Zenon
    <2> QED BY <1>3, <2>1, <2>2 DEF Goes, Started
  <1>4. CASE u # t
    BY <1>2, <1>4, NothingStarts DEF IInv, TypeOK
  <1> QED BY <1>3, <1>4

\* A cancelled run starts nothing.
LEMMA CancelGoes ==
    ASSUME IInv, handleCancelQuery, NEW u \in Tabs
    PROVE  Goes(u)
  <1> DEFINE k == loop[u]
             l == [k EXCEPT !.cancelled = TRUE]
  <1>1. loop'[u] \in {k, Null} \/ (k # Null /\ loop'[u] = l)
    BY DEF handleCancelQuery
  <1>2. CASE loop'[u] \in {k, Null}
    BY <1>2, NothingStarts
  <1>3. CASE k # Null /\ loop'[u] = l
    <2>1. k \in Loop
      BY <1>3, TabFacts
    <2>2. [l EXCEPT !.cancelled = FALSE] = [k EXCEPT !.cancelled = FALSE]
      <3> HIDE DEF k
      <3> QED BY <2>1 DEF Loop
    <2> QED BY <1>3, <2>2 DEF Goes, Started
  <1> QED BY <1>1, <1>2, <1>3

\* The statement that waited for the session goes where the tab says by then.
LEMMA BeginGoes ==
    ASSUME IInv, NEW t \in Tabs, BeginAnswered(t), NEW u \in Tabs
    PROVE  Goes(u)
  <1> DEFINE k == loop[t]
             s == k.sid
             y == tx[t]
             x == Begun(y, s)
             m == [k EXCEPT !.reply = Null, !.sid = x.sid,
                      !.call = IF x.sid # Null THEN "session" ELSE "auto"]
             l == IF k.cancelled /\ x.sid = Null THEN Null ELSE m
  <1>1. /\ k \in Loop /\ y \in Tx /\ s \in Sids /\ s # Null /\ y.sid = Null /\ ~y.aborted
    BY TabFacts, NullIsNothing DEF BeginAnswered, LoopFits, TxFits, Known
  <1>2. CASE mounted
    <2>1. tx' = [tx EXCEPT ![t] = x] /\ loop' = [loop EXCEPT ![t] = l]
      BY <1>2 DEF BeginAnswered, Continue
    <2>2. CASE u = t
      <3>1. loop'[t] = l /\ tx'[t] = x
        BY <2>1 DEF IInv, TypeOK
      <3>2. /\ x.sid = IF y.mode = "manual" THEN s ELSE Null
            /\ ~x.aborted /\ x.mode = y.mode /\ y.mode \in {"auto", "manual"}
        <4> HIDE DEF y, s
        <4> QED BY <1>1, BegunEffect DEF Tx
      <3> HIDE DEF x
      <3>3. m.call = (IF x.sid # Null THEN "session" ELSE "auto") /\ m.sid = x.sid /\ m.left = k.left
        <4> HIDE DEF k
        <4> QED BY <1>1 DEF Loop
      <3> HIDE DEF m
      <3>4. GoesAsShown(m, x)
        BY <1>1, <3>2, <3>3 DEF GoesAsShown
      <3> QED BY <2>2, <3>1, <3>4 DEF Goes, Started
    <2>3. CASE u # t
      BY <2>1, <2>3, NothingStarts DEF IInv, TypeOK
    <2> QED BY <2>2, <2>3
  <1>3. CASE ~mounted
    <2>1. loop' = [loop EXCEPT ![t] = Null]
      BY <1>3 DEF BeginAnswered, Continue
    <2> QED BY <2>1, NothingStarts DEF IInv, TypeOK
  <1> QED BY <1>2, <1>3

\* So does the next statement of a run.
LEMMA ExecuteGoes ==
    ASSUME IInv, NEW t \in Tabs, ExecuteAnswered(t), NEW u \in Tabs
    PROVE  Goes(u)
  <1> DEFINE k == loop[t]
             y == tx[t]
             left == Tail(k.left)
             cancelled == k.cancelled
             x == IF k.call = "session" THEN Success(y, Head(k.left)) ELSE y
  <1>1. k \in Loop /\ y \in Tx /\ k.left # <<>>
    BY TabFacts DEF ExecuteAnswered, LoopFits
  <1>2. loop' = [loop EXCEPT ![t] = Call(x, left, cancelled)] /\ tx' = [tx EXCEPT ![t] = x]
    BY DEF ExecuteAnswered, Continue
  <1>3. Head(k.left) \in BOOLEAN /\ left \in Seq(BOOLEAN) /\ cancelled \in BOOLEAN
    <2>1. k.left \in Seq(BOOLEAN) /\ k.cancelled \in BOOLEAN
      BY <1>1 DEF Loop
    <2> QED BY <1>1, <2>1, HeadTailProperties
  <1>4. x \in Tx
    <2> DEFINE h == Head(k.left)
    <2>1. h \in BOOLEAN
      BY <1>3
    <2> HIDE DEF h, y
    <2>2. Success(y, h) \in Tx
      BY <1>1, <2>1, ReducerType
    <2> QED BY <1>1, <2>2 DEF h
  <1>5. loop'[t] = Call(x, left, cancelled) /\ tx'[t] = x
    BY <1>2 DEF IInv, TypeOK
  <1>6. CASE u = t
    <2> HIDE DEF x, left, cancelled
    <2>1. Call(x, left, cancelled) # Null /\ Call(x, left, cancelled).call # "begin"
            => GoesAsShown(Call(x, left, cancelled), x)
      BY <1>3, <1>4, CallGoes
    <2> QED BY <1>5, <1>6, <2>1 DEF Goes, Started
  <1>7. CASE u # t
    BY <1>2, <1>7, NothingStarts DEF IInv, TypeOK
  <1> QED BY <1>6, <1>7

\* The server gives a call its answer, and a failure ends the run.
LEMMA AnswersGo ==
    ASSUME IInv, NEW t \in Tabs, NEW u \in Tabs,
           \/ \E lost \in BOOLEAN : ExecuteFails(t, lost)
           \/ \E s \in Sids : ServerBegins(t, s)
           \/ ServerFails(t) \/ ServerExecutes(t)
    PROVE  Goes(u)
  <1> DEFINE k == loop[t]
  <1>1. loop \in [Tabs -> Loop \cup {Null}]
    BY DEF IInv, TypeOK
  <1>2. CASE \E lost \in BOOLEAN : ExecuteFails(t, lost)
    <2>1. loop' = [loop EXCEPT ![t] = Null]
      BY <1>2 DEF ExecuteFails, Continue
    <2> QED BY <1>1, <2>1, NothingStarts
  <1>3. CASE (\E s \in Sids : ServerBegins(t, s)) \/ ServerFails(t) \/ ServerExecutes(t)
    <2>1. k # Null
      BY <1>3 DEF ServerBegins, ServerFails, ServerExecutes
    <2>2. k \in Loop
      BY <2>1, TabFacts
    <2>3. loop'[t].reply # Null /\ (u # t => loop'[u] = loop[u])
      <3>1. PICK r \in {"ok", "failed", "gone"}, l \in Loop :
               loop' = [loop EXCEPT ![t] = l] /\ l.reply = r
        <4>1. ASSUME NEW s \in Sids, ServerBegins(t, s)
              PROVE  \E l \in Loop : loop' = [loop EXCEPT ![t] = l] /\ l.reply = "ok"
          <5> DEFINE l == [k EXCEPT !.reply = "ok", !.sid = s]
          <5>1. l \in Loop /\ l.reply = "ok"
            <6> HIDE DEF k
            <6> QED BY <2>2 DEF Loop, Reply
          <5>2. loop' = [loop EXCEPT ![t] = l]
            BY <1>1, <4>1 DEF ServerBegins
          <5> HIDE DEF l
          <5> QED BY <5>1, <5>2
        <4>2. ASSUME NEW r \in {"ok", "failed", "gone"}, loop' = [loop EXCEPT ![t].reply = r]
              PROVE  \E l \in Loop : loop' = [loop EXCEPT ![t] = l] /\ l.reply = r
          <5> DEFINE l == [k EXCEPT !.reply = r]
          <5>1. l \in Loop /\ l.reply = r
            <6> HIDE DEF k
            <6> QED BY <2>2 DEF Loop, Reply
          <5>2. loop' = [loop EXCEPT ![t] = l]
            BY <1>1, <4>2
          <5> HIDE DEF l
          <5> QED BY <5>1, <5>2
        <4>3. \/ \E s \in Sids : ServerBegins(t, s)
              \/ \E r \in {"ok", "failed", "gone"} : loop' = [loop EXCEPT ![t].reply = r]
          BY <1>3 DEF ServerFails, ServerExecutes
        <4> QED BY <4>1, <4>2, <4>3
      <3>2. loop'[t] = l /\ (u # t => loop'[u] = loop[u])
        BY <1>1, <3>1
      <3> QED BY <3>1, <3>2, NullIsNothing
    <2> QED BY <2>3, NothingStarts
  <1> QED BY <1>2, <1>3

\* Statements go where the tab says when they start, whatever changed while the
\* run waited (execute).
THEOREM StatementsGo == Spec => StatementsGoWhereShown
  <1>1. ASSUME IInv, [Next]_vars, NEW u \in Tabs PROVE Goes(u)
    <2>1. CASE loop' = loop
      BY <2>1, NothingStarts
    <2>2. CASE loop' # loop
      <3>1. \/ \E t \in Tabs, statements \in Runs : runStatements(t, statements)
            \/ handleCancelQuery
            \/ \E t \in Tabs :
                  \/ BeginAnswered(t) \/ ExecuteAnswered(t)
                  \/ \E lost \in BOOLEAN : ExecuteFails(t, lost)
                  \/ \E s \in Sids : ServerBegins(t, s)
                  \/ ServerFails(t) \/ ServerExecutes(t)
        BY <1>1, <2>2 DEF Next, vars, UserStep, CallStep, FinishStep, RunStep, IdleStep, CloseStep,
              finishActiveTransaction, handleSelectTab, handleNewTab, handleConfirmCloseTab, SelectMode,
              Unmount, PageHides, ServerFinishes, FinishAnswered, FinishFails, ServerClosesIdle,
              IdleAnswered, IdleCloses, ServerCloses, CloseLost, ServerExpires
      <3> QED BY <1>1, <3>1, RunGoes, CancelGoes, BeginGoes, ExecuteGoes, AnswersGo
    <2> QED BY <2>1, <2>2
  <1>2. IInv /\ [Next]_vars => [\A t \in Tabs :
          LET call == loop'[t]
          IN call # Null /\ call.call # "begin" /\ call.reply = Null /\ call # loop[t]
                /\ (loop[t] # Null => [call EXCEPT !.cancelled = FALSE] # [loop[t] EXCEPT !.cancelled = FALSE])
             => IF call.call = "session" THEN call.sid = tx'[t].sid /\ ~tx'[t].aborted
                ELSE tx'[t].sid = Null /\ (Head(call.left) => tx'[t].mode = "auto")]_vars
    BY <1>1 DEF Goes, Started, GoesAsShown
  <1> QED BY <1>2, Invariant, PTL DEF Spec, StatementsGoWhereShown

=============================================================================
