----------------------------- MODULE NotifyFlow -----------------------------
(***************************************************************************)
(* Desktop notifications of one session.  Every tab's instance hears every *)
(* status report, compares its panes with the baseline it last settled     *)
(* (notify_rules.rs, the settle of runtime.rs), and wants to show the same *)
(* toast; the claim files of session_files.rs elect one of them.           *)
(*                                                                         *)
(* A settle runs on a tick and hands its notifications to the host glue,   *)
(* which takes them one by one, each with several calls on the shared      *)
(* directory between which other instances run: `todo' holds what is left, *)
(* `stage' how far the reclaim of a stale claim got.  `claim' is the age   *)
(* in seconds of the file of each key.  Reports of one second are          *)
(* delivered within it.  `events', `latest', `toasts' and `raced' are      *)
(* history: the number of the report that made each edge, how many toasts  *)
(* each edge got, and the keys of which a young claim was removed.         *)
(***************************************************************************)
EXTENDS Integers, Sequences, FiniteSets, SequencesExt

CONSTANTS
  Instances,   \* plugin instances, one per tab
  Panes,
  Enabled,     \* the statuses the configuration notifies about
  WhenFocused, \* notify_when_focused
  ClaimTtl,    \* NOTIFY_CLAIM_TTL
  SweepAge,    \* NOTIFY_CLAIM_SWEEP_AGE
  MaxEvents    \* bound: reports about panes

Attention == {"pending", "done"}                   \* Status::needs_attention
Statuses == {"quiet"} \cup Attention                \* Idle and Running are alike

ASSUME NotifyFlowAssumption ==
  /\ IsFiniteSet(Panes)
  /\ Enabled \subseteq Attention
  /\ WhenFocused \in BOOLEAN
  /\ ClaimTtl \in Nat \ {0} /\ SweepAge \in Nat /\ ClaimTtl < SweepAge
  /\ MaxEvents \in Nat

NoPane == "none"
NoClaim == -1

\* A pane as notify_views shows it: its status, whether the user acknowledged
\* it, and the report it came with.
Views == [status : Statuses, acked : BOOLEAN, event : 0..MaxEvents]
Unreported == [status |-> "quiet", acked |-> FALSE, event |-> 0]

\* A notification: what the claim key is made of, and the event it tells of.
Notes == [pane : Panes, status : Attention, event : 0..MaxEvents]
Keys == Panes \X Attention
ClaimKey(note) == <<note.pane, note.status>>

VARIABLES
  open, view, prev, focus,            \* the instances
  inbox, todo, stage, notified,
  shared, claim,                      \* the files
  events, latest, toasts, raced       \* history

vars == <<open, view, prev, focus, inbox, todo, stage, notified, shared, claim,
          events, latest, toasts, raced>>

history == <<events, latest, toasts, raced>>

-----------------------------------------------------------------------------
(* notify_rules.rs                                                         *)

StatusMap(v) == [p \in Panes |-> v[p].status]

\* The toggles, as the statuses they ask for: none with the master switch off.
IsEnabled(status) == status \in Enabled

\* diff for one pane.
IsEdge(was, now) ==
  /\ ~now.acked
  /\ now.status \in Attention
  /\ now.status # was
  /\ IsEnabled(now.status)

Suppressed(p, focused) == focused = p /\ ~WhenFocused

\* diff: one note per edge that the focus does not suppress.
Diff(before, v, focused) ==
  {[pane |-> p, status |-> v[p].status, event |-> v[p].event] :
     p \in {q \in Panes : IsEdge(before[q], v[q]) /\ ~Suppressed(q, focused)}}

\* Mutant: a settled edge asks for no tick.
NeverUnsettled(i) == FALSE

\* has_unsettled_notifications, which keeps the timer armed.
Unsettled(i) == StatusMap(view[i]) # prev[i]

-----------------------------------------------------------------------------
(* session_files.rs                                                        *)

\* reclaim_if_stale's test.
Expired(age) == age > ClaimTtl

\* Mutant: the sweep takes the claims of the current event too.
SweepsAll(c) == [k \in Keys |-> NoClaim]

\* prune_stale_claims
Pruned(c) == [k \in Keys |-> IF c[k] > SweepAge THEN NoClaim ELSE c[k]]

Aged(age) == IF age = NoClaim \/ age > SweepAge THEN age ELSE age + 1

-----------------------------------------------------------------------------

Init ==
  /\ open = {}
  /\ view = [i \in Instances |-> [p \in Panes |-> Unreported]]
  /\ prev = [i \in Instances |-> [p \in Panes |-> "quiet"]]
  /\ focus = [i \in Instances |-> NoPane]
  /\ inbox = [i \in Instances |-> <<>>]
  /\ todo = [i \in Instances |-> <<>>]
  /\ stage = [i \in Instances |-> "next"]
  /\ notified = {}
  /\ shared = NoPane
  /\ claim = [k \in Keys |-> NoClaim]
  /\ events = 0
  /\ latest = [p \in Panes |-> Unreported]
  /\ toasts = [n \in 1..MaxEvents |-> 0]
  /\ raced = {}

Idle(i) == i \in open /\ todo[i] = <<>>

\* load: the view is what another instance persisted, and it is the baseline:
\* what was reported before is not news.
Open(i) ==
  /\ i \notin open
  /\ \E v \in {view[j] : j \in open} \cup {[p \in Panes |-> Unreported]} :
       /\ view' = [view EXCEPT ![i] = v]
       /\ prev' = [prev EXCEPT ![i] = StatusMap(v)]
  /\ open' = open \cup {i}
  /\ UNCHANGED <<focus, inbox, todo, stage, notified, shared, claim, history>>

\* Its tab closes, between two handlers.
Close(i) ==
  /\ Idle(i)
  /\ open' = open \ {i}
  /\ view' = [view EXCEPT ![i] = [p \in Panes |-> Unreported]]
  /\ prev' = [prev EXCEPT ![i] = [p \in Panes |-> "quiet"]]
  /\ focus' = [focus EXCEPT ![i] = NoPane]
  /\ inbox' = [inbox EXCEPT ![i] = <<>>]
  /\ notified' = notified \ {i}
  /\ UNCHANGED <<todo, stage, shared, claim, history>>

\* A report of a pane's status is broadcast; an acknowledgement is the Done a
\* right-click sends in the place of a question.
Report(p, status, acked) ==
  /\ events < MaxEvents
  /\ status # latest[p].status
  /\ acked => status = "done" /\ latest[p].status = "pending"
  /\ events' = events + 1
  /\ LET obs == [status |-> status, acked |-> acked, event |-> events + 1]
     IN /\ latest' = [latest EXCEPT ![p] = obs]
        /\ inbox' = [i \in Instances |->
                       IF i \in open THEN Append(inbox[i], <<p, obs>>)
                                     ELSE inbox[i]]
  /\ UNCHANGED <<open, view, prev, focus, todo, stage, notified, shared, claim,
                 toasts, raced>>

\* status_pipe: the payload reaches the stores; nothing settles yet.
StatusPipe(i) ==
  /\ Idle(i) /\ inbox[i] # <<>>
  /\ view' = [view EXCEPT ![i][Head(inbox[i])[1]] = Head(inbox[i])[2]]
  /\ inbox' = [inbox EXCEPT ![i] = Tail(@)]
  /\ UNCHANGED <<open, prev, focus, todo, stage, notified, shared, claim, history>>

\* publish_focus: last writer wins.
PublishFocus(p) == shared' = p

\* panes_changed of the active tab's instance: it notes the focus and
\* publishes it.
PanesChanged(i, p) ==
  /\ Idle(i)
  /\ focus' = [focus EXCEPT ![i] = p]
  /\ PublishFocus(p)
  /\ UNCHANGED <<open, view, prev, inbox, todo, stage, notified, claim, history>>

\* timer, as far as it settles (notify_effects): the baseline moves, and the
\* notes go to the host glue.
Timer(i) ==
  /\ Idle(i) /\ i \notin notified
  /\ todo' = [todo EXCEPT ![i] = SetToSeq(Diff(prev[i], view[i], focus[i]))]
  /\ prev' = [prev EXCEPT ![i] = StatusMap(view[i])]
  /\ notified' = notified \cup {i}
  /\ UNCHANGED <<open, view, focus, inbox, stage, shared, claim, history>>

SettleDue(i) == Unsettled(i) /\ Timer(i)

-----------------------------------------------------------------------------
(* handle_effects, Notify: the host glue works on the next note.           *)

Current(i) == Head(todo[i])
Key(i) == ClaimKey(Current(i))

Finish(i, won) ==
  /\ todo' = [todo EXCEPT ![i] = Tail(@)]
  /\ stage' = [stage EXCEPT ![i] = "next"]
  /\ toasts' = IF won /\ Current(i).event > 0
               THEN [toasts EXCEPT ![Current(i).event] = @ + 1] ELSE toasts
  /\ UNCHANGED <<open, view, prev, focus, inbox, notified, shared, events, latest>>

\* The user looks at the pane, as the active instance published it.
SkipFocused(i) ==
  /\ todo[i] # <<>> /\ stage[i] = "next"
  /\ Suppressed(Current(i).pane, shared)
  /\ Finish(i, FALSE)
  /\ UNCHANGED <<claim, raced>>

\* claim_notification: spent claims are swept, and create_new makes the claim
\* or finds it taken; stat of a taken one tells whether it is an old event's.
Claim(i) ==
  /\ todo[i] # <<>> /\ stage[i] = "next"
  /\ ~Suppressed(Current(i).pane, shared)
  /\ LET swept == Pruned(claim)
         age == swept[Key(i)]
     IN IF age = NoClaim
        THEN /\ claim' = [swept EXCEPT ![Key(i)] = 0]
             /\ Finish(i, TRUE)
             /\ UNCHANGED raced
        ELSE /\ claim' = swept
             /\ IF Expired(age)
                THEN /\ stage' = [stage EXCEPT ![i] = "stale"]
                     /\ UNCHANGED <<open, view, prev, focus, inbox, todo,
                                    notified, shared, history>>
                ELSE Finish(i, FALSE) /\ UNCHANGED raced

\* reclaim_if_stale, remove_file: whatever is there now.
RemoveStale(i) ==
  /\ stage[i] = "stale"
  /\ stage' = [stage EXCEPT ![i] = "removed"]
  /\ claim' = [claim EXCEPT ![Key(i)] = NoClaim]
  /\ raced' = IF claim[Key(i)] \in 0..ClaimTtl THEN raced \cup {Key(i)} ELSE raced
  /\ UNCHANGED <<open, view, prev, focus, inbox, todo, notified, shared,
                 events, latest, toasts>>

\* reclaim_if_stale, create_new: lost to an instance that was quicker.
Recreate(i) ==
  /\ stage[i] = "removed"
  /\ claim' = [claim EXCEPT ![Key(i)] = IF @ = NoClaim THEN 0 ELSE @]
  /\ Finish(i, claim[Key(i)] = NoClaim)
  /\ UNCHANGED raced

Dispatch(i) == SkipFocused(i) \/ Claim(i) \/ RemoveStale(i) \/ Recreate(i)

-----------------------------------------------------------------------------

\* A second passes once reports are delivered, handlers are over, and whoever
\* has an edge to settle has ticked.
Elapse ==
  /\ \A i \in open : /\ Idle(i) /\ inbox[i] = <<>>
                     /\ Unsettled(i) => i \in notified
  /\ claim' = [k \in Keys |-> Aged(claim[k])]
  /\ notified' = {}
  /\ UNCHANGED <<open, view, prev, focus, inbox, todo, stage, shared, history>>

Next ==
  \/ Elapse
  \/ \E p \in Panes, status \in Statuses, acked \in BOOLEAN :
       Report(p, status, acked)
  \/ \E i \in Instances :
       \/ Open(i) \/ Close(i) \/ StatusPipe(i) \/ Timer(i) \/ Dispatch(i)
       \/ \E p \in Panes : PanesChanged(i, p)

Spec == Init /\ [][Next]_vars

\* Handlers run, time passes, and the timer of an instance with an edge to
\* settle is armed (timer_should_continue).
Fairness ==
  /\ WF_vars(Elapse)
  /\ \A i \in Instances : /\ WF_vars(StatusPipe(i)) /\ WF_vars(Dispatch(i))
                          /\ WF_vars(SettleDue(i))

FairSpec == Spec /\ Fairness

-----------------------------------------------------------------------------

TypeOK ==
  /\ open \subseteq Instances
  /\ view \in [Instances -> [Panes -> Views]]
  /\ prev \in [Instances -> [Panes -> Statuses]]
  /\ focus \in [Instances -> Panes \cup {NoPane}]
  /\ inbox \in [Instances -> Seq(Panes \X Views)]
  /\ todo \in [Instances -> Seq(Notes)]
  /\ stage \in [Instances -> {"next", "stale", "removed"}]
  /\ notified \subseteq Instances
  /\ shared \in Panes \cup {NoPane}
  /\ claim \in [Keys -> {NoClaim} \cup (0..(SweepAge + 1))]
  /\ events \in 0..MaxEvents /\ latest \in [Panes -> Views]
  /\ toasts \in [1..MaxEvents -> Nat]
  /\ raced \subseteq Keys

\* However the instances' ticks and claims interleave, an edge is told once:
\* "one toast per event instead of one per visited tab" (claim_notification).
\* The only way to two is a reclaim that removed the claim another instance
\* had just made in the place of the same stale file.
OneToastPerEvent ==
  \A p \in Panes, s \in Attention :
    <<p, s>> \in raced
      \/ \A n \in 1..MaxEvents :
           latest[p].event = n /\ latest[p].status = s => toasts[n] <= 1

\* The instance still has to settle the report it holds about p.
Owes(i, p) == i \in open /\ IsEdge(prev[i][p], view[i][p])

\* An edge that an instance sees on a pane nobody looks at is told by somebody
\* (there is a claim of its key, not yet expired), unless the pane moves on,
\* the user turns to it or the tab closes first.
EdgesAreTold ==
  \A i \in Instances, p \in Panes, s \in Enabled :
    (Owes(i, p) /\ view[i][p].status = s /\ focus[i] # p /\ shared # p)
      ~> \/ claim[<<p, s>>] \in 0..ClaimTtl
         \/ i \notin open \/ view[i][p].status # s \/ view[i][p].acked
         \/ focus[i] = p \/ shared = p
==============================================================================
