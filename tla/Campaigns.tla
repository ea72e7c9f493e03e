------------------------------- MODULE Campaigns -------------------------------
(***************************************************************************)
(* Letters to customers.  A nightly job compares what each customer has    *)
(* become (new, active, at risk, ...) with what the customer was known as, *)
(* and notes a transition; another, every quarter of an hour, takes the    *)
(* open transitions and writes to their customers, by the templates and    *)
(* the sequence that fit, each at its own delay, until nothing waits.      *)
(*                                                                         *)
(* Time is counted in half-days.  Consent is given by default for email    *)
(* and push and not for SMS (nothing in src/ calls optIn), and taken back  *)
(* by the link at the foot of a letter.  A run of a job may be slower than *)
(* its period, so that two overlap.                                        *)
(***************************************************************************)
EXTENDS Handlers, Sequences

CONSTANTS
    Walkins, WebUsers,  \* customers: those whom the salon registered, and those with an account
    Made,               \* Made[s]: the day s was registered
    Thresholds,         \* [newAge, newCount, active, atRisk, dormant |-> days or visits]
    HasEmail,           \* the customers who left an email address
    Transitions,        \* bound: ids of transitions
    Templates,          \* ids of templates
    LastTick,           \* bound: half-days
    CampaignsBegun      \* CampaignsBegun[scenario]: what there is at the start

VARIABLES
    tick,           \* the half-day
    visited,        \* visited[s]: completed visits, and the day of the last
    known,          \* known[s]: the lifecycle at the last check, or "none"
    transition,     \* transition[t]: whose, from, to, when detected, whether processed
    template,       \* template[k]: the lifecycle it is for, its channel, delay, cooldown, ...
    sequence,       \* the one sequence: [life, enabled, cooldown, edition, steps]
    sends,          \* sends[<<t, k>>]: what became of template k for transition t, and when
    stepSends,      \* stepSends[<<t, i>>]: the same for step i of the sequence
    consent,        \* consent[s][channel]: "yes", "no", or "none" when there is no row
    letters,        \* history: <<t, k, i, edition, channel>> that a letter went out for
    lastLetter,         \* history: lastLetter[<<s, k>>]: when the last letter of template k went to s
    slips,          \* history: letters sent twice, too soon, or against the customer's will, and runs that a note stopped
    doubled         \* history: a job was started while its run before was going on

outbox == <<sends, stepSends, consent, letters, lastLetter, slips, doubled>>
plan == <<template, sequence>>
campaigns == <<tick, visited, known, transition, template, sequence, sends, stepSends, consent, letters, lastLetter, slips, doubled>>

Customers == Walkins \cup WebUsers
Channels == {"EMAIL", "SMS", "PUSH"}
MaxSteps == 2
Unsent == [status |-> "none", at |-> 0]
NoTransition == [subject |-> "nobody", from |-> "none", to |-> "none", at |-> 0, processed |-> FALSE]
NoTemplate == [life |-> "none", channel |-> "EMAIL", enabled |-> FALSE, delay |-> 0, cooldown |-> 0,
               late |-> FALSE, audience |-> "any", tier |-> "any"]
NoSequence == [life |-> "none", enabled |-> FALSE, cooldown |-> 0, edition |-> 0, steps |-> <<>>]
SendStatuses == {"none", "SENT", "FAILED", "SKIPPED_NO_CONTACT", "SKIPPED_NO_CONSENT", "SKIPPED_COOLDOWN", "SKIPPED_NO_TEMPLATE"}

Today == (tick + 1) \div 2
Noted == {t \in Transitions : transition[t].subject # "nobody"}
There(k) == template[k].life \notin {"none", "deleted"}
DEFAULT_CONSENT(channel) == IF channel = "SMS" THEN "no" ELSE "yes"

CampaignsTypeOK ==
    /\ tick \in 1..LastTick
    /\ DOMAIN template = Templates /\ DOMAIN transition = Transitions
    /\ \A p \in Transitions \X Templates : sends[p].status \in SendStatuses
    /\ \A p \in Transitions \X (1..MaxSteps) : stepSends[p].status \in SendStatuses
    /\ consent \in [Customers -> [Channels -> {"none", "yes", "no"}]]

CampaignsInit ==
    /\ tick = 1
    /\ \E start \in CampaignsBegun[scenario] :
         /\ visited = start.visited /\ known = start.known /\ transition = start.transition
         /\ template = start.template /\ sequence = start.sequence
    /\ sends = [p \in Transitions \X Templates |-> Unsent]
    /\ stepSends = [p \in Transitions \X (1..MaxSteps) |-> Unsent]
    /\ consent = [s \in Customers |-> [ch \in Channels |-> "none"]]
    /\ letters = {} /\ lastLetter = [p \in Customers \X Templates |-> 0]
    /\ slips = [twice |-> 0, hasty |-> 0, unwanted |-> 0, stopped |-> 0] /\ doubled = FALSE

-------------------------------------------------------------------------------
\* What a customer has become.  "New" comes before everything else.
classifyCustomerLifecycle(s) ==
    LET age == Today - Made[s]  since == Today - visited[s].last IN
    CASE age <= Thresholds.newAge /\ visited[s].count < Thresholds.newCount -> "NEW"
      [] visited[s].count = 0                                              -> "NEVER_VISITED"
      [] since <= Thresholds.active                                         -> "ACTIVE"
      [] since <= Thresholds.atRisk                                         -> "AT_RISK"
      [] since <= Thresholds.dormant                                        -> "DORMANT"
      [] OTHER                                                              -> "INACTIVE"

\* Every visit costs 1 here; the thresholds of the tiers are 1 and 2.
classifyCustomerValue(s) ==
    CASE visited[s].count >= 2 -> "VIP" [] visited[s].count = 1 -> "PREMIUM" [] OTHER -> "STANDARD"

\* The nightly job reads one table's customers, what they were known as and their visits, ...
Batch(group) == [left |-> group, who |-> "nobody", was |-> known, is |-> [s \in group |-> classifyCustomerLifecycle(s)]]

detectLifecycleTransitions(c) ==
    /\ Begin(c, "detect", "detect", "customers", Batch(Walkins))
    /\ doubled' = (doubled \/ \E d \in Callers : calls[d].stage \in {"detect", "remember"})
    /\ UNCHANGED <<tick, visited, known, transition, plan, sends, stepSends, consent, letters, lastLetter, slips>>

\* ... notes for each whether something has changed, ...
NoteTransition(c) ==
    /\ At(c, "detect")
    /\ \E s \in calls[c].saw.left :
         LET was == calls[c].saw.was[s]  is == calls[c].saw.is[s] IN
         /\ Goto(c, "remember", [calls[c].saw EXCEPT !.who = s])
         /\ IF was \in {"none", is} THEN UNCHANGED transition
            ELSE \E t \in {n \in Transitions \ Noted : \A n2 \in Transitions \ Noted : n <= n2} :
                   transition' = [transition EXCEPT ![t] =
                       [NoTransition EXCEPT !.subject = s, !.from = was, !.to = is, !.at = tick]]
    /\ UNCHANGED <<tick, visited, known, plan, outbox>>

\* ... and, with another write, what the customer is known as from now on.
RememberLifecycle(c) ==
    LET saw == calls[c].saw IN
    /\ At(c, "remember")
    /\ known' = [known EXCEPT ![saw.who] = saw.is[saw.who]]
    /\ Goto(c, "detect", [saw EXCEPT !.left = @ \ {saw.who}])
    /\ UNCHANGED <<tick, visited, transition, plan, outbox>>

NextBatch(c) ==
    /\ At(c, "detect") /\ calls[c].saw.left = {}
    /\ IF calls[c].on = "customers"
       THEN Continue(c, [stage |-> "detect", on |-> "users", saw |-> Batch(WebUsers)])
       ELSE Return(c)
    /\ UNCHANGED campaigns

-------------------------------------------------------------------------------
\* A run takes the transitions that are open, one after the other, ...  (Runs overlap in the
\* scenarios that say so.)
Sending(c) == calls[c].stage \in {"campaign", "templates", "consent", "give", "record", "finish"}
Work == [left |-> {}, t |-> 0, todo |-> {}, rows |-> <<>>, seq |-> NoSequence, tier |-> "any", waiting |-> FALSE,
         k |-> "none", i |-> 0, status |-> "none"]

processPendingTransitions(c) ==
    /\ "slow" \in scenario \/ \A d \in Callers : ~Sending(d)
    /\ Begin(c, "send", "campaign", "run", [Work EXCEPT !.left = {t \in Noted : ~transition[t].processed}])
    /\ doubled' = (doubled \/ \E d \in Callers : Sending(d))
    /\ UNCHANGED <<tick, visited, known, transition, plan, sends, stepSends, consent, letters, lastLetter, slips>>

EndRun(c) ==
    /\ At(c, "campaign") /\ calls[c].saw.left = {} /\ Return(c)
    /\ UNCHANGED campaigns

\* ... and reads for each the templates and the sequence that are for what the customer has become.
HandleTransition(c) ==
    /\ At(c, "campaign")
    /\ \E t \in calls[c].saw.left :
         LET fits == {k \in Templates : template[k].enabled /\ template[k].life = transition[t].to}
             seq == IF sequence.enabled /\ sequence.life = transition[t].to THEN sequence ELSE NoSequence
         IN Goto(c, "templates", [calls[c].saw EXCEPT !.left = @ \ {t}, !.t = t, !.todo = fits, !.rows = template,
                                    !.seq = seq, !.tier = classifyCustomerValue(transition[t].subject), !.waiting = FALSE])
    /\ UNCHANGED campaigns

Subject(saw) == transition[saw.t].subject
Kind(s) == IF s \in Walkins THEN "CUSTOMER" ELSE "USER"
Applies(saw, k) ==
    /\ saw.rows[k].audience \in {"any", Kind(Subject(saw))}
    /\ saw.rows[k].tier \in {"any", saw.tier}

\* A delay has passed, and with it the time of the day from which a letter may go.
Due(since, delay, late) == tick - since >= delay /\ (late => tick % 2 = 0)
Recent(rows, cooldown) == \E r \in rows : r.status = "SENT" /\ tick - r.at < cooldown

\* Earlier letters of a template, and of the sequence, to the customer of a transition.
Earlier(saw, k) == {sends[<<t, k>>] : t \in {n \in Noted : transition[n].subject = Subject(saw)}}
EarlierSteps(saw) == {stepSends[<<t, i>>] : t \in {n \in Noted : transition[n].subject = Subject(saw)}, i \in 1..MaxSteps}
NoPush(saw, channel) == channel = "PUSH" /\ Subject(saw) \in Walkins

\* What is due for template k, as a status to be noted; "ask" when the customer's consent is asked next.
Verdict(saw, k) ==
    CASE NoPush(saw, saw.rows[k].channel)                    -> "SKIPPED_NO_CONTACT"
      [] Recent(Earlier(saw, k), saw.rows[k].cooldown)       -> "SKIPPED_COOLDOWN"
      [] OTHER                                               -> "ask"

\* On to note the verdict, or to ask.
Settle(c, saw, verdict) ==
    IF verdict = "ask" THEN Goto(c, "consent", saw) ELSE Goto(c, "record", [saw EXCEPT !.status = verdict])

ConsiderTemplate(c) ==
    LET saw == calls[c].saw IN
    /\ At(c, "templates")
    /\ \E k \in saw.todo :
         LET row == saw.rows[k]  rest == [saw EXCEPT !.todo = @ \ {k}] IN
         IF ~Applies(saw, k) \/ sends[<<saw.t, k>>].status # "none" THEN Goto(c, "templates", rest)
         ELSE IF ~Due(transition[saw.t].at, row.delay, row.late) THEN Goto(c, "templates", [rest EXCEPT !.waiting = TRUE])
         ELSE Settle(c, [rest EXCEPT !.k = k, !.i = 0], Verdict(saw, k))
    /\ UNCHANGED campaigns

\* The steps are looked up by their ids: those of an earlier edition have lost their rows.
Done(saw) == IF saw.seq.edition = sequence.edition
             THEN {i \in 1..Len(saw.seq.steps) : stepSends[<<saw.t, i>>].status # "none"} ELSE {}

\* What is due for step i.  The pause between two runs of the sequence is looked at before its first step only.
StepVerdict(saw, i) ==
    LET step == saw.seq.steps[i]
        since == IF i = 1 THEN transition[saw.t].at ELSE stepSends[<<saw.t, i - 1>>].at
    IN CASE step.template = "none"                                        -> "SKIPPED_NO_TEMPLATE"
         [] i = 1 /\ Recent(EarlierSteps(saw), saw.seq.cooldown)          -> "SKIPPED_COOLDOWN"
         [] ~Due(since, step.delay, step.late)                            -> "wait"
         [] NoPush(saw, saw.rows[step.template].channel)                  -> "SKIPPED_NO_CONTACT"
         [] OTHER                                                         -> "ask"

\* The sequence goes on by one step at most.
handleSequence(c) ==
    LET saw == calls[c].saw
        next == {i \in 1..Len(saw.seq.steps) \ Done(saw) : 1..(i - 1) \subseteq Done(saw)}
    IN
    /\ At(c, "templates") /\ saw.todo = {}
    /\ IF next = {} THEN Goto(c, "finish", saw)
       ELSE \E i \in next :
              IF StepVerdict(saw, i) = "wait" THEN Goto(c, "finish", [saw EXCEPT !.waiting = TRUE])
              ELSE Settle(c, [saw EXCEPT !.k = saw.seq.steps[i].template, !.i = i], StepVerdict(saw, i))
    /\ UNCHANGED campaigns

\* The customer's consent, with the channel's default when it was never asked for.
canSend(c) ==
    LET saw == calls[c].saw  s == Subject(saw)  channel == saw.rows[saw.k].channel
        row == IF consent[s][channel] = "none" THEN DEFAULT_CONSENT(channel) ELSE consent[s][channel]
    IN
    /\ At(c, "consent")
    /\ consent' = [consent EXCEPT ![s][channel] = row]
    /\ IF row = "no" THEN Goto(c, "record", [saw EXCEPT !.status = "SKIPPED_NO_CONSENT"])
       ELSE IF channel = "EMAIL" /\ s \notin HasEmail THEN Goto(c, "record", [saw EXCEPT !.status = "SKIPPED_NO_CONTACT"])
       ELSE Goto(c, "give", saw)
    /\ UNCHANGED <<tick, visited, known, transition, plan, sends, stepSends, letters, lastLetter, slips, doubled>>

\* The letter goes out.  A mail queue that refuses it is not noticed; a failed SMS is.
Give(c) ==
    LET saw == calls[c].saw  s == Subject(saw)  channel == saw.rows[saw.k].channel
        key == <<saw.t, saw.k, saw.i, IF saw.i = 0 THEN 0 ELSE saw.seq.edition, channel>>
        soon == /\ saw.i = 0 /\ lastLetter[<<s, saw.k>>] # 0 /\ tick - lastLetter[<<s, saw.k>>] < saw.rows[saw.k].cooldown
        Plus(fact) == IF fact THEN 1 ELSE 0
    IN
    /\ At(c, "give")
    /\ \E out \in BOOLEAN :
         /\ IF out THEN /\ letters' = letters \cup {key}
                        /\ lastLetter' = [lastLetter EXCEPT ![<<s, saw.k>>] = IF saw.i = 0 THEN tick ELSE @]
                        /\ slips' = [slips EXCEPT !.twice = @ + Plus(key \in letters), !.hasty = @ + Plus(soon),
                                                !.unwanted = @ + Plus(consent[s][channel] = "no")]
            ELSE UNCHANGED <<letters, lastLetter, slips, doubled>>
         /\ Goto(c, "record", [saw EXCEPT !.status = IF channel = "SMS" /\ ~out THEN "FAILED" ELSE "SENT"])
    /\ UNCHANGED <<tick, visited, known, transition, plan, sends, stepSends, consent, doubled>>

\* What was done is noted after it was done.  When the row is there already, or what it refers
\* to is gone, the note that it failed fails as well, and the run ends with an error.
Stop(c) == Return(c) /\ slips' = [slips EXCEPT !.stopped = @ + 1]

RecordTemplate(c) ==
    LET saw == calls[c].saw IN
    /\ At(c, "record") /\ saw.i = 0
    /\ IF sends[<<saw.t, saw.k>>].status = "none" /\ There(saw.k)
       THEN /\ sends' = [sends EXCEPT ![<<saw.t, saw.k>>] = [status |-> saw.status, at |-> tick]]
            /\ Goto(c, "templates", [saw EXCEPT !.k = "none", !.status = "none"]) /\ UNCHANGED slips
       ELSE UNCHANGED sends /\ Stop(c)
    /\ UNCHANGED <<tick, visited, known, transition, plan, stepSends, consent, letters, lastLetter, doubled>>

RecordStep(c) ==
    LET saw == calls[c].saw IN
    /\ At(c, "record") /\ saw.i > 0
    /\ IF stepSends[<<saw.t, saw.i>>].status = "none" /\ sequence.edition = saw.seq.edition
       THEN /\ stepSends' = [stepSends EXCEPT ![<<saw.t, saw.i>>] = [status |-> saw.status, at |-> tick]]
            /\ Goto(c, "finish", saw) /\ UNCHANGED slips
       ELSE UNCHANGED stepSends /\ Stop(c)
    /\ UNCHANGED <<tick, visited, known, transition, plan, sends, consent, letters, lastLetter, doubled>>

\* Faulty variant of FinishTransition: what waits for its time is closed with the rest.
CloseTransition(c) ==
    LET saw == calls[c].saw IN
    /\ At(c, "finish") /\ Goto(c, "campaign", [Work EXCEPT !.left = saw.left])
    /\ transition' = [transition EXCEPT ![saw.t].processed = TRUE]
    /\ UNCHANGED <<tick, visited, known, plan, outbox>>

\* The transition is closed unless a template, or the step that was looked at, waits for its time.
FinishTransition(c) ==
    LET saw == calls[c].saw IN
    /\ At(c, "finish") /\ Goto(c, "campaign", [Work EXCEPT !.left = saw.left])
    /\ transition' = [transition EXCEPT ![saw.t].processed = @ \/ ~saw.waiting]
    /\ UNCHANGED <<tick, visited, known, plan, outbox>>

\* The link at the foot of an email takes the customer to the opt-out.
unsubscribe(c, s) ==
    /\ \E l \in letters : transition[l[1]].subject = s /\ l[5] = "EMAIL"
    /\ Once(c, "unsubscribe")
    /\ consent' = [consent EXCEPT ![s]["EMAIL"] = "no"]
    /\ UNCHANGED <<tick, visited, known, transition, plan, sends, stepSends, letters, lastLetter, slips, doubled>>

-------------------------------------------------------------------------------
\* One template for a lifecycle and a channel: looked up first, and a unique index.
Taken(row, k) == \E k2 \in Templates \ {k} : There(k2) /\ template[k2].life = row.life /\ template[k2].channel = row.channel

createTemplate(c, k, row) ==
    /\ template[k] = NoTemplate /\ ~Taken(row, k)
    /\ Begin(c, "template", "write_template", k, row)
    /\ UNCHANGED campaigns

updateTemplate(c, k) ==
    /\ There(k)
    /\ \E row \in {[template[k] EXCEPT !.enabled = ~@], [template[k] EXCEPT !.delay = 2], [template[k] EXCEPT !.channel = "SMS"]} :
         Begin(c, "template", "write_template", k, row)
    /\ UNCHANGED campaigns

WriteTemplate(c) ==
    LET k == calls[c].on  row == calls[c].saw IN
    /\ At(c, "write_template") /\ Return(c)
    /\ template' = IF Taken(row, k) \/ template[k].life = "deleted" THEN template ELSE [template EXCEPT ![k] = row]
    /\ UNCHANGED <<tick, visited, known, transition, sequence, outbox>>

\* With a template go its rows; a step that used it is left without one.
removeTemplate(c, k) ==
    /\ There(k) /\ Once(c, "template")
    /\ template' = [template EXCEPT ![k] = [NoTemplate EXCEPT !.life = "deleted"]]
    /\ sends' = [p \in DOMAIN sends |-> IF p[2] = k THEN Unsent ELSE sends[p]]
    /\ sequence' = [sequence EXCEPT !.steps =
                      [i \in DOMAIN @ |-> IF @[i].template = k THEN [@[i] EXCEPT !.template = "none"] ELSE @[i]]]
    /\ UNCHANGED <<tick, visited, known, transition, stepSends, consent, letters, lastLetter, slips, doubled>>

createSequence(c) ==
    /\ sequence.life = "none" /\ Once(c, "sequence")
    /\ \E k \in {n \in Templates : There(n)} :
         sequence' = [sequence EXCEPT !.life = "AT_RISK", !.enabled = TRUE, !.cooldown = 4, !.edition = @ + 1,
                                      !.steps = <<[template |-> k, delay |-> 0, late |-> FALSE]>>]
    /\ UNCHANGED <<tick, visited, known, transition, template, outbox>>

\* New steps replace the old ones, and with the old ones go their rows.
updateSteps(c) ==
    /\ sequence.life # "none" /\ Once(c, "sequence")
    /\ \E k \in {n \in Templates : There(n)} :
         sequence' = [sequence EXCEPT !.edition = @ + 1, !.steps = <<[template |-> k, delay |-> 0, late |-> FALSE]>>]
    /\ stepSends' = [p \in DOMAIN stepSends |-> Unsent]
    /\ UNCHANGED <<tick, visited, known, transition, template, sends, consent, letters, lastLetter, slips, doubled>>

updateSequence(c) ==
    /\ sequence.life # "none" /\ Once(c, "sequence")
    /\ sequence' = [sequence EXCEPT !.enabled = ~@]
    /\ UNCHANGED <<tick, visited, known, transition, template, outbox>>

removeSequence(c) ==
    /\ sequence.life # "none" /\ Once(c, "sequence")
    /\ sequence' = [NoSequence EXCEPT !.edition = sequence.edition + 1]
    /\ stepSends' = [p \in DOMAIN stepSends |-> Unsent]
    /\ UNCHANGED <<tick, visited, known, transition, template, sends, consent, letters, lastLetter, slips, doubled>>

\* A customer's visit is completed.
Come(c, s) ==
    /\ Once(c, "come")
    /\ visited' = [visited EXCEPT ![s] = [count |-> @.count + 1, last |-> Today]]
    /\ UNCHANGED <<tick, known, transition, plan, outbox>>

\* A run that is slower than its period is still over by the end of the half-day.
CampaignsTime ==
    /\ scenario \cap {"detect", "send"} # {} /\ Quiet /\ tick < LastTick
    /\ tick' = tick + 1
    /\ UNCHANGED <<handlers, visited, known, transition, plan, outbox>>

CampaignsRequest(c) ==
    \/ detectLifecycleTransitions(c) \/ processPendingTransitions(c)
    \/ \E s \in Customers : unsubscribe(c, s) \/ Come(c, s)
    \/ "template" \in scenario /\ \E k \in Templates :
         \/ createTemplate(c, k, [NoTemplate EXCEPT !.life = "AT_RISK", !.enabled = TRUE])
         \/ updateTemplate(c, k) \/ removeTemplate(c, k)
    \/ createSequence(c) \/ updateSteps(c) \/ updateSequence(c) \/ removeSequence(c)

CampaignsStep(c) ==
    \/ NoteTransition(c) \/ RememberLifecycle(c) \/ NextBatch(c)
    \/ EndRun(c) \/ HandleTransition(c) \/ ConsiderTemplate(c) \/ handleSequence(c) \/ canSend(c) \/ Give(c)
    \/ RecordTemplate(c) \/ RecordStep(c) \/ FinishTransition(c) \/ WriteTemplate(c)

-------------------------------------------------------------------------------
\* The letter goes out before the row that says it went.  So the unique constraints, which the code
\* calls the guard against ever sending one twice, keep out the second row and not the second letter:
\* a run that dies in between, or overlaps another, sends it again.  What they do ensure: each
\* letter that goes again costs a run, which died or was stopped by the row that is there already;
\* and without a crash and an overlap none goes again.  The pause between two letters of a template
\* is shortened by nothing else than the deletion of the template, and with it of its rows, while
\* a run still works with it.  After an opt-out only a letter that was on its way still goes.
LettersInMeasure ==
    /\ slips.twice <= crashes + slips.stopped + Cardinality({c \in Callers : At(c, "record")})
    /\ ~doubled => /\ slips.twice <= crashes
                   /\ slips.hasty <= crashes + Cardinality({k \in Templates : template[k].life = "deleted"})
    /\ slips.unwanted < Cardinality(Callers)

\* A transition that is closed has been dealt with by every template for it, in time or after it.
NothingForgotten ==
    "template" \notin scenario =>
        \A t \in Noted, k \in Templates :
            /\ transition[t].processed /\ template[k].enabled /\ template[k].life = transition[t].to
            /\ template[k].audience \in {"any", Kind(transition[t].subject)} /\ template[k].tier = "any"
            => sends[<<t, k>>].status # "none"

\* Steps are taken in their order, and no letter of a later step is older than the one before it.
StepsInOrder ==
    \A t \in Noted, i \in 2..MaxSteps :
        stepSends[<<t, i>>].status # "none" =>
            stepSends[<<t, i - 1>>].status # "none" /\ stepSends[<<t, i - 1>>].at <= stepSends[<<t, i>>].at

\* The transitions of a customer lead from one to the next, and the last to what the customer is known as.
TransitionsLink ==
    "detect" \in scenario /\ ~doubled /\ crashes = 0 /\ Quiet =>
        \A t \in Noted :
            LET s == transition[t].subject
                later == {n \in Noted : transition[n].subject = s /\ n > t}
            IN IF later = {} THEN known[s] = transition[t].to
               ELSE \A n \in later : (\A m \in later : n <= m) => transition[n].from = transition[t].to

CampaignsKept == CampaignsTypeOK /\ LettersInMeasure /\ NothingForgotten /\ StepsInOrder /\ TransitionsLink

\* A sequence that has begun for a transition runs to its end before the transition is closed.
SequenceRunsThrough ==
    \A t \in Noted :
        transition[t].processed /\ stepSends[<<t, 1>>].status = "SENT" =>
            \A i \in 1..Len(sequence.steps) : stepSends[<<t, i>>].status # "none"
===============================================================================
