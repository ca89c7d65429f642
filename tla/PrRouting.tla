------------------------------- MODULE PrRouting --------------------------------
(***************************************************************************)
(* The webhook that runs the tests a push concerns: the settings of the    *)
(* project changed last, a folder chosen by a language model or the        *)
(* default one, and a message for the worker.  The handler stores nothing: *)
(* a delivery repeated is a run repeated.                                  *)
(***************************************************************************)
EXTENDS Naturals, FiniteSets

CONSTANTS
    Repo,             \* projects with run settings
    Delivery,         \* deliveries of the webhook
    MaxTunings        \* bound: changes of the settings

ASSUME PrRoutingAssumption == MaxTunings \in Nat

VARIABLES
    routed,           \* aiFeatures.prRouting
    tuned,            \* projectRunSettings of each project; version 0 is none
    delivered,        \* the handler of each delivery; allowed and since are history
    queued,           \* messages in the queue
    tunings

prVars == <<routed, tuned, delivered, queued, tunings>>

\* With a Docker image, with a staging URL.
Tuning == [version : 0..MaxTunings, image : BOOLEAN, staging : BOOLEAN]
NoTuning == [version |-> 0, image |-> FALSE, staging |-> FALSE]
PrStage == {"waiting", "guarded", "settled", "placed", "answered"}
Place == {"none", "default", "chosen"}
NotDelivered == [at |-> "waiting", repo |-> "none", with |-> NoTuning, folder |-> "none",
                 allowed |-> FALSE, since |-> 0]

PrTypeOK ==
    /\ routed \in BOOLEAN /\ tuned \in [Repo -> Tuning]
    /\ delivered \in [Delivery -> [at : PrStage, repo : Repo \cup {"none"}, with : Tuning,
                                   folder : Place, allowed : BOOLEAN, since : 0..MaxTunings]]
    /\ queued \subseteq [delivery : Delivery, repo : Repo, version : 1..MaxTunings, folder : Place,
                         url : {"staging", "none"}, priority : {"computed", "default"}]
    /\ tunings \in 0..MaxTunings

PrInit ==
    /\ routed = TRUE /\ tuned = [p \in Repo |-> NoTuning]
    /\ delivered = [d \in Delivery |-> NotDelivered] /\ queued = {} /\ tunings = 0

----------------------------------------------------------------------------
\* PUT of the settings: updatedAt is the order of the versions.
Tune(p) ==
    /\ tunings < MaxTunings /\ tunings' = tunings + 1
    /\ \E t \in [version : {tunings'}, image : BOOLEAN, staging : BOOLEAN] :
           tuned' = [tuned EXCEPT ![p] = t]
    /\ UNCHANGED <<routed, delivered, queued>>

SwitchRouting ==
    /\ routed /\ routed' = FALSE
    /\ UNCHANGED <<tuned, delivered, queued, tunings>>

To(d, fields) == delivered' = [delivered EXCEPT ![d] = fields]
Replied(d) == To(d, [delivered[d] EXCEPT !.at = "answered"])

\* The organization, its signature and its flag, read once.
GuardDelivery(d, files) ==
    /\ delivered[d].at = "waiting"
    /\ IF routed /\ files THEN To(d, [delivered[d] EXCEPT !.at = "guarded", !.allowed = TRUE,
                                                            !.since = tunings])
       ELSE Replied(d)
    /\ UNCHANGED <<routed, tuned, queued, tunings>>

\* The settings updated last, of whichever project; 422 without an image.
Latest(p) == tuned[p].version # 0 /\ \A o \in Repo : tuned[o].version <= tuned[p].version

ChooseSettings(d) ==
    /\ delivered[d].at = "guarded"
    /\ \/ \E p \in Repo :
             /\ Latest(p)
             /\ IF tuned[p].image
                THEN To(d, [delivered[d] EXCEPT !.at = "settled", !.repo = p, !.with = tuned[p]])
                ELSE Replied(d)
       \/ (\A p \in Repo : tuned[p].version = 0) /\ Replied(d)
    /\ UNCHANGED <<routed, tuned, queued, tunings>>

\* The model's folder; no text or no model leaves the default one.
PlaceRun(d, chosen) ==
    /\ delivered[d].at = "settled"
    /\ To(d, [delivered[d] EXCEPT !.at = "placed",
                                  !.folder = IF chosen THEN "chosen" ELSE "default"])
    /\ UNCHANGED <<routed, tuned, queued, tunings>>

\* targetUrls.staging ?? targetUrls.dev: saved settings have a staging string, if an empty
\* one, so the other is never taken.
TargetUrl(t) == IF t.staging THEN "staging" ELSE "none"

\* The priority is 5 if it cannot be computed.
PublishRouted(d, priority) ==
    /\ delivered[d].at = "placed" /\ Replied(d)
    /\ queued' = queued \cup {[delivery |-> d, repo |-> delivered[d].repo,
                               version |-> delivered[d].with.version, folder |-> delivered[d].folder,
                               url |-> TargetUrl(delivered[d].with), priority |-> priority]}
    /\ UNCHANGED <<routed, tuned, tunings>>

\* Any exception: 500, and the sender may deliver again.
DeliveryFails(d) ==
    /\ delivered[d].at \notin {"waiting", "answered"} /\ Replied(d)
    /\ UNCHANGED <<routed, tuned, queued, tunings>>

PrNext ==
    \/ SwitchRouting
    \/ \E p \in Repo : Tune(p)
    \/ \E d \in Delivery :
           \/ \E files \in BOOLEAN : GuardDelivery(d, files)
           \/ ChooseSettings(d) \/ DeliveryFails(d)
           \/ \E chosen \in BOOLEAN : PlaceRun(d, chosen)
           \/ \E priority \in {"computed", "default"} : PublishRouted(d, priority)

PrSpec == PrInit /\ [][PrNext]_prVars

----------------------------------------------------------------------------
\* A delivery that was let in queues one run at most, with the image and the staging URL of
\* one version of one project's settings, a version no older than the delivery, whatever is
\* saved meanwhile (pr-routing.ts).
RoutedFits ==
    \A q \in queued :
        LET d == delivered[q.delivery]
        IN /\ d.allowed /\ d.at = "answered" /\ d.with.image
           /\ \A o \in queued : o.delivery = q.delivery => o = q
           /\ q.version >= d.since /\ q.version <= tuned[q.repo].version
           /\ q.url = "staging" <=> d.with.staging

=============================================================================
