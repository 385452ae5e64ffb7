----------------------------- MODULE JobEstimate -----------------------------
(***************************************************************************)
(* What a localization job may cost (packages/domain/src/estimate.ts) and  *)
(* which targets it may have (estimateFor in apps/api/src/services/        *)
(* jobs.ts): cents per started minute of the source, and a high bound that *)
(* is wider for a language without a quality agreement.                    *)
(***************************************************************************)
EXTENDS Naturals, Functions

CONSTANT Tiers   \* locale -> capability -> tier, the capability registry

\* RATE_CARD_FIXTURE
PerMinuteCents == [transcription |-> 2, translation |-> 3, speech |-> 8,
                   lipSync |-> 40, encode |-> 1, qc |-> 1]

CeilDiv(n, d) == (n + d - 1) \div d

\* Ceil(base * uncertainty): 1.15 with an agreement, 1.5 without.
WithUncertainty(base, tier) ==
    IF tier = "production" THEN CeilDiv(base * 115, 100) ELSE CeilDiv(base * 3, 2)

\* A requested target: <<locale, lipSync>>.
Target == (DOMAIN Tiers) \X BOOLEAN
Locale(t) == t[1]
LipSync(t) == t[2]

\* The tier a target is estimated and snapshotted at.
TierOf(t) == Tiers[Locale(t)][IF LipSync(t) THEN "lipSync" ELSE "speech"]

Available(t) ==
    /\ \A kind \in {"translation", "speech"} : Tiers[Locale(t)][kind] # "unavailable"
    /\ LipSync(t) => Tiers[Locale(t)]["lipSync"] # "unavailable"

\* Duplicate locales and unavailable capabilities are refused.
Acceptable(targets) ==
    /\ \A t \in targets : Available(t)
    /\ \A t, u \in targets : Locale(t) = Locale(u) => t = u

SourceCents(minutes) == minutes * (PerMinuteCents.transcription + PerMinuteCents.qc)

LowCents(minutes, t) ==
    minutes * (PerMinuteCents.translation + PerMinuteCents.speech
               + PerMinuteCents.encode + PerMinuteCents.qc
               + IF LipSync(t) THEN PerMinuteCents.lipSync ELSE 0)

HighCents(minutes, t) == WithUncertainty(LowCents(minutes, t), TierOf(t))

TotalLow(minutes, targets) ==
    SourceCents(minutes) + SumFunction([t \in targets |-> LowCents(minutes, t)])

TotalHigh(minutes, targets) ==
    SourceCents(minutes) + SumFunction([t \in targets |-> HighCents(minutes, t)])

HasBeta(targets) == \E t \in targets : TierOf(t) = "beta"
==============================================================================
