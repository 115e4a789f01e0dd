------------------------------- MODULE Shield -------------------------------
(***************************************************************************)
(* The Rugpull Shield (packages/shield-core): detectors that read the      *)
(* chain, each of which may fail or run into its timeout, a weighted       *)
(* score, a verdict, and the quick assessment of the pre-trade gate with   *)
(* its cache.  What a token is may change between any two assessments, so  *)
(* each one finds any of Worlds.                                           *)
(***************************************************************************)
EXTENDS Integers, FiniteSets, FiniteSetsExt

CONSTANTS Caller,         \* intents at the gate, and handlers of token.detected
          Worlds,         \* what the token may be, see World
          FaultMixes,     \* sets of reads that fail together
          DetectorTimeout, CacheTtl

VARIABLES
    calls,     \* Caller -> the assessment it waits for
    cache,     \* #quickCache of the token, or NoEntry
    judged     \* history: what the last step found, if it was an assessment
shieldVars == <<calls, cache, judged>>

----------------------------------------------------------------------------
(* A token: its liquidity and the secured share of its LP by the detectors' *)
(* tiers, the pool's kind, the owner, what the bytecode shows, the proxy    *)
(* slot, the tax, and what balance and supply reads say                     *)
World == [liquidity : {"deep", "moderate", "thin", "negligible"},
          pool : {"none", "v2", "v3"}, lp : {"locked", "half", "loose", "none"},
          owner : {"none", "renounced", "eoa", "contract"},
          code : SUBSET {"mint", "pause", "limits", "taxes", "delegatecall"},
          slot : BOOLEAN,
          tax : {"unreadable", "low", "high", "punitive"},
          balance : {"some", "zero", "reverts"},
          shape : {"regular", "malformed", "reverts"},
          held : {"pool", "mixed", "elsewhere", "zero"}]

ByCode == {"mint", "pause", "limits"}
Reading == {"liquidity", "lp", "owner", "proxy", "taxes", "honeypot", "shape", "concentration"}
Detector == ByCode \cup Reading
Fast == Detector \ {"concentration"}

ASSUME ShieldAssumption ==
    /\ Worlds \subseteq World /\ Worlds # {}
    /\ FaultMixes \subseteq SUBSET ((Reading \X {"error", "late"})
                                     \cup {<<"code", "error">>, <<"owner code", "error">>})
    /\ \A mix \in FaultMixes, d \in Reading : {<<d, "error">>, <<d, "late">>} \subseteq mix => FALSE
    /\ DetectorTimeout \in Nat \ {0} /\ CacheTtl \in Nat \ {0}

(* Weights in hundredths *)
Weight(d) == CASE d = "honeypot" -> 20
               [] d \in {"liquidity", "lp"} -> 15
               [] d \in {"owner", "mint", "pause"} -> 10
               [] d \in {"proxy", "taxes"} -> 8
               [] d = "limits" -> 6
               [] d = "concentration" -> 5
               [] d = "shape" -> 3

INDETERMINATE_SCORE == 50

(* What the bytecode scan finds: nothing, when getCode failed *)
Found(w, faults) == IF <<"code", "error">> \in faults THEN {} ELSE w.code
BytecodeScore(d, code) == IF d \in code THEN 70 ELSE 10
ProxyScore(slot, code) == CASE slot -> 60
                            [] ~slot /\ "delegatecall" \in code -> 40
                            [] OTHER -> 10

(* A detector whose reads succeed; the tax is what the first getter that   *)
(* can be read says                                                        *)
LiquidityTier == [deep |-> 5, moderate |-> 25, thin |-> 60, negligible |-> 90]
SecuredTier == [locked |-> 5, half |-> 35, loose |-> 85, none |-> 60]
OwnerTier == [none |-> 20, renounced |-> 5, eoa |-> 45, contract |-> 55]
TaxTier == [punitive |-> 90, high |-> 60, low |-> 30, unreadable |-> 45]
BalanceTier == [some |-> 40, zero |-> 55, reverts |-> 70]
ShapeTier == [regular |-> 5, malformed |-> 75, reverts |-> 70]
HeldTier == [pool |-> 10, mixed |-> 35, elsewhere |-> 70, zero |-> 80]

Seen(d, w, code) ==
    CASE d \in ByCode -> BytecodeScore(d, code)
      [] d \in {"liquidity", "lp", "honeypot"} /\ w.pool = "none" -> 50
      [] d = "liquidity" /\ w.pool # "none" -> LiquidityTier[w.liquidity]
      [] d = "lp" /\ w.pool = "v3" -> 40
      [] d = "lp" /\ w.pool = "v2" -> SecuredTier[w.lp]
      [] d = "honeypot" /\ w.pool # "none" -> BalanceTier[w.balance]
      [] d = "owner" -> OwnerTier[w.owner]
      [] d = "proxy" -> ProxyScore(w.slot, code)
      [] d = "taxes" -> IF "taxes" \in code THEN TaxTier[w.tax] ELSE 10
      [] d = "concentration" -> IF w.pool = "none" /\ w.held # "zero" THEN 50 ELSE HeldTier[w.held]
      [] d = "shape" -> ShapeTier[w.shape]

(* A detector whose reads fail: some take it for an answer *)
Blind(d, code) ==
    CASE d = "owner" -> 20
      [] d = "proxy" -> ProxyScore(FALSE, code)
      [] d = "taxes" -> IF "taxes" \in code THEN 45 ELSE 10
      [] d \in {"honeypot", "shape"} -> 70
      [] OTHER -> INDETERMINATE_SCORE

(* What does not read cannot fail: a V3 pool has no LP share, a token      *)
(* without a tax selector no getter, one without code no shape             *)
Reads(d, w, faults) ==
    CASE d \in ByCode -> FALSE
      [] d \in {"liquidity", "honeypot"} -> w.pool # "none"
      [] d = "lp" -> w.pool = "v2"
      [] d = "taxes" -> "taxes" \in Found(w, faults)
      [] d = "shape" -> <<"code", "error">> \notin faults
      [] OTHER -> TRUE
Late(d, w, faults) == Reads(d, w, faults) /\ <<d, "late">> \in faults
Errs(d, w, faults) == Reads(d, w, faults) /\ <<d, "error">> \in faults

(* runDetector: the detector's own answer, or 50 when it throws or is late *)
IndeterminateIsClean(d, w, faults) == \* mutant: a late detector reports nothing bad
    CASE d = "shape" /\ <<"code", "error">> \in faults -> 100
      [] Late(d, w, faults) -> 0
      [] Errs(d, w, faults) -> Blind(d, Found(w, faults))
      [] OTHER -> Seen(d, w, Found(w, faults))

Factor(d, w, faults) ==
    CASE d = "shape" /\ <<"code", "error">> \in faults -> 100
      [] Late(d, w, faults) -> INDETERMINATE_SCORE
      [] Errs(d, w, faults) -> Blind(d, Found(w, faults))
      [] d = "owner" /\ w.owner = "contract" /\ <<"owner code", "error">> \in faults
           /\ ~Late(d, w, faults) /\ ~Errs(d, w, faults) -> OwnerTier["eoa"]
      [] OTHER -> Seen(d, w, Found(w, faults))

(* aggregate: the weighted mean, rounded to hundredths; verdictOf *)
TotalWeight(ds) == MapThenSumSet(Weight, ds)
Score(ds, w, faults) ==
    LET weighted == MapThenSumSet(LAMBDA d : Factor(d, w, faults) * Weight(d), ds)
    IN (200 * weighted + TotalWeight(ds)) \div (2 * TotalWeight(ds))

Verdict(ds, w, faults) == LET score == Score(ds, w, faults)
                          IN IF score < 3000 THEN "safe"
                             ELSE IF score < 6000 THEN "caution" ELSE "danger"

----------------------------------------------------------------------------
(* One assessment: its verdict, the verdict of the same token without a    *)
(* fault, whether it waits for a timeout, and what it could not read       *)
DetectorsOf(quick) == IF quick THEN Fast ELSE Detector
Failed(d, faults) == {<<d, "error">>, <<d, "late">>} \cap faults # {}
Blindness(faults) ==
    CASE faults = {} \/ <<"code", "error">> \notin faults -> "code is read"
      [] faults = {<<"code", "error">>} -> "only code is not"
      [] <<"code", "error">> \in faults /\ \A d \in Reading : Failed(d, faults) -> "nothing is"
      [] OTHER -> "some is"
AssessmentsOf(ds, w) ==
    LET clear == Verdict(ds, w, {})
    IN {[verdict |-> Verdict(ds, w, faults), clear |-> clear,
         late |-> \E d \in ds : Late(d, w, faults), blind |-> Blindness(faults)] :
            faults \in FaultMixes}
Assessments == [quick \in BOOLEAN |-> UNION {AssessmentsOf(DetectorsOf(quick), w) : w \in Worlds}]

(* age counts from the reads an answer rests on, capped where it no longer *)
(* matters; left is what remains of a timer                                *)
MaxAge == CacheTtl + DetectorTimeout + 1
NoEntry == [verdict |-> "none", age |-> 0, left |-> 0]
AtRest == [pc |-> "rest"]
Nothing == [blind |-> "no assessment"]
Verdicts == {"safe", "caution", "danger"}

ShieldTypeOK ==
    /\ cache = NoEntry \/ cache \in [verdict : Verdicts, age : 0..MaxAge, left : 0..CacheTtl]
    /\ \A c \in Caller : calls[c].pc \in {"rest", "code", "detect", "answered"}

ShieldInit ==
    /\ cache = NoEntry /\ judged = Nothing
    /\ calls = [c \in Caller |-> AtRest]

(* assessQuick: an entry of the token that has not expired is the answer,  *)
(* whatever pool it was made for                                           *)
Missed == [pc |-> "code", quick |-> TRUE]
Hit == [pc |-> "answered", age |-> cache.age, verdict |-> cache.verdict]

BeginSliding(c) == \* mutant: a hit keeps the entry alive
    /\ calls[c].pc \in {"rest", "answered"}
    /\ calls' = [calls EXCEPT ![c] = IF cache.left > 0 THEN Hit ELSE Missed]
    /\ cache' = IF cache.left > 0 THEN [cache EXCEPT !.left = CacheTtl] ELSE cache
    /\ judged' = Nothing

Begin(c) ==
    /\ calls[c].pc \in {"rest", "answered"}
    /\ calls' = [calls EXCEPT ![c] = IF cache.left > 0 THEN Hit ELSE Missed]
    /\ UNCHANGED cache /\ judged' = Nothing

(* assess: for token.detected, all detectors and no cache *)
BeginFull(c) ==
    /\ calls[c].pc \in {"rest", "answered"}
    /\ calls' = [calls EXCEPT ![c] = [pc |-> "code", quick |-> FALSE]]
    /\ UNCHANGED cache /\ judged' = Nothing

(* getCode has settled, and all detectors read at once *)
Detect(c) ==
    /\ calls[c].pc = "code"
    /\ judged' \in Assessments[calls[c].quick]
    /\ calls' = [calls EXCEPT ![c] =
                    [pc |-> "detect", quick |-> @.quick, age |-> 0, left |-> DetectorTimeout,
                     verdict |-> judged'.verdict, late |-> judged'.late]]
    /\ UNCHANGED cache

(* Promise.all: the slowest detector has answered or been cut off.  A      *)
(* quick assessment is kept for CacheTtl from now, also over a later one.  *)
Answered(k) == [pc |-> "answered", age |-> k.age, verdict |-> k.verdict]
Kept(k) == IF k.quick THEN [verdict |-> k.verdict, age |-> k.age, left |-> CacheTtl]
           ELSE cache

Answer(c) ==
    /\ calls[c].pc = "detect" /\ (calls[c].late => calls[c].left = 0)
    /\ calls' = [calls EXCEPT ![c] = Answered(@)]
    /\ cache' = Kept(calls[c])
    /\ judged' = Nothing

(* Time passes, and overruns no timer *)
Older(n) == IF n < MaxAge THEN n + 1 ELSE n

Passes ==
    /\ \A c \in Caller : calls[c].pc = "detect" => calls[c].left > 0
    /\ calls' = [c \in Caller |-> IF calls[c].pc = "detect"
                                  THEN [calls[c] EXCEPT !.age = Older(@), !.left = @ - 1]
                                  ELSE calls[c]]
    /\ cache' = IF cache.left <= 1 THEN NoEntry
                ELSE [cache EXCEPT !.age = Older(@), !.left = @ - 1]
    /\ judged' = Nothing

ShieldNext ==
    \/ Passes
    \/ \E c \in Caller : Begin(c) \/ BeginFull(c) \/ Detect(c) \/ Answer(c)

ShieldSpec == ShieldInit /\ [][ShieldNext]_shieldVars

----------------------------------------------------------------------------
(* DangerSurvivesFaults: a token that a full view calls `danger` is never  *)
(* called `safe` by a mix of failing and late reads, as long as its code   *)
(* can be read or nothing but its code cannot (analyzer.ts:44, "a cautious *)
(* moderate score, never a false safe"; detectors.ts:113-115, 174-185);    *)
(* nor is any token of which nothing at all could be read, whatever the    *)
(* kind of its pool (detector.ts:45, "cautious, never safe").              *)
DangerSurvivesFaults ==
    (\/ judged.blind \in {"code is read", "only code is not"} /\ judged.clear = "danger"
     \/ judged.blind = "nothing is") => judged.verdict # "safe"

(* AnswerIsRecent: no answer, cached or not, rests on reads older than the *)
(* cache's TTL and one timeout together: neither hits nor an assessment    *)
(* that ends after a later one make an entry live longer                   *)
(* (analyzer.ts:128-140).                                                  *)
AnswerIsRecent ==
    \A c \in Caller : calls[c].pc = "answered" => calls[c].age < CacheTtl + DetectorTimeout

(* NoFalseSafe: what the comments say (analyzer.ts:100-101: "A failing or   *)
(* slow detector yields an indeterminate factor (moderate score), never a  *)
(* crash or a false `safe`").                                              *)
NoFalseSafe ==
    judged # Nothing /\ judged.clear # "safe" => judged.verdict # "safe"
=============================================================================
