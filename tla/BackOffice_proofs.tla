-------------------------- MODULE BackOffice_proofs --------------------------
(***************************************************************************)
(* The composition MCBackOffice explores, for every value of its           *)
(* constants.  The components share no variable: the office is, seen from  *)
(* any of them, that component running or resting (OfficeRunsEach), so     *)
(* what is proved of each component alone holds in the office.             *)
(***************************************************************************)
EXTENDS MCBackOffice, LeadFunnel_proofs, Operations_proofs, WorkspaceAccess_proofs

\* In the office every component starts as its own specification says.
LEMMA OfficeStarts ==
  ASSUME OfficeInit
  PROVE  /\ component \in Components
         /\ AiInit /\ InquiryInit /\ TripInit /\ RiskInit /\ RateInit /\ AccessInit
         /\ QuoteInit /\ TextInit /\ IntakeInit
  BY DEF OfficeInit

\* A step of the office is one of each component's own, or leaves that component alone.
LEMMA OfficeSteps ==
  ASSUME [OfficeNext]_officeVars
  PROVE  /\ UNCHANGED component
         /\ [AiNext]_aiVars /\ [InquiryNext]_inquiryVars
         /\ [TripNext]_tripVars /\ [RiskNext]_riskVars /\ [RateNext]_rateVars
         /\ [AccessNext]_accessVars
         /\ [QuoteNext]_quoteVars /\ [TextNext]_textVars /\ [IntakeNext]_intakeVars
<1>1. CASE OfficeNext
  BY <1>1 DEF OfficeNext
<1>2. CASE UNCHANGED officeVars
  BY <1>2 DEF officeVars
<1>3. QED
  BY <1>1, <1>2

\* The office refines each of its components: none disturbs another, so a property of a
\* component's own specification is one of the composition too.
THEOREM OfficeRunsEach ==
  OfficeSpec => /\ [](component \in Components)
                /\ AiSpec /\ InquirySpec /\ TripSpec /\ RiskSpec /\ RateSpec
                /\ AccessSpec /\ QuoteSpec /\ TextSpec /\ IntakeSpec
<1>1. component \in Components /\ UNCHANGED component => (component \in Components)'
  OBVIOUS
<1>2. QED
  BY <1>1, OfficeStarts, OfficeSteps, PTL
     DEF OfficeSpec, AiSpec, InquirySpec, TripSpec, RiskSpec, RateSpec, AccessSpec, QuoteSpec,
         TextSpec, IntakeSpec

\* Whichever component the behaviour is about, its documents and its requests in flight hold
\* values of their schemas, for any number of them.
THEOREM OfficeTypeCorrect == OfficeSpec => []OfficeTypeOK
<1>1. /\ component \in Components
      /\ AiTypeOK /\ InquiryTypeOK /\ TripTypeOK /\ RiskTypeOK /\ RateTypeOK /\ AccessTypeOK
      /\ QuoteTypeOK /\ TextTypeOK /\ IntakeTypeOK
      => OfficeTypeOK
  BY DEF OfficeTypeOK, Components
<1>2. QED
  BY <1>1, OfficeRunsEach, AiTypeCorrect, InquiryTypeCorrect, TripTypeCorrect, RiskTypeCorrect,
     RateTypeCorrect, AccessTypeCorrect, QuoteTypeCorrect, TextTypeCorrect, IntakeTypeCorrect,
     PTL

\* Everything the run of the office checks on a small instance holds of the office for every
\* value of the constants: what approvals, conversations, leads, stamps, rates, roles and
\* prices promise in every state, and what an edit, a day, a save or an answer may change.
THEOREM OfficeKeepsPromises ==
  OfficeSpec => /\ [](/\ DecisionRecorded /\ RepliesAnswer
                      /\ ConvertedHasOwnLead /\ DialogLeavesNoOrphan /\ CompanyHadAgency
                      /\ BookingStamped /\ NoAlarmMissed /\ OneRateApplies
                      /\ FoundersCanWork /\ WildcardFromSuper /\ RolesOfOwnWorkspace
                      /\ StoredIsSettled /\ EveryOptionShown /\ OptionNumbersAgree)
                /\ EditsKeepStatus /\ RiskEscalates /\ SaveKeepsPrices
                /\ IntakeKeepsForm /\ HotelsSettle
  BY OfficeRunsEach, DecisionsRecorded, RepliesAnswerTurns, ConversionsOwnTheirLead,
     DialogInquiriesHaveLeads, CompaniesHadAgencies, StampsKept, NoAlarmIsMissed, RatesApart,
     SignupGivesAuthority, OnlySupersGiveWildcard, RolesStayInWorkspace, SavedPricesSettle,
     OptionsShownOnce, NumbersAgree, StatusesKept, LevelsEscalate, SavesKeepPrices,
     AnswersKeepForm, HotelsStay, PTL

=============================================================================
