------------------------------- MODULE Surveys -------------------------------
(* Surveys, their questions, the responses of contacts with the answers, and *)
(* the campaigns surveys belong to (migrations/023_survey_system.sql;        *)
(* generated/surveys.sql.go, survey_questions.sql.go, survey_responses.sql.go,*)
(* survey_response_answers.sql.go, survey_campaigns.sql.go).  Left out:       *)
(* titles and texts with the searches for them, weights, and of an answer all *)
(* but whether it is a number.                                                *)
EXTENDS Campaigns

CONSTANTS SurveyIds, QuestionIds, ResponseIds, AnswerIds, SurveyCampaignIds,
          QuestionTypes,
          ResponseStatuses, \* the statuses, any texts, of responses
          ResponseDays     \* the days of responses

VARIABLES surveys, survey_questions, survey_responses, survey_response_answers, survey_campaigns

surveyTables == <<surveys, survey_questions, survey_responses, survey_response_answers, survey_campaigns>>
surveyVars == <<contacts, campaignTables, surveyTables>>

Survey == [is_active : Flag, is_default : Flag]
SurveyQuestion == [survey_id : SurveyIds, question_type : QuestionTypes, is_required : Flag, is_active : Flag]
SurveyResponse == [survey_id : SurveyIds, contact_id : ContactIds, status : ResponseStatuses \cup {NULL},
                   response_date : ResponseDays \cup {NULL}, is_test : Flag]
(* numeric: answer_numeric is not NULL. *)
SurveyResponseAnswer == [survey_response_id : ResponseIds, survey_question_id : QuestionIds, numeric : BOOLEAN]
SurveyCampaign == [survey_id : SurveyIds, campaign_id : CampaignIds, is_active : Flag]

(* Days are counted, there are finitely many uuids, NULL is none of these, and  *)
(* the statements write three of the statuses.                                  *)
ASSUME SurveyAssumption ==
  /\ ResponseDays \subseteq Nat
  /\ IsFiniteSet(QuestionIds) /\ IsFiniteSet(ResponseIds) /\ IsFiniteSet(AnswerIds) /\ IsFiniteSet(SurveyCampaignIds)
  /\ {"Completed", "Partial", "Abandoned"} \subseteq ResponseStatuses
  /\ NULL \notin QuestionIds /\ NULL \notin AnswerIds /\ NULL \notin ResponseDays /\ NULL \notin ResponseStatuses

SurveysTypeOK ==
  /\ IsTable(surveys, SurveyIds, Survey)
  /\ IsTable(survey_questions, QuestionIds, SurveyQuestion)
  /\ IsTable(survey_responses, ResponseIds, SurveyResponse)
  /\ IsTable(survey_response_answers, AnswerIds, SurveyResponseAnswer)
  /\ IsTable(survey_campaigns, SurveyCampaignIds, SurveyCampaign)

-----------------------------------------------------------------------------
(* The rows of surveys, responses and questions in the given sets go, and all *)
(* that refers to them goes with them.                                        *)
QuestionsOf(S) == {q \in DOMAIN survey_questions : survey_questions[q].survey_id \in S}
ResponsesOf(S, C) ==
  {r \in DOMAIN survey_responses : survey_responses[r].survey_id \in S \/ survey_responses[r].contact_id \in C}
AnswersOf(R, Q) ==
  {a \in DOMAIN survey_response_answers : \/ survey_response_answers[a].survey_response_id \in R
                                          \/ survey_response_answers[a].survey_question_id \in Q}
LinksOf(S, C) ==
  {l \in DOMAIN survey_campaigns : survey_campaigns[l].survey_id \in S \/ survey_campaigns[l].campaign_id \in C}

DropResponses(R, Q) ==
  /\ survey_responses' = Without(survey_responses, R)
  /\ survey_response_answers' = Without(survey_response_answers, AnswersOf(R, Q))

CreateSurvey(s, row) ==
  /\ s \in SurveyIds \ DOMAIN surveys
  /\ surveys' = Insert(surveys, s, row)
  /\ UNCHANGED <<contacts, campaignTables, survey_questions, survey_responses, survey_response_answers, survey_campaigns>>

UpdateSurvey(s, row) ==
  /\ s \in DOMAIN surveys
  /\ surveys' = [surveys EXCEPT ![s] = row]
  /\ UNCHANGED <<contacts, campaignTables, survey_questions, survey_responses, survey_response_answers, survey_campaigns>>

ActivateSurvey(s) == s \in DOMAIN surveys /\ UpdateSurvey(s, [surveys[s] EXCEPT !.is_active = TRUE])
DeactivateSurvey(s) == s \in DOMAIN surveys /\ UpdateSurvey(s, [surveys[s] EXCEPT !.is_active = FALSE])

(* As with SetDefaultDashboard, the generated method has the first of the two *)
(* statements of queries/surveys.sql:52-53 only: no survey is the default.    *)
SetDefaultSurvey ==
  /\ surveys # NoRows
  /\ surveys' = [s \in DOMAIN surveys |-> [surveys[s] EXCEPT !.is_default = FALSE]]
  /\ UNCHANGED <<contacts, campaignTables, survey_questions, survey_responses, survey_response_answers, survey_campaigns>>

DeleteSurvey(s) ==
  /\ s \in DOMAIN surveys
  /\ surveys' = Without(surveys, {s})
  /\ survey_questions' = Without(survey_questions, QuestionsOf({s}))
  /\ DropResponses(ResponsesOf({s}, {}), QuestionsOf({s}))
  /\ survey_campaigns' = Without(survey_campaigns, LinksOf({s}, {}))
  /\ UNCHANGED <<contacts, campaignTables>>

CreateSurveyQuestion(q, row) ==
  /\ q \in QuestionIds \ DOMAIN survey_questions
  /\ row.survey_id \in DOMAIN surveys
  /\ survey_questions' = Insert(survey_questions, q, row)
  /\ UNCHANGED <<contacts, campaignTables, surveys, survey_responses, survey_response_answers, survey_campaigns>>

(* A question may move to another survey, with the answers it has. *)
UpdateSurveyQuestion(q, row) ==
  /\ q \in DOMAIN survey_questions
  /\ row.survey_id \in DOMAIN surveys
  /\ survey_questions' = [survey_questions EXCEPT ![q] = row]
  /\ UNCHANGED <<contacts, campaignTables, surveys, survey_responses, survey_response_answers, survey_campaigns>>

ActivateSurveyQuestion(q) ==
  q \in DOMAIN survey_questions /\ UpdateSurveyQuestion(q, [survey_questions[q] EXCEPT !.is_active = TRUE])
DeactivateSurveyQuestion(q) ==
  q \in DOMAIN survey_questions /\ UpdateSurveyQuestion(q, [survey_questions[q] EXCEPT !.is_active = FALSE])

DeleteSurveyQuestion(q) ==
  /\ q \in DOMAIN survey_questions
  /\ survey_questions' = Without(survey_questions, {q})
  /\ DropResponses({}, {q})
  /\ UNCHANGED <<contacts, campaignTables, surveys, survey_campaigns>>

(* A contact may respond to a survey more than once. *)
CreateSurveyResponse(r, row) ==
  /\ r \in ResponseIds \ DOMAIN survey_responses
  /\ row.survey_id \in DOMAIN surveys /\ row.contact_id \in DOMAIN contacts
  /\ survey_responses' = Insert(survey_responses, r, row)
  /\ UNCHANGED <<contacts, campaignTables, surveys, survey_questions, survey_response_answers, survey_campaigns>>

UpdateSurveyResponse(r, row) ==
  /\ r \in DOMAIN survey_responses
  /\ row.survey_id \in DOMAIN surveys /\ row.contact_id \in DOMAIN contacts
  /\ survey_responses' = [survey_responses EXCEPT ![r] = row]
  /\ UNCHANGED <<contacts, campaignTables, surveys, survey_questions, survey_response_answers, survey_campaigns>>

UpdateSurveyResponseStatus(r, st) ==
  r \in DOMAIN survey_responses /\ UpdateSurveyResponse(r, [survey_responses[r] EXCEPT !.status = st])
MarkSurveyResponseCompleted(r) == UpdateSurveyResponseStatus(r, "Completed")
MarkSurveyResponsePartial(r) == UpdateSurveyResponseStatus(r, "Partial")
MarkSurveyResponseAbandoned(r) == UpdateSurveyResponseStatus(r, "Abandoned")

DeleteSurveyResponse(r) ==
  /\ r \in DOMAIN survey_responses
  /\ DropResponses({r}, {})
  /\ UNCHANGED <<contacts, campaignTables, surveys, survey_questions, survey_campaigns>>

(* The question may be one of another survey, or answered before. *)
CreateSurveyResponseAnswer(a, row) ==
  /\ a \in AnswerIds \ DOMAIN survey_response_answers
  /\ row.survey_response_id \in DOMAIN survey_responses /\ row.survey_question_id \in DOMAIN survey_questions
  /\ survey_response_answers' = Insert(survey_response_answers, a, row)
  /\ UNCHANGED <<contacts, campaignTables, surveys, survey_questions, survey_responses, survey_campaigns>>

UpdateSurveyResponseAnswer(a, row) ==
  /\ a \in DOMAIN survey_response_answers
  /\ row.survey_response_id \in DOMAIN survey_responses /\ row.survey_question_id \in DOMAIN survey_questions
  /\ survey_response_answers' = [survey_response_answers EXCEPT ![a] = row]
  /\ UNCHANGED <<contacts, campaignTables, surveys, survey_questions, survey_responses, survey_campaigns>>

DeleteSurveyResponseAnswer(a) ==
  /\ a \in DOMAIN survey_response_answers
  /\ survey_response_answers' = Without(survey_response_answers, {a})
  /\ UNCHANGED <<contacts, campaignTables, surveys, survey_questions, survey_responses, survey_campaigns>>

DeleteSurveyResponseAnswersByResponse(r) ==
  /\ AnswersOf({r}, {}) # {}
  /\ survey_response_answers' = Without(survey_response_answers, AnswersOf({r}, {}))
  /\ UNCHANGED <<contacts, campaignTables, surveys, survey_questions, survey_responses, survey_campaigns>>

CreateSurveyCampaign(l, row) ==
  /\ l \in SurveyCampaignIds \ DOMAIN survey_campaigns
  /\ row.survey_id \in DOMAIN surveys /\ row.campaign_id \in DOMAIN campaigns
  /\ survey_campaigns' = Insert(survey_campaigns, l, row)
  /\ UNCHANGED <<contacts, campaignTables, surveys, survey_questions, survey_responses, survey_response_answers>>

UpdateSurveyCampaign(l, row) ==
  /\ l \in DOMAIN survey_campaigns
  /\ row.survey_id \in DOMAIN surveys /\ row.campaign_id \in DOMAIN campaigns
  /\ survey_campaigns' = [survey_campaigns EXCEPT ![l] = row]
  /\ UNCHANGED <<contacts, campaignTables, surveys, survey_questions, survey_responses, survey_response_answers>>

ActivateSurveyCampaign(l) ==
  l \in DOMAIN survey_campaigns /\ UpdateSurveyCampaign(l, [survey_campaigns[l] EXCEPT !.is_active = TRUE])
DeactivateSurveyCampaign(l) ==
  l \in DOMAIN survey_campaigns /\ UpdateSurveyCampaign(l, [survey_campaigns[l] EXCEPT !.is_active = FALSE])

DeleteSurveyCampaign(l) ==
  /\ l \in DOMAIN survey_campaigns
  /\ survey_campaigns' = Without(survey_campaigns, {l})
  /\ UNCHANGED <<contacts, campaignTables, surveys, survey_questions, survey_responses, survey_response_answers>>

CreateRespondent(c) == CreateContact(c, SomeContact) /\ UNCHANGED <<campaignTables, surveyTables>>

(* What it takes part in goes with it. *)
DeleteRespondent(c) ==
  /\ DeleteSupporter(c)
  /\ DropResponses(ResponsesOf({}, {c}), {})
  /\ UNCHANGED <<surveys, survey_questions, survey_campaigns>>

CreateSurveyedCampaign(c, row) == CreateCampaign(c, row) /\ UNCHANGED surveyTables

DeleteSurveyedCampaign(c) ==
  /\ DeleteCampaign(c)
  /\ survey_campaigns' = Without(survey_campaigns, LinksOf({}, {c}))
  /\ UNCHANGED <<surveys, survey_questions, survey_responses, survey_response_answers>>

-----------------------------------------------------------------------------
(* Queries. *)

GetSurvey(s) == DOMAIN surveys \cap {s}
ListSurveys == DOMAIN surveys
ListActiveSurveys == {s \in DOMAIN surveys : surveys[s].is_active = TRUE}
(* A :one query: some row among these. *)
GetDefaultSurvey == {s \in DOMAIN surveys : surveys[s].is_default = TRUE /\ surveys[s].is_active = TRUE}

GetSurveyResponse(r) == DOMAIN survey_responses \cap {r}
ListSurveyResponses == DOMAIN survey_responses
GetSurveyResponsesBySurvey(s) == {r \in DOMAIN survey_responses : survey_responses[r].survey_id = s}
GetSurveyResponsesByContact(c) == {r \in DOMAIN survey_responses : survey_responses[r].contact_id = c}
GetSurveyResponsesByStatus(s, st) == {r \in GetSurveyResponsesBySurvey(s) : Eq(survey_responses[r].status, st)}
GetCompletedSurveyResponses(s) == {r \in GetSurveyResponsesBySurvey(s) : survey_responses[r].status = "Completed"}
ListSurveyResponsesByDateRange(d, e) ==
  {r \in DOMAIN survey_responses : survey_responses[r].response_date \in d..e}
ListTestSurveyResponses(t) == {r \in DOMAIN survey_responses : Eq(survey_responses[r].is_test, t)}
(* The latest of the contact's responses to the survey.  The order is           *)
(* descending, which puts a response without a date before all others.          *)
GetSurveyResponseBySurveyAndContact(s, c) ==
  LET Own == GetSurveyResponsesBySurvey(s) \cap GetSurveyResponsesByContact(c)
      Date(r) == survey_responses[r].response_date
  IN  {r \in Own : \/ Date(r) = NULL
                   \/ \A o \in Own : Date(o) # NULL /\ Date(o) <= Date(r)}
GetSurveyResponseCount(s) == Cardinality(GetSurveyResponsesBySurvey(s))
GetSurveyResponseStats(s) ==
  [st \in {survey_responses[r].status : r \in GetSurveyResponsesBySurvey(s)} |->
     Cardinality({r \in GetSurveyResponsesBySurvey(s) : survey_responses[r].status = st})]
(* Scans DATE_TRUNC's timestamp into an int64. *)
GetSurveyResponseTrends(s, d) ==
  IF \E r \in GetSurveyResponsesBySurvey(s) : survey_responses[r].response_date \in {e \in ResponseDays : e >= d}
  THEN Refused ELSE {}
SummedStatuses == {"Completed", "Partial", "Abandoned"}
GetSurveyStats(act) ==
  [s \in {t \in DOMAIN surveys : Eq(surveys[t].is_active, act)} |->
     [responses |-> Cardinality(GetSurveyResponsesBySurvey(s)),
      by_status |-> [st \in SummedStatuses |-> Cardinality(GetSurveyResponsesByStatus(s, st))]]]
(* A share of n, n # 0, in hundredths of a percent, rounded by ROUND(_, 2). *)
Whole == 10000
Percentage(k, n) == (2 * Whole * k + n) \div (2 * n)

(* The rate of a survey without responses is NULL, which its string cannot hold. *)
Rated(act) == {s \in DOMAIN surveys : Eq(surveys[s].is_active, act)}
Unrated(act) == \E s \in Rated(act) : GetSurveyResponsesBySurvey(s) = {}
GetSurveyResponseRate(act) ==
  IF Unrated(act) THEN Refused
  ELSE [s \in Rated(act) |-> Percentage(Cardinality(GetCompletedSurveyResponses(s)), Cardinality(GetSurveyResponsesBySurvey(s)))]

GetSurveyQuestion(q) == DOMAIN survey_questions \cap {q}
ListSurveyQuestions == DOMAIN survey_questions
ListActiveSurveyQuestions == {q \in DOMAIN survey_questions : survey_questions[q].is_active = TRUE}
ListSurveyQuestionsByType(ty, act) ==
  {q \in DOMAIN survey_questions : survey_questions[q].question_type = ty /\ Eq(survey_questions[q].is_active, act)}
GetSurveyQuestionsBySurvey(s, act) == {q \in QuestionsOf({s}) : Eq(survey_questions[q].is_active, act)}
GetActiveSurveyQuestionsBySurvey(s) == {q \in QuestionsOf({s}) : survey_questions[q].is_active = TRUE}
GetSurveyQuestionsByType(s, ty, act) == {q \in GetSurveyQuestionsBySurvey(s, act) : survey_questions[q].question_type = ty}
GetRequiredSurveyQuestions(s, act) == {q \in GetSurveyQuestionsBySurvey(s, act) : survey_questions[q].is_required = TRUE}
GetSurveyQuestionStats(s, act) ==
  [ty \in {survey_questions[q].question_type : q \in GetSurveyQuestionsBySurvey(s, act)} |->
     Cardinality(GetSurveyQuestionsByType(s, ty, act))]
GetSurveyQuestionSummary(act) ==
  [s \in {t \in DOMAIN surveys : Eq(surveys[t].is_active, act)} |->
     [questions |-> Cardinality(GetActiveSurveyQuestionsBySurvey(s)),
      required |-> Cardinality({q \in GetActiveSurveyQuestionsBySurvey(s) : survey_questions[q].is_required = TRUE})]]

GetSurveyResponseAnswer(a) == DOMAIN survey_response_answers \cap {a}
ListSurveyResponseAnswers == DOMAIN survey_response_answers
GetSurveyResponseAnswersByResponse(r) ==
  {a \in DOMAIN survey_response_answers : survey_response_answers[a].survey_response_id = r}
GetSurveyResponseAnswersByQuestion(q) ==
  {a \in DOMAIN survey_response_answers : survey_response_answers[a].survey_question_id = q}
GetSurveyResponseAnswersWithDetails(r) ==
  {a \in GetSurveyResponseAnswersByResponse(r) : survey_response_answers[a].survey_question_id \in DOMAIN survey_questions}
ListSurveyResponseAnswersByQuestionType(ty) ==
  {a \in DOMAIN survey_response_answers : LET q == survey_response_answers[a].survey_question_id IN
     q \in DOMAIN survey_questions /\ survey_questions[q].question_type = ty}
GetSurveyResponseAnswerCount(r) == Cardinality(GetSurveyResponseAnswersByResponse(r))
GetSurveyResponseAnswerStats(r) ==
  LET TypeOf(a) == survey_questions[survey_response_answers[a].survey_question_id].question_type
      Detailed == GetSurveyResponseAnswersWithDetails(r)
  IN  [ty \in {TypeOf(a) : a \in Detailed} |-> Cardinality({a \in Detailed : TypeOf(a) = ty})]

(* The active questions with an answer in a completed response, of whichever  *)
(* survey that is; the average of answers none of which is a number is NULL,  *)
(* which its float64 cannot hold.                                             *)
Counted(q) == {a \in GetSurveyResponseAnswersByQuestion(q) :
                 survey_responses[survey_response_answers[a].survey_response_id].status = "Completed"}
Answered(s) == {q \in GetActiveSurveyQuestionsBySurvey(s) : Counted(q) # {}}
Unaveraged(s) == \E q \in Answered(s) : \A a \in Counted(q) : ~survey_response_answers[a].numeric
GetSurveyAnalytics(s) == IF Unaveraged(s) THEN Refused ELSE [q \in Answered(s) |-> Cardinality(Counted(q))]

(* Two LEFT JOINs side by side: a row of the response for each pair of one of  *)
(* its answers and an active question of its survey.  The percentage of no     *)
(* questions is NULL, which its string cannot hold.                            *)
OrNull(S) == IF S = {} THEN {NULL} ELSE S
JoinedRows(r) == OrNull(GetSurveyResponseAnswersByResponse(r))
                   \X OrNull(GetActiveSurveyQuestionsBySurvey(survey_responses[r].survey_id))
AnsweredQuestions(r) == Cardinality({p \in JoinedRows(r) : p[1] # NULL})
TotalQuestions(r) == Cardinality({p \in JoinedRows(r) : p[2] # NULL})
Unsummed(s) == \E r \in GetSurveyResponsesBySurvey(s) : TotalQuestions(r) = 0
GetSurveyResponseSummary(s) ==
  IF Unsummed(s) THEN Refused
  ELSE [r \in GetSurveyResponsesBySurvey(s) |->
          [answered |-> AnsweredQuestions(r), percentage |-> Percentage(AnsweredQuestions(r), TotalQuestions(r))]]

GetSurveyCampaign(l) == DOMAIN survey_campaigns \cap {l}
ListSurveyCampaigns == DOMAIN survey_campaigns
ListActiveSurveyCampaigns == {l \in DOMAIN survey_campaigns : survey_campaigns[l].is_active = TRUE}
GetSurveyCampaignsBySurvey(s) == {l \in DOMAIN survey_campaigns : survey_campaigns[l].survey_id = s}
GetSurveyCampaignsByCampaign(c) == {l \in DOMAIN survey_campaigns : survey_campaigns[l].campaign_id = c}
GetActiveSurveyCampaigns(s) == {l \in GetSurveyCampaignsBySurvey(s) : survey_campaigns[l].is_active = TRUE}
GetSurveyCampaignBySurveyAndCampaign(s, c) == GetSurveyCampaignsBySurvey(s) \cap GetSurveyCampaignsByCampaign(c)
GetSurveyCampaignSummary(act) ==
  [s \in {t \in DOMAIN surveys : Eq(surveys[t].is_active, act)} |-> Cardinality(GetActiveSurveyCampaigns(s))]
(* A row per name of a campaign; the model's campaigns have names of their own. *)
GetSurveyCampaignStats(act) ==
  [c \in {survey_campaigns[l].campaign_id : l \in {k \in DOMAIN survey_campaigns : Eq(survey_campaigns[k].is_active, act)}} |->
     Cardinality({l \in GetSurveyCampaignsByCampaign(c) : Eq(survey_campaigns[l].is_active, act)})]

-----------------------------------------------------------------------------
SurveysInit == /\ surveys = NoRows /\ survey_questions = NoRows /\ survey_responses = NoRows
               /\ survey_response_answers = NoRows /\ survey_campaigns = NoRows

SomeSurvey == [is_active |-> TRUE, is_default |-> NULL]

(* Surveys with questions, and the campaigns they belong to. *)
QuestionnaireNext ==
  \/ SetDefaultSurvey
  \/ \E s \in SurveyIds : \/ ActivateSurvey(s) \/ DeactivateSurvey(s) \/ DeleteSurvey(s)
                          \/ \E act, def \in Flags : LET row == [is_active |-> act, is_default |-> def]
                                                            IN  CreateSurvey(s, row) \/ UpdateSurvey(s, row)
  \/ \E q \in QuestionIds : \/ ActivateSurveyQuestion(q) \/ DeactivateSurveyQuestion(q) \/ DeleteSurveyQuestion(q)
                            \/ \E s \in SurveyIds, ty \in QuestionTypes, req, act \in Flags :
                                 LET row == [survey_id |-> s, question_type |-> ty, is_required |-> req, is_active |-> act]
                                 IN  CreateSurveyQuestion(q, row) \/ UpdateSurveyQuestion(q, row)

CampaignedNext ==
  \/ \E s \in SurveyIds : CreateSurvey(s, SomeSurvey) \/ DeactivateSurvey(s) \/ DeleteSurvey(s)
  \/ \E c \in CampaignIds : CreateSurveyedCampaign(c, SomeCampaign) \/ DeleteSurveyedCampaign(c)
  \/ \E l \in SurveyCampaignIds :
       \/ ActivateSurveyCampaign(l) \/ DeactivateSurveyCampaign(l) \/ DeleteSurveyCampaign(l)
       \/ \E s \in SurveyIds, c \in CampaignIds, act \in Flags :
            LET row == [survey_id |-> s, campaign_id |-> c, is_active |-> act]
            IN  CreateSurveyCampaign(l, row) \/ UpdateSurveyCampaign(l, row)

(* Contacts respond. *)
ResponsesNext ==
  \/ \E c \in ContactIds : CreateRespondent(c) \/ DeleteRespondent(c)
  \/ \E s \in SurveyIds : CreateSurvey(s, SomeSurvey) \/ DeleteSurvey(s)
  \/ \E r \in ResponseIds :
       \/ MarkSurveyResponseCompleted(r) \/ MarkSurveyResponsePartial(r) \/ MarkSurveyResponseAbandoned(r)
       \/ DeleteSurveyResponse(r)
       \/ \E st \in ResponseStatuses \cup {NULL} : UpdateSurveyResponseStatus(r, st)
       \/ \E s \in SurveyIds, c \in ContactIds, d \in ResponseDays \cup {NULL} :
            LET row == [survey_id |-> s, contact_id |-> c, status |-> "Partial", response_date |-> d, is_test |-> NULL]
            IN  CreateSurveyResponse(r, row) \/ UpdateSurveyResponse(r, row)

(* ... and answer. *)
AnswersNext ==
  \/ \E c \in ContactIds : CreateRespondent(c) \/ DeleteRespondent(c)
  \/ \E s \in SurveyIds : CreateSurvey(s, SomeSurvey) \/ DeleteSurvey(s)
  \/ \E q \in QuestionIds : \/ DeactivateSurveyQuestion(q) \/ DeleteSurveyQuestion(q)
                            \/ \E s \in SurveyIds, ty \in QuestionTypes :
                                 LET row == [survey_id |-> s, question_type |-> ty, is_required |-> NULL, is_active |-> TRUE]
                                 IN  CreateSurveyQuestion(q, row) \/ UpdateSurveyQuestion(q, row)
  \/ \E r \in ResponseIds :
       \/ MarkSurveyResponseCompleted(r) \/ DeleteSurveyResponse(r) \/ DeleteSurveyResponseAnswersByResponse(r)
       \/ \E s \in SurveyIds, c \in ContactIds :
            CreateSurveyResponse(r, [survey_id |-> s, contact_id |-> c, status |-> NULL, response_date |-> NULL, is_test |-> TRUE])
  \/ \E a \in AnswerIds :
       \/ DeleteSurveyResponseAnswer(a)
       \/ \E row \in SurveyResponseAnswer : CreateSurveyResponseAnswer(a, row) \/ UpdateSurveyResponseAnswer(a, row)

SurveysNext == QuestionnaireNext \/ CampaignedNext \/ ResponsesNext \/ AnswersNext
SurveysSpec == ContactsInit /\ CampaignsInit /\ SurveysInit /\ [][SurveysNext]_surveyVars

-----------------------------------------------------------------------------
(* What goes with a survey, a question, a response, a contact or a campaign    *)
(* goes to the last row: an answer goes with its question as well as with its  *)
(* response, also when the two are of different surveys.                       *)
SurveyRefs ==
  /\ \A q \in DOMAIN survey_questions : survey_questions[q].survey_id \in DOMAIN surveys
  /\ \A r \in DOMAIN survey_responses : /\ survey_responses[r].survey_id \in DOMAIN surveys
                                        /\ survey_responses[r].contact_id \in DOMAIN contacts
  /\ \A a \in DOMAIN survey_response_answers :
       /\ survey_response_answers[a].survey_response_id \in DOMAIN survey_responses
       /\ survey_response_answers[a].survey_question_id \in DOMAIN survey_questions
  /\ \A l \in DOMAIN survey_campaigns : /\ survey_campaigns[l].survey_id \in DOMAIN surveys
                                        /\ survey_campaigns[l].campaign_id \in DOMAIN campaigns

(* The summary of responses (survey_response_answers.sql:91-107) joins answers *)
(* and questions side by side, so that it calls a response with one answer as  *)
(* complete as one with all.  The statuses that the statistics count, with the *)
(* responses of all others, make up the responses; the rate is a percentage,   *)
(* whole when all are completed and zero when none is; a response that is      *)
(* found for a contact is never older than another the contact gave; dated     *)
(* responses make the trends fail; and an answer is found by its response,     *)
(* with the details of its question, and by its question.                      *)
SurveyAnswersAgree ==
  /\ \A s \in ListActiveSurveys :
       LET n == GetSurveyStats(TRUE)[s]
           Others == {r \in GetSurveyResponsesBySurvey(s) : survey_responses[r].status \notin SummedStatuses}
       IN  n.by_status["Completed"] + n.by_status["Partial"] + n.by_status["Abandoned"] + Cardinality(Others) = n.responses
  /\ \A s \in ListActiveSurveys : ~Unrated(TRUE) =>
       LET rate == GetSurveyResponseRate(TRUE)[s] IN
         /\ rate \in 0..Whole
         /\ GetCompletedSurveyResponses(s) = GetSurveyResponsesBySurvey(s) => rate = Whole
         /\ GetCompletedSurveyResponses(s) = {} => rate = 0
  /\ \A s \in ListSurveys : ~Unsummed(s) =>
       \A r \in GetSurveyResponsesBySurvey(s) :
         /\ GetSurveyResponseSummary(s)[r].percentage = IF GetSurveyResponseAnswerCount(r) = 0 THEN 0 ELSE Whole
         /\ GetSurveyResponseSummary(s)[r].answered =
              GetSurveyResponseAnswerCount(r) * Cardinality(GetActiveSurveyQuestionsBySurvey(s))
  /\ \A s \in ListSurveys, c \in ContactIds : LET Own == GetSurveyResponsesBySurvey(s) \cap GetSurveyResponsesByContact(c) IN
       /\ (Own = {}) = (GetSurveyResponseBySurveyAndContact(s, c) = {})
       /\ \A r \in GetSurveyResponseBySurveyAndContact(s, c), d \in ResponseDays :
            survey_responses[r].response_date = d => Own \subseteq ListSurveyResponsesByDateRange(0, d)
  /\ \A r \in ListSurveyResponses :
       /\ GetSurveyResponseTrends(survey_responses[r].survey_id, 0) = {} => survey_responses[r].response_date = NULL
       /\ GetSurveyResponseAnswersWithDetails(r) = GetSurveyResponseAnswersByResponse(r)
  /\ ListSurveyResponseAnswers = UNION {GetSurveyResponseAnswersByResponse(r) : r \in ListSurveyResponses}
  /\ ListSurveyResponseAnswers = UNION {GetSurveyResponseAnswersByQuestion(q) : q \in ListSurveyQuestions}
  /\ \A q \in ListSurveyQuestions : GetSurvey(survey_questions[q].survey_id) # {}
  /\ ListSurveyCampaigns = UNION {GetSurveyCampaignsBySurvey(s) : s \in ListSurveys}
=============================================================================
