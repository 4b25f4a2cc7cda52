----------------------------- MODULE AiSettings -----------------------------
(***************************************************************************)
(* The tenant's AI settings: the panel in which an admin tests, saves and  *)
(* removes the API key, TenantSettingsService, which reads the row and     *)
(* writes it in another transaction, and the generation jobs, which take   *)
(* the key from the row and add the tokens they have used to it.  The      *)
(* provider (there is one) and the monthly limit (nothing sets or applies  *)
(* it) are not modelled; one unit stands for the tokens of one AI call.    *)
(***************************************************************************)
EXTENDS Naturals, FiniteSets

CONSTANTS
  ApiKeys,      \* keys an admin may type
  LongKeys,     \* those of them that TestAPIKey finds long enough
  NoKey,        \* no key stored, or an empty field
  MaxKeyCalls,  \* bound: calls of TenantSettingsService under way
  MaxAiCalls    \* bound: AI calls ever made

ASSUME AiAssumption ==
  /\ LongKeys \subseteq ApiKeys /\ NoKey \notin ApiKeys
  /\ MaxKeyCalls \in Nat \ {0} /\ MaxAiCalls \in Nat \ {0}

VARIABLES
  rowExists,    \* whether the tenant has a row in tenant_ai_settings
  storedKey,    \* its encrypted_api_key
  tokensUsed,   \* its total_tokens_used
  metered,      \* AI calls whose tokens were added without an error
  aiCalls,      \* AI calls ever made, and
  atModel,      \* those the jobs are waiting for
  keyCalls,     \* calls under way, of the tab and of other admins
  keyDialog,    \* isApiKeyModalOpen
  typedKey,     \* the field for the key
  keyTesting,   \* isTestingApiKey
  keyTest,      \* apiKeyTestStatus
  removeAsked,  \* showRemoveConfirm
  configured    \* settings.apiKeyConfigured as it was read last

aiVars == <<rowExists, storedKey, tokensUsed, metered, aiCalls, atModel, keyCalls,
            keyDialog, typedKey, keyTesting, keyTest, removeAsked, configured>>

aiRow == <<rowExists, storedKey, tokensUsed>>
aiUsage == <<metered, aiCalls, atModel>>
testState == <<keyTesting, keyTest>>
aiPanel == <<keyDialog, typedKey, testState, removeAsked, configured>>

KeyCall == [do : {"test", "set", "remove"}, by : {"tab", "other"},
            key : ApiKeys \cup {NoKey}, found : BOOLEAN, saw : 0..MaxAiCalls,
            stage : {"asked", "read", "done"}]

AiInit ==
  /\ rowExists = FALSE /\ storedKey = NoKey /\ tokensUsed = 0
  /\ metered = 0 /\ aiCalls = 0 /\ atModel = 0
  /\ keyCalls = {}
  /\ keyDialog = FALSE /\ typedKey = NoKey
  /\ keyTesting = FALSE /\ keyTest = "idle"
  /\ removeAsked = FALSE /\ configured = FALSE

-----------------------------------------------------------------------------
(* The row.  A row is never deleted.                                       *)

(* INSERT: tenant_id is UNIQUE, and total_tokens_used starts at zero.      *)
CreateSettings(key) ==
  /\ ~ rowExists
  /\ rowExists' = TRUE /\ storedKey' = key /\ tokensUsed' = 0

(* An UPDATE of every column of the row that was read.                     *)
UpdateWholeRow(key, saw) ==
  /\ rowExists /\ storedKey' = key /\ tokensUsed' = saw
  /\ UNCHANGED rowExists

(* UPDATE: the counter is not among the columns it sets.                   *)
UpdateSettings(key, saw) ==
  /\ rowExists /\ storedKey' = key
  /\ UNCHANGED <<rowExists, tokensUsed>>

-----------------------------------------------------------------------------
(* The panel.                                                              *)

(* Calls that are alike in everything count as one.                        *)
AskKey(do, by, key) ==
  /\ Cardinality(keyCalls) < MaxKeyCalls
  /\ keyCalls' = keyCalls \cup
       {[do |-> do, by |-> by, key |-> key, found |-> FALSE, saw |-> 0,
         stage |-> "asked"]}

OpenApiKeyModal ==
  /\ ~ keyDialog /\ keyDialog' = TRUE
  /\ typedKey' = NoKey /\ keyTesting' = FALSE /\ keyTest' = "idle"
  /\ UNCHANGED <<aiRow, aiUsage, keyCalls, removeAsked, configured>>

(* Closing the dialog does not forget that a test is under way.            *)
CloseApiKeyModal ==
  /\ keyDialog /\ keyDialog' = FALSE /\ keyTest' = "idle"
  /\ UNCHANGED <<aiRow, aiUsage, keyCalls, typedKey, keyTesting, removeAsked, configured>>

(* Another key in the field does not undo the test of the one before.      *)
TypeKey ==
  /\ keyDialog
  /\ \E key \in (ApiKeys \cup {NoKey}) \ {typedKey} : typedKey' = key
  /\ UNCHANGED <<aiRow, aiUsage, keyCalls, keyDialog, testState, removeAsked, configured>>

HandleTestKey ==
  /\ keyDialog /\ typedKey # NoKey /\ ~ keyTesting
  /\ AskKey("test", "tab", typedKey)
  /\ keyTesting' = TRUE /\ keyTest' = "testing"
  /\ UNCHANGED <<aiRow, aiUsage, keyDialog, typedKey, removeAsked, configured>>

(* The button stays enabled while the key is being saved.                  *)
HandleSaveKey ==
  /\ keyDialog /\ typedKey # NoKey /\ keyTest = "success"
  /\ AskKey("set", "tab", typedKey)
  /\ UNCHANGED <<aiRow, aiUsage, aiPanel>>

AskRemoveKey ==
  /\ ~ keyDialog /\ removeAsked' = (configured /\ ~ removeAsked)
  /\ removeAsked' # removeAsked
  /\ UNCHANGED <<aiRow, aiUsage, keyCalls, keyDialog, typedKey, testState, configured>>

HandleRemoveKey ==
  /\ ~ keyDialog /\ removeAsked /\ AskKey("remove", "tab", NoKey)
  /\ UNCHANGED <<aiRow, aiUsage, aiPanel>>

OtherAdminAsks ==
  /\ AskKey("remove", "other", NoKey) \/ \E key \in ApiKeys : AskKey("set", "other", key)
  /\ UNCHANGED <<aiRow, aiUsage, aiPanel>>

-----------------------------------------------------------------------------
(* TenantSettingsService.                                                  *)

CallTo(call, stage) ==
  keyCalls' = (keyCalls \ {call}) \cup {[call EXCEPT !.stage = stage]}

(* Of a test, the answer; of the others, the read of the row they write    *)
(* later.  There may be nothing to remove.                                 *)
SettingsRead ==
  /\ \E call \in keyCalls :
       /\ call.stage = "asked"
       /\ CASE call.do = "test" -> CallTo(call, "done")
            [] call.do = "remove" /\ ~ rowExists -> CallTo(call, "done")
            [] OTHER -> keyCalls' = (keyCalls \ {call}) \cup
                 {[call EXCEPT !.stage = "read", !.found = rowExists, !.saw = tokensUsed]}
  /\ UNCHANGED <<aiRow, aiUsage, aiPanel>>

SettingsWritten ==
  /\ \E call \in keyCalls :
       /\ call.stage = "read"
       /\ IF call.found THEN UpdateSettings(call.key, call.saw)
                        ELSE CreateSettings(call.key)
       /\ CallTo(call, "done")
  /\ UNCHANGED <<aiUsage, aiPanel>>

-----------------------------------------------------------------------------
(* The answers.  A call fails at any stage: its caller is no admin, it is  *)
(* the second of two INSERTs, or the answer is lost after the row was      *)
(* written.  After a change settings and usage are fetched again; a fetch  *)
(* that fails leaves what was shown.                                       *)

Free(call) == keyCalls' = keyCalls \ {call}

Refetched == configured' \in {configured, storedKey # NoKey}

(* Whatever the dialog shows by now, the test's answer is its status.      *)
TestAnswered ==
  /\ \E call \in keyCalls :
       /\ call.do = "test" /\ Free(call)
       /\ \/ call.stage = "done" /\ call.key \in LongKeys /\ keyTest' = "success"
          \/ keyTest' = "failed"
  /\ keyTesting' = FALSE
  /\ UNCHANGED <<aiRow, aiUsage, keyDialog, typedKey, removeAsked, configured>>

SaveAnswered ==
  /\ \E call \in keyCalls :
       /\ call.do = "set" /\ call.by = "tab" /\ Free(call)
       /\ \/ /\ call.stage = "done" /\ Refetched
             /\ keyDialog' = FALSE /\ keyTest' = "idle" /\ UNCHANGED keyTesting
          \/ /\ keyTesting' = FALSE /\ keyTest' = "failed"
             /\ UNCHANGED <<keyDialog, configured>>
  /\ UNCHANGED <<aiRow, aiUsage, typedKey, removeAsked>>

RemoveAnswered ==
  /\ \E call \in keyCalls :
       /\ call.do = "remove" /\ call.by = "tab" /\ Free(call)
       /\ \/ call.stage = "done" /\ Refetched /\ removeAsked' = FALSE
          \/ UNCHANGED <<configured, removeAsked>>
  /\ UNCHANGED <<aiRow, aiUsage, keyDialog, typedKey, testState>>

OtherAnswered ==
  /\ \E call \in keyCalls : call.by = "other" /\ Free(call)
  /\ UNCHANGED <<aiRow, aiUsage, aiPanel>>

SettingsShown ==
  /\ configured' = (storedKey # NoKey) /\ configured' # configured
  /\ UNCHANGED <<aiRow, aiUsage, keyCalls, keyDialog, typedKey, testState, removeAsked>>

-----------------------------------------------------------------------------
(* The jobs.                                                               *)

(* A job that finds no key fails, one that finds it uses it to the end.    *)
ModelCalled ==
  /\ aiCalls < MaxAiCalls /\ rowExists /\ storedKey # NoKey
  /\ aiCalls' = aiCalls + 1 /\ atModel' = atModel + 1
  /\ UNCHANGED <<aiRow, metered, keyCalls, aiPanel>>

(* IncrementTokenUsage: one UPDATE, which finds the row or does nothing.   *)
TokensCounted ==
  /\ atModel > 0 /\ atModel' = atModel - 1
  /\ tokensUsed' = IF rowExists THEN tokensUsed + 1 ELSE tokensUsed
  /\ metered' = metered + 1
  /\ UNCHANGED <<rowExists, storedKey, aiCalls, keyCalls, aiPanel>>

(* The AI call, the storing of its result or the UPDATE fails.             *)
TokensNotCounted ==
  /\ atModel > 0 /\ atModel' = atModel - 1
  /\ UNCHANGED <<aiRow, metered, aiCalls, keyCalls, aiPanel>>

AiNext ==
  \/ OpenApiKeyModal \/ CloseApiKeyModal \/ TypeKey
  \/ HandleTestKey \/ HandleSaveKey \/ AskRemoveKey \/ HandleRemoveKey
  \/ OtherAdminAsks \/ SettingsRead \/ SettingsWritten
  \/ TestAnswered \/ SaveAnswered \/ RemoveAnswered \/ OtherAnswered
  \/ SettingsShown \/ ModelCalled \/ TokensCounted \/ TokensNotCounted

AiSpec == AiInit /\ [][AiNext]_aiVars

-----------------------------------------------------------------------------
(* Type invariant.                                                         *)
AiTypeOK ==
  /\ rowExists \in BOOLEAN /\ storedKey \in ApiKeys \cup {NoKey}
  /\ tokensUsed \in 0..MaxAiCalls /\ metered \in 0..MaxAiCalls
  /\ aiCalls \in 0..MaxAiCalls /\ atModel \in 0..MaxAiCalls
  /\ keyCalls \subseteq KeyCall
  /\ keyDialog \in BOOLEAN /\ typedKey \in ApiKeys \cup {NoKey}
  /\ keyTesting \in BOOLEAN /\ keyTest \in {"idle", "testing", "success", "failed"}
  /\ removeAsked \in BOOLEAN /\ configured \in BOOLEAN

(* The tenant's usage is the sum of what its jobs added to it, although    *)
(* SetAPIKey and RemoveAPIKey write a row they have read before, a job may *)
(* outlive the key it took, and two admins may both find no row and create *)
(* it.                                                                     *)
UsageAddsUp == tokensUsed = metered

=============================================================================
