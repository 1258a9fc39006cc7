----------------------------- MODULE ModelSettings -----------------------------
(* The connection to the language model: settings.key, which encrypts the API *)
(* keys (secret_preflight.py at a start, hermes/secrets.py at a save), the     *)
(* stored configuration and the credential of each preset                      *)
(* (hermes/configuration.py), and the page that tests a connection before it   *)
(* saves it (frontend SettingsPage.tsx).  A connection is the provider, API    *)
(* mode and base URL together; an API key is named by the connection it was    *)
(* entered for.                                                                *)
EXTENDS Integers, FiniteSets

CONSTANTS
    Starts,       \* starts of the application: preflights that may overlap
    Governors,    \* requests that save a configuration
    Presets,
    Connections,
    Environment,  \* the connection of the environment variables
    MaxKeys,      \* bound: keys generated
    MaxRevision,  \* bound: edits of the form
    Overlap       \* may two saves overlap between their reads and their commits?

ASSUME SettingsAssumption ==
    /\ Environment \in Connections /\ Presets # {}
    /\ {MaxKeys, MaxRevision} \subseteq Nat /\ Overlap \in BOOLEAN

VARIABLES
    keyFile,      \* settings.key: Absent, Partial, or the number of the key it holds
    generated,    \* keys generated so far
    lost,         \* keys whose file was lost
    configuration,\* the row of LLMConfiguration
    credentials,  \* preset -> row of LLMProviderCredential
    starts,       \* start -> where its preflight stands
    saves,        \* governor -> where its save stands
    page          \* the settings page of one governor

settingsVars ==
    <<keyFile, generated, lost, configuration, credentials, starts, saves, page>>

Absent == 0
Partial == MaxKeys + 1
Whole == 1 .. MaxKeys

NoSecret == "none"
NoRow == [preset |-> "none", connection |-> "none", secret |-> NoSecret, key |-> Absent]
NotSaving == [step |-> "idle", payload |-> NoRow, secret |-> NoSecret, key |-> Absent,
              read |-> NoRow, known |-> NoRow]
Payloads ==
    {p \in [preset : Presets, connection : Connections, secret : Connections \cup {NoSecret}] :
       p.secret \in {NoSecret, p.connection}}
Form(p) == [NoRow EXCEPT !.preset = p.preset, !.connection = p.connection, !.secret = p.secret]

Rows == {configuration} \cup {credentials[p] : p \in Presets}
StoredRows == Rows \ {NoRow}

RowShapes ==
    [preset : Presets \cup {"none"}, connection : Connections \cup {"none"},
     secret : Connections \cup {NoSecret}, key : 0 .. MaxKeys]
StartShapes ==
    [step : {"idle", "looking", "creating", "writing", "reentry", "ready", "failed"},
     key : 0 .. MaxKeys]
SaveShapes ==
    [step : {"idle", "encrypting", "writing", "committing"}, payload : RowShapes,
     secret : Connections \cup {NoSecret}, key : 0 .. MaxKeys, read : RowShapes, known : RowShapes]
PageShapes ==
    [form : RowShapes, revision : 0 .. MaxRevision, tested : -1 .. MaxRevision,
     busy : {"idle", "test", "save", "saved"}, by : Governors \cup {"none"},
     sent : RowShapes, at : 0 .. MaxRevision, passed : RowShapes]

SettingsTypeOK ==
    /\ keyFile \in 0 .. MaxKeys + 1 /\ generated \in 0 .. MaxKeys /\ lost \subseteq Whole
    /\ configuration \in RowShapes /\ credentials \in [Presets -> RowShapes]
    /\ starts \in [Starts -> StartShapes] /\ saves \in [Governors -> SaveShapes]
    /\ page \in PageShapes

(* The form shows some preset before it is edited. *)
FirstPreset == CHOOSE p \in Presets : TRUE

SettingsInit ==
    /\ keyFile = Absent /\ generated = 0 /\ lost = {}
    /\ configuration = NoRow /\ credentials = [p \in Presets |-> NoRow]
    /\ starts = [s \in Starts |-> [step |-> "idle", key |-> Absent]]
    /\ saves = [g \in Governors |-> NotSaving]
    /\ page = [form |-> [NoRow EXCEPT !.preset = FirstPreset,
                                      !.connection = Environment],
               revision |-> 0, tested |-> -1, busy |-> "idle", by |-> "none",
               sent |-> NoRow, at |-> 0, passed |-> NoRow]

-----------------------------------------------------------------------------
(* settings.key *)

(* Mutant: the file is opened without O_EXCL. *)
OpensAlways == generated < MaxKeys

(* O_CREAT with O_EXCL: an empty file, if there was none. *)
OpensNew == keyFile = Absent /\ generated < MaxKeys

Step(s, step) == starts' = [starts EXCEPT ![s].step = step]
UnchangedRows == UNCHANGED <<configuration, credentials, saves, page>>

(* A whole key is reused, a partial one refused; without a file, whether      *)
(* anything is encrypted decides.                                             *)
PreflightReads(s) ==
    /\ starts[s].step = "idle"
    /\ Step(s, CASE keyFile \in Whole -> "ready"
                 [] keyFile = Partial -> "failed"
                 [] OTHER -> "looking")
    /\ UNCHANGED <<keyFile, generated, lost>> /\ UnchangedRows

PreflightLooks(s) ==
    /\ starts[s].step = "looking"
    /\ Step(s, IF StoredRows # {} THEN "reentry" ELSE "creating")
    /\ UNCHANGED <<keyFile, generated, lost>> /\ UnchangedRows

PreflightCreates(s) ==
    /\ starts[s].step = "creating" /\ OpensNew
    /\ keyFile' = Partial /\ generated' = generated + 1
    /\ starts' = [starts EXCEPT ![s] = [step |-> "writing", key |-> generated + 1]]
    /\ UNCHANGED lost /\ UnchangedRows

(* Another process was first: its key is read, if it is there already.       *)
PreflightIsLate(s) ==
    /\ starts[s].step = "creating" /\ keyFile # Absent
    /\ Step(s, IF keyFile = Partial THEN "failed" ELSE "ready")
    /\ UNCHANGED <<keyFile, generated, lost>> /\ UnchangedRows

PreflightWrites(s) ==
    /\ starts[s].step = "writing"
    /\ keyFile' = starts[s].key
    /\ Step(s, "ready")
    /\ UNCHANGED <<generated, lost>> /\ UnchangedRows

(* A start that dies may leave the empty file behind; the next one starts over. *)
PreflightDies(s) ==
    /\ starts[s].step # "idle"
    /\ starts' = [starts EXCEPT ![s] = [step |-> "idle", key |-> Absent]]
    /\ UNCHANGED <<keyFile, generated, lost>> /\ UnchangedRows

(* The file is lost with its volume, between starts and saves.               *)
LoseKey ==
    /\ keyFile \in Whole
    /\ \A s \in Starts : starts[s].step \in {"idle", "ready", "reentry", "failed"}
    /\ \A g \in Governors : saves[g] = NotSaving
    /\ lost' = lost \cup {keyFile} /\ keyFile' = Absent
    /\ UNCHANGED <<generated, starts>> /\ UnchangedRows

-----------------------------------------------------------------------------
(* The configuration *)

Decrypts(row) == row # NoRow /\ row.key = keyFile

(* resolve_configuration: the stored row, or the environment; NoRow when it   *)
(* cannot be decrypted.                                                       *)
Current ==
    IF configuration = NoRow
      THEN [NoRow EXCEPT !.connection = Environment, !.secret = Environment]
      ELSE IF Decrypts(configuration) THEN configuration ELSE NoRow

(* Mutant: the stored key is reused whatever it was entered for. *)
DraftOfAnyConnection(p) ==
    IF p.secret # NoSecret THEN p.secret
    ELSE IF Decrypts(credentials[p.preset]) THEN credentials[p.preset].secret
    ELSE Current.secret

(* draft_connection: a key that is not entered is reused for the very         *)
(* connection it is stored for, and for no other.                             *)
DraftConnection(p) ==
    IF p.secret # NoSecret THEN p.secret
    ELSE IF Decrypts(credentials[p.preset]) /\ credentials[p.preset].connection = p.connection
      THEN credentials[p.preset].secret
    ELSE IF Current.connection = p.connection THEN Current.secret
    ELSE NoSecret

SaveDrafts(g, p) ==
    /\ saves[g] = NotSaving
    /\ Overlap \/ \A other \in Governors : saves[other] = NotSaving
    /\ DraftConnection(p) # NoSecret
    /\ saves' = [saves EXCEPT ![g] =
                   [step |-> "encrypting", payload |-> p, secret |-> DraftConnection(p),
                    key |-> Absent, read |-> configuration, known |-> credentials[p.preset]]]
    /\ UNCHANGED <<keyFile, generated, lost, configuration, credentials, starts>>

SaveKeeps == UNCHANGED <<lost, configuration, credentials, starts, page>>

(* SecretCipher.encrypt with the key that is there, or a new one.            *)
SaveLoadsKey(g) ==
    /\ saves[g].step = "encrypting" /\ keyFile \in Whole
    /\ saves' = [saves EXCEPT ![g].step = "committing", ![g].key = keyFile]
    /\ UNCHANGED <<keyFile, generated>> /\ SaveKeeps

SaveCreatesKey(g) ==
    /\ saves[g].step = "encrypting" /\ OpensNew
    /\ keyFile' = Partial /\ generated' = generated + 1
    /\ saves' = [saves EXCEPT ![g].step = "writing", ![g].key = generated + 1]
    /\ SaveKeeps

SaveWritesKey(g) ==
    /\ saves[g].step = "writing"
    /\ keyFile' = saves[g].key
    /\ saves' = [saves EXCEPT ![g].step = "committing"]
    /\ UNCHANGED generated /\ SaveKeeps

(* 422: the file is there and empty. *)
SaveRefused(g) ==
    /\ saves[g].step = "encrypting" /\ keyFile = Partial
    /\ saves' = [saves EXCEPT ![g] = NotSaving]
    /\ UNCHANGED <<keyFile, generated>> /\ SaveKeeps

(* The session writes the columns that differ from the row it read: a         *)
(* connection that looks unchanged is not written again; the ciphertext is.   *)
Flush(s, read, row) ==
    [preset |-> s.payload.preset, secret |-> s.secret, key |-> s.key,
     connection |-> IF read.connection = s.payload.connection THEN row.connection
                                                              ELSE s.payload.connection]

SaveCommits(g) ==
    LET s == saves[g]
        preset == s.payload.preset
    IN  /\ s.step = "committing"
        /\ configuration' = Flush(s, s.read, configuration)
        /\ credentials' = [credentials EXCEPT ![preset] = Flush(s, s.known, @)]
        /\ saves' = [saves EXCEPT ![g] = NotSaving]
        /\ page' = IF page.by # g THEN page
                   ELSE [page EXCEPT !.busy = "saved",
                           !.sent = Form([configuration' EXCEPT !.secret = NoSecret])]
        /\ UNCHANGED <<keyFile, generated, lost, starts>>

SaveDies(g) ==
    /\ saves[g] # NotSaving
    /\ saves' = [saves EXCEPT ![g] = NotSaving]
    /\ UNCHANGED <<keyFile, generated>> /\ SaveKeeps

-----------------------------------------------------------------------------
(* The page *)

UnchangedServer ==
    UNCHANGED <<keyFile, generated, lost, configuration, credentials, starts, saves>>

(* update and selectPreset. *)
EditForm ==
    /\ page.revision < MaxRevision
    /\ \E p \in Payloads :
         page' = [page EXCEPT !.form = Form(p), !.revision = @ + 1, !.tested = -1,
                                  !.passed = IF page.busy = "save" THEN @ ELSE NoRow]
    /\ UnchangedServer

(* Without a key for the form's connection the answer is a 422 at once. *)
TestConnection ==
    /\ page.busy = "idle"
    /\ page' = IF DraftConnection(page.form) = NoSecret THEN [page EXCEPT !.tested = -1]
               ELSE [page EXCEPT !.busy = "test", !.sent = page.form, !.at = page.revision]
    /\ UnchangedServer

Answered == [page EXCEPT !.busy = "idle", !.sent = NoRow, !.at = 0, !.by = "none"]

(* Mutant: the answer of a test counts for the form as it is by then. *)
TestPassesForForm ==
    /\ page.busy = "test"
    /\ page' = [Answered EXCEPT !.tested = page.revision, !.passed = page.sent]
    /\ UnchangedServer

(* The provider took the key: the revision that was sent is tested.          *)
TestPasses ==
    /\ page.busy = "test"
    /\ page' = [Answered EXCEPT !.tested = page.at, !.passed = page.sent]
    /\ UnchangedServer

TestFails ==
    /\ page.busy = "test"
    /\ page' = [Answered EXCEPT !.tested = -1]
    /\ UnchangedServer

Submit(g) ==
    /\ page.busy = "idle" /\ page.tested = page.revision
    /\ page' = [page EXCEPT !.busy = "save", !.sent = page.form, !.by = g]
    /\ SaveDrafts(g, page.form)

(* The answer to a save: the form is what was stored, and counts as tested.  *)
Saved ==
    /\ page.busy = "saved"
    /\ page' = [Answered EXCEPT !.form = page.sent, !.passed = page.sent,
                                !.revision = 0, !.tested = 0]
    /\ UnchangedServer

(* A refusal, or an answer that is lost on its way. *)
SaveFails ==
    /\ page.busy \in {"save", "saved"}
    /\ page' = Answered
    /\ UnchangedServer

(* A request of another governor, or of no page at all.                      *)
SaveDirectly(g) ==
    /\ \E p \in Payloads : SaveDrafts(g, Form(p))
    /\ UNCHANGED page

SettingsNext ==
    \/ \E s \in Starts :
         \/ PreflightReads(s) \/ PreflightLooks(s) \/ PreflightCreates(s)
         \/ PreflightIsLate(s) \/ PreflightWrites(s) \/ PreflightDies(s)
    \/ LoseKey
    \/ \E g \in Governors :
         \/ SaveDirectly(g) \/ Submit(g) \/ SaveLoadsKey(g) \/ SaveCreatesKey(g)
         \/ SaveWritesKey(g) \/ SaveRefused(g) \/ SaveCommits(g) \/ SaveDies(g)
    \/ EditForm \/ TestConnection \/ TestPasses \/ TestFails \/ Saved \/ SaveFails

SettingsSpec == SettingsInit /\ [][SettingsNext]_settingsVars

-----------------------------------------------------------------------------
(* README: a key that exists is reused and checked, never overwritten; it     *)
(* decrypts all that is stored, but for what was encrypted before it was lost. *)
EncryptedWithTheKeyInPlace ==
    \A r \in StoredRows : r.key \in lost \cup {keyFile}

(* An API key goes to the connection it was entered for, in the configuration *)
(* and in the credentials.                                                    *)
KeysStayWithTheirConnection == \A r \in StoredRows : r.secret = r.connection

(* What the page saves is what it tested, not what the form was edited to     *)
(* since.                                                                     *)
SavesOnlyWhatWasTested == page.busy = "save" => page.sent = page.passed

SettingsAreSound ==
    EncryptedWithTheKeyInPlace /\ KeysStayWithTheirConnection /\ SavesOnlyWhatWasTested
=============================================================================
