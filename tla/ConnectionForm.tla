--------------------------- MODULE ConnectionForm ---------------------------
(***************************************************************************)
(* The connection dialog and the secret behind it: ConnectionDialog.tsx    *)
(* with the list of connections it is opened from (useConnections.ts), the *)
(* two normalisations between the form and the command, and the merge of a *)
(* form with what is stored (connections/mod.rs, storage_repository.rs).   *)
(*                                                                         *)
(* A form never shows a stored secret unless it is revealed.  Whether a    *)
(* save replaces, keeps or clears the secret depends on the text and on a  *)
(* "touched" flag that travel through changes of protocol, credential mode *)
(* and authentication kind, resets of the form and late answers.  The      *)
(* command and the page before it trim a secret: spaces around it are lost *)
(* and a blank one counts as none.                                         *)
(*                                                                         *)
(* RDP and VNC follow the same rules here, and so do Telnet and serial.    *)
(* Host, name, group, proxy, jump and the protocols' own options are left  *)
(* out: the form copies them.                                              *)
(***************************************************************************)
EXTENDS Naturals

CONSTANTS
    Profiles,       \* connection ids
    Protocols,      \* a subset of {"ssh", "rdp", "vnc", "telnet", "serial"}
    Trimmed,        \* what trim leaves of each text that may be typed into a secret field
    Stored,         \* the connection stored at the start
    StoredSecret,   \* its secret
    MaxFormTurns    \* bound on the dialogs, edits, submits and reads of the list

SecretTexts == DOMAIN Trimmed
EmptyText == ""

ASSUME FormAssumption ==
    /\ Stored \in Profiles /\ "none" \notin Profiles
    /\ "ssh" \in Protocols /\ Protocols \subseteq {"ssh", "rdp", "vnc", "telnet", "serial"}
    /\ Trimmed \in [SecretTexts -> SecretTexts] /\ EmptyText \in SecretTexts /\ Trimmed[EmptyText] = EmptyText
    /\ \A text \in SecretTexts : Trimmed[Trimmed[text]] = Trimmed[text]
    /\ StoredSecret \in SecretTexts /\ StoredSecret # EmptyText /\ Trimmed[StoredSecret] = StoredSecret

VARIABLES
    rows,       \* connections table: profile -> row, or NoRow
    slots,      \* the vault: <<profile, kind>> -> secret, EmptyText when there is none
    connections, \* connections of useConnections: profile -> row, or NoRow
    dlg,        \* the open dialog: [how, of, from, id], "how" is "closed" when there is none
    form,       \* its form
    revealing,  \* connection_reveal_inline_secret: [step, kind, secret]
    busy,       \* its busyRef
    submits,    \* saves and deletes under way: [step, what, by, to, of, input]
    listing,    \* answers about the list on their way: [of, rows]
    formTurns,
    rechosen    \* history: the key was chosen again after the passphrase shown was typed

formVars ==
    <<rows, slots, connections, dlg, form, busy, revealing, submits, listing, formTurns, rechosen>>

Modes == {"inline", "saved", "prompt"}
AuthKinds == {"password", "private_key"}
Desktop == {"rdp", "vnc"}
Character == {"telnet", "serial"}

NoRow == [protocol |-> "none", mode |-> "none", kind |-> "none", path |-> FALSE, ref |-> FALSE]
NoRef == [ref |-> FALSE, error |-> FALSE]
Refused == [ref |-> FALSE, error |-> TRUE]

emptyForm ==
    [protocol |-> "ssh", mode |-> "inline", credential |-> FALSE, kind |-> "password",
     password |-> EmptyText, passwordTouched |-> FALSE,
     path |-> FALSE, passphrase |-> EmptyText, passphraseTouched |-> FALSE]

formFromConnection(row) ==
    [emptyForm EXCEPT
        !.protocol = row.protocol, !.mode = row.mode, !.credential = (row.mode = "saved"),
        !.kind = IF row.kind \in AuthKinds THEN row.kind ELSE "password", !.path = row.path]

Closed == [how |-> "closed", of |-> "none", from |-> NoRow, id |-> 0]
NoReveal == [step |-> "none", kind |-> "none", secret |-> EmptyText]

\* The effect that fills the form; a duplicate starts like an edit.
FilledForm(d) == IF d.how = "new" THEN emptyForm ELSE formFromConnection(d.from)

StoredRow == [protocol |-> "ssh", mode |-> "inline", kind |-> "password", path |-> FALSE, ref |-> TRUE]
KeyRow == [StoredRow EXCEPT !.kind = "private_key", !.path = TRUE]

\* One connection is stored, with a password or with a passphrase.
FormInit ==
    \E row \in {StoredRow, KeyRow} :
        /\ rows = [p \in Profiles |-> IF p = Stored THEN row ELSE NoRow]
        /\ slots = [s \in Profiles \X AuthKinds |-> IF s = <<Stored, row.kind>> THEN StoredSecret ELSE EmptyText]
        /\ connections = rows
        /\ dlg = Closed /\ form = emptyForm /\ busy = FALSE
        /\ revealing = NoReveal /\ submits = {} /\ listing = {}
        /\ formTurns = 0 /\ rechosen = FALSE
-----------------------------------------------------------------------------
DialogOpen == dlg.how # "closed"
FormTurn == formTurns < MaxFormTurns /\ formTurns' = formTurns + 1

\* createConnection, editConnection and duplicateConnection: the dialog keeps the
\* row as the list had it.
OpenDialog(how, p) ==
    /\ ~DialogOpen /\ FormTurn
    /\ how = "new" \/ connections[p] # NoRow
    /\ dlg' = [how |-> how, of |-> IF how = "new" THEN "none" ELSE p,
                  from |-> IF how = "new" THEN NoRow ELSE connections[p], id |-> formTurns']
    /\ form' = FilledForm(dlg') /\ busy' = FALSE /\ rechosen' = FALSE
    /\ UNCHANGED <<rows, slots, connections, revealing, submits, listing>>

\* Cancel waits for a save under way, the cross in the corner does not.  The dialog
\* unmounts: what a reveal still answers is applied to nothing.
CloseDialog ==
    /\ DialogOpen
    /\ dlg' = Closed /\ form' = emptyForm /\ busy' = FALSE /\ revealing' = NoReveal /\ rechosen' = FALSE
    /\ UNCHANGED <<rows, slots, connections, submits, listing, formTurns>>

EditFormMarking(f, again) ==
    /\ DialogOpen /\ FormTurn
    /\ form' = f /\ rechosen' = again
    /\ UNCHANGED <<rows, slots, connections, dlg, busy, revealing, submits, listing>>

EditForm(f) == EditFormMarking(f, rechosen /\ f.passphrase = form.passphrase)

PasswordShown ==
    /\ form.mode = "inline" /\ form.protocol \notin Character
    /\ form.protocol = "ssh" => form.kind = "password"
PassphraseShown == form.mode = "inline" /\ form.protocol = "ssh" /\ form.kind = "private_key"

TypePassword(text) ==
    /\ PasswordShown /\ text # form.password
    /\ EditForm([form EXCEPT !.kind = "password", !.password = text, !.passwordTouched = TRUE])

TypePassphrase(text) ==
    /\ PassphraseShown /\ text # form.passphrase
    /\ EditForm([form EXCEPT !.passphrase = text, !.passphraseTouched = TRUE])

\* The path is typed or chosen in a file dialog.
TypePath ==
    /\ PassphraseShown
    /\ EditForm([form EXCEPT !.path = ~form.path])

\* The desktop tab clears what its new mode does not use, the SSH tab keeps it.
changeCredentialMode(mode) ==
    /\ form.protocol \notin Character /\ mode # form.mode
    /\ IF form.protocol \in Desktop
         THEN EditForm([form EXCEPT
                !.mode = mode, !.credential = mode = "saved" /\ form.credential, !.kind = "password",
                !.password = IF mode = "inline" THEN @ ELSE EmptyText,
                !.passwordTouched = mode = "inline" /\ @,
                !.path = FALSE, !.passphrase = EmptyText, !.passphraseTouched = FALSE])
         ELSE EditForm([form EXCEPT !.mode = mode])

chooseCredential ==
    /\ form.mode = "saved" /\ ~form.credential
    /\ IF form.protocol \in Desktop
         THEN EditForm([form EXCEPT !.credential = TRUE, !.kind = "password", !.password = EmptyText, !.passwordTouched = FALSE])
         ELSE EditForm([form EXCEPT !.credential = TRUE])

WithoutKey(f) == [f EXCEPT !.path = FALSE, !.passphrase = EmptyText, !.passphraseTouched = FALSE]

\* Mutant: the desktop protocols keep the text of the password and drop its flag.
changeProtocol_DropsFlag(protocol) ==
    /\ protocol # form.protocol /\ protocol \in Desktop
    /\ EditForm(WithoutKey([form EXCEPT !.protocol = protocol, !.kind = "password", !.passwordTouched = FALSE]))

changeProtocol(protocol) ==
    /\ protocol # form.protocol
    /\ IF protocol \in Desktop
         THEN EditForm(WithoutKey([form EXCEPT
                !.protocol = protocol, !.credential = form.mode = "saved" /\ @, !.kind = "password",
                !.password = IF form.mode = "inline" THEN @ ELSE EmptyText,
                !.passwordTouched = form.mode = "inline" /\ @]))
       ELSE IF protocol \in Character
         THEN EditForm(WithoutKey([form EXCEPT
                !.protocol = protocol, !.mode = "prompt", !.credential = FALSE, !.kind = "none",
                !.password = EmptyText, !.passwordTouched = FALSE]))
       ELSE EditForm([form EXCEPT
                !.protocol = protocol, !.mode = IF @ = "prompt" THEN "inline" ELSE @,
                !.kind = IF @ = "none" THEN "password" ELSE @])

\* The select offers the kind already chosen too: a passphrase that was typed stays in its
\* field and is not touched any more.
changeInlineAuthKind(kind) ==
    /\ form.protocol = "ssh" /\ form.mode = "inline"
    /\ IF kind = "password"
         THEN EditForm(WithoutKey([form EXCEPT !.kind = kind, !.passwordTouched = TRUE]))
         ELSE EditFormMarking(
                [form EXCEPT !.kind = kind, !.password = EmptyText, !.passwordTouched = FALSE, !.passphraseTouched = FALSE],
                rechosen \/ (form.passphraseTouched /\ form.passphrase # EmptyText))
-----------------------------------------------------------------------------
\* The stored connection a form is about, and the secret its row refers to.
SourceRow(p) == IF p = "none" THEN NoRow ELSE rows[p]
KeptSecret(p, kind) == IF SourceRow(p).ref THEN slots[<<p, kind>>] ELSE EmptyText

\* The eye button of an empty field asks for the stored secret.
revealInlineSecret(kind) ==
    /\ DialogOpen /\ dlg.how # "new" /\ revealing = NoReveal
    /\ IF kind = "password" THEN PasswordShown /\ form.password = EmptyText ELSE PassphraseShown /\ form.passphrase = EmptyText
    /\ revealing' = [step |-> "asked", kind |-> kind, secret |-> EmptyText]
    /\ UNCHANGED <<rows, slots, connections, dlg, busy, form, submits, listing, formTurns, rechosen>>

\* The command answers with the kind it has stored; another kind, or an error, leaves
\* the form as it is.
RevealReads ==
    LET row == rows[dlg.of] IN
    /\ revealing.step = "asked"
    /\ revealing' = IF row.mode = "inline" /\ row.kind = revealing.kind /\ (row.kind = "password" => row.ref)
                      THEN [revealing EXCEPT !.step = "read", !.secret = KeptSecret(dlg.of, row.kind)]
                      ELSE NoReveal
    /\ UNCHANGED <<rows, slots, connections, dlg, busy, form, submits, listing, formTurns, rechosen>>

RevealAnswers ==
    /\ revealing.step = "read"
    /\ form' = IF revealing.kind = "password"
                 THEN [form EXCEPT !.password = revealing.secret, !.passwordTouched = FALSE]
                 ELSE [form EXCEPT !.passphrase = revealing.secret, !.passphraseTouched = FALSE]
    /\ revealing' = NoReveal /\ rechosen' = (rechosen /\ revealing.kind = "password")
    /\ UNCHANGED <<rows, slots, connections, dlg, busy, submits, listing, formTurns>>
-----------------------------------------------------------------------------
\* Telnet and serial connections ask: they keep nothing of the credentials.
CharacterInput(f) ==
    WithoutKey([f EXCEPT
        !.mode = "prompt", !.credential = FALSE, !.kind = "none", !.password = EmptyText, !.passwordTouched = FALSE])

\* What the form sends: the fields its protocol does not use are cleared.
normalizeForSubmit(f) ==
    IF f.protocol \in Desktop
      THEN WithoutKey([f EXCEPT
             !.credential = f.mode = "saved" /\ @,
             !.kind = IF f.mode = "inline" THEN "password" ELSE "none",
             !.password = IF f.mode = "inline" THEN @ ELSE EmptyText,
             !.passwordTouched = f.mode = "inline" /\ @])
    ELSE IF f.protocol \in Character THEN CharacterInput(f) ELSE f

DesktopInput(f) ==
    WithoutKey([f EXCEPT
        !.credential = f.mode = "saved" /\ @,
        !.kind = IF f.mode = "inline" THEN "password" ELSE "none",
        !.password = IF f.mode = "inline" /\ f.passwordTouched THEN Trimmed[@] ELSE EmptyText,
        !.passwordTouched = f.mode = "inline" /\ @])

SshInput(f) ==
    LET password == f.mode = "inline" /\ f.kind = "password"
        key == f.mode = "inline" /\ f.kind = "private_key"
    IN [protocol |-> f.protocol, mode |-> f.mode, credential |-> f.mode = "saved" /\ f.credential,
        kind |-> IF f.mode = "inline" THEN f.kind ELSE "none",
        password |-> IF password /\ f.passwordTouched THEN Trimmed[f.password] ELSE EmptyText,
        passwordTouched |-> password /\ f.passwordTouched,
        path |-> key /\ f.path,
        passphrase |-> IF key /\ f.passphraseTouched THEN Trimmed[f.passphrase] ELSE EmptyText,
        passphraseTouched |-> key /\ f.passphraseTouched]

\* What a save sends on: a secret only when it is touched and of the kind in use, trimmed.
normalizeConnectionInput(f) ==
    IF f.protocol \in Desktop THEN DesktopInput(f)
    ELSE IF f.protocol \in Character THEN CharacterInput(f) ELSE SshInput(f)

\* The secret field of the kind in use, and what the command reads from it.
SecretField(f) == IF f.kind = "password" THEN f.password ELSE f.passphrase
SecretText(input) == Trimmed[SecretField(input)]

\* validate_profile_input: "known" says that the input names a stored connection, its
\* own or the one it duplicates.  A text that is there counts as touched.
Valid(input, known) ==
    /\ input.mode = "saved" => input.credential
    /\ input.mode = "inline" /\ input.kind = "password" =>
         SecretText(input) # EmptyText \/ (~input.passwordTouched /\ known)
    /\ input.mode = "inline" /\ input.kind = "private_key" => input.path

\* Mutant: a secret of another kind is kept.
PreservedRef_AnyKind(row, kind) ==
    IF row.mode # "inline" THEN (IF kind = "password" THEN Refused ELSE NoRef) ELSE [ref |-> row.ref, error |-> FALSE]

\* preserve_inline_secret and copy_inline_secret: only a secret of the same kind is kept.
PreservedRef(row, kind) ==
    IF row.mode # "inline" \/ row.kind # kind
      THEN IF kind = "password" THEN Refused ELSE NoRef
      ELSE IF row.ref THEN [ref |-> TRUE, error |-> FALSE]
                      ELSE IF kind = "password" THEN Refused ELSE NoRef

SecretTouched(input) == IF input.kind = "password" THEN input.passwordTouched ELSE input.passphraseTouched

\* Whether the saved row refers to a secret: a new one, the one of "row", or none.
prepare_inline_secret(input, row) ==
    IF input.mode # "inline" THEN NoRef
    ELSE IF SecretText(input) # EmptyText THEN [ref |-> TRUE, error |-> FALSE]
    ELSE IF SecretTouched(input) THEN NoRef
    ELSE PreservedRef(row, input.kind)

\* The secret a save of the input stores; "of" is the connection edited or duplicated.
SavedSecret(input, of) ==
    IF SecretText(input) # EmptyText THEN SecretText(input)
    ELSE IF prepare_inline_secret(input, SourceRow(of)).ref THEN KeptSecret(of, input.kind) ELSE EmptyText

SaveAccepted(input, of) == Valid(input, of # "none") /\ ~prepare_inline_secret(input, SourceRow(of)).error

\* apply_transient_preserved_inline_secret: the secret a test of the input connects with.
TestedSecret(input, of) ==
    IF SecretText(input) # EmptyText THEN SecretText(input)
    ELSE IF ~SecretTouched(input) /\ SourceRow(of).mode = "inline" /\ SourceRow(of).kind = input.kind
           THEN KeptSecret(of, input.kind) ELSE EmptyText
-----------------------------------------------------------------------------
\* submitWithIntent: a new connection or a duplicate gets an id the backend makes up.
submitWithIntent ==
    /\ DialogOpen /\ ~busy /\ FormTurn /\ busy' = TRUE
    /\ \E to \in IF dlg.how = "edit" THEN {dlg.of} ELSE {p \in Profiles : rows[p] = NoRow} :
         submits' = submits \cup
           {[step |-> "sent", what |-> "save", by |-> dlg.id, to |-> to, of |-> dlg.of,
             input |-> normalizeConnectionInput(normalizeForSubmit(form))]}
    /\ UNCHANGED <<rows, slots, connections, dlg, form, revealing, listing, rechosen>>

\* The tunnels of the connection are stopped before it is deleted.
remove ==
    /\ dlg.how = "edit" /\ ~busy /\ FormTurn /\ busy' = TRUE
    /\ submits' = submits \cup
         {[step |-> "stopping", what |-> "delete", by |-> dlg.id, to |-> dlg.of, of |-> dlg.of, input |-> emptyForm]}
    /\ UNCHANGED <<rows, slots, connections, dlg, form, revealing, listing, rechosen>>

\* A change of the list refills the form of an open dialog and frees its buttons.
Relist(next) ==
    /\ connections' = next
    /\ form' = IF dlg'.how = "closed" THEN emptyForm ELSE FilledForm(dlg')
    /\ busy' = FALSE /\ rechosen' = FALSE

\* The list forgets the connection before the backend does.
TunnelsStopped(s) ==
    /\ s.step = "stopping"
    /\ submits' = (submits \ {s}) \cup {[s EXCEPT !.step = "sent"]}
    /\ UNCHANGED <<rows, slots, dlg, revealing, listing, formTurns>>
    /\ Relist([connections EXCEPT ![s.to] = NoRow])

TunnelsFail(s) ==
    /\ s.step = "stopping"
    /\ submits' = (submits \ {s}) \cup {[s EXCEPT !.step = "failed"]}
    /\ UNCHANGED <<rows, slots, connections, dlg, form, busy, revealing, listing, formTurns, rechosen>>

RowOf(input, ref) ==
    [protocol |-> input.protocol, mode |-> input.mode, kind |-> input.kind, path |-> input.path, ref |-> ref]

\* The secret is written first and the row after it, under one lock.
connection_upsert(s) ==
    LET secret == prepare_inline_secret(s.input, SourceRow(s.of))
        ok == /\ SaveAccepted(s.input, s.of)
              /\ s.of = "none" \/ s.to = s.of \/ rows[s.of] # NoRow
    IN
    /\ s.step = "sent" /\ s.what = "save"
    /\ submits' = (submits \ {s}) \cup {[s EXCEPT !.step = IF ok THEN "done" ELSE "failed"]}
    /\ IF ok
         THEN /\ rows' = [rows EXCEPT ![s.to] = RowOf(s.input, secret.ref)]
              /\ slots' = IF secret.ref THEN [slots EXCEPT ![<<s.to, s.input.kind>>] = SavedSecret(s.input, s.of)]
                                        ELSE slots
         ELSE UNCHANGED <<rows, slots>>
    /\ UNCHANGED <<connections, dlg, form, busy, revealing, listing, formTurns, rechosen>>

connection_delete(s) ==
    LET row == rows[s.to] IN
    /\ s.step = "sent" /\ s.what = "delete"
    /\ submits' = (submits \ {s}) \cup {[s EXCEPT !.step = IF row = NoRow THEN "missing" ELSE "done"]}
    /\ rows' = [rows EXCEPT ![s.to] = NoRow]
    /\ slots' = IF row.ref THEN [slots EXCEPT ![<<s.to, row.kind>>] = EmptyText] ELSE slots
    /\ UNCHANGED <<connections, dlg, form, busy, revealing, listing, formTurns, rechosen>>

\* The answer of a save or of a delete closes the dialog that is open by then; an
\* error leaves it open and frees the buttons of the one it came from.  A connection
\* that was gone already makes the list reload.
SubmitAnswers(s) ==
    /\ s.step \in {"done", "missing", "failed"}
    /\ submits' = submits \ {s}
    /\ IF s.step = "failed"
         THEN /\ busy' = (busy /\ dlg.id # s.by)
              /\ UNCHANGED <<connections, dlg, form, revealing, listing, rechosen>>
         ELSE /\ dlg' = Closed /\ revealing' = NoReveal
              /\ Relist(IF s.what = "save" THEN [connections EXCEPT ![s.to] = rows[s.to]] ELSE connections)
              /\ listing' = IF s.step = "missing" THEN listing \cup {[of |-> Profiles, rows |-> rows]} ELSE listing
    /\ UNCHANGED <<rows, slots, formTurns>>

\* markConnected, setFavorite and probeSystem read one connection, reload reads all.
ReadList(of) ==
    /\ FormTurn
    /\ listing' = listing \cup {[of |-> of, rows |-> rows]}
    /\ UNCHANGED <<rows, slots, connections, dlg, form, busy, revealing, submits, rechosen>>

\* Their answer replaces what the list still shows; only reload adds or removes.
ListAnswers(l) ==
    /\ listing' = listing \ {l}
    /\ UNCHANGED <<rows, slots, dlg, revealing, submits, formTurns>>
    /\ Relist([p \in Profiles |->
                 IF l.of = Profiles THEN l.rows[p]
                 ELSE IF p \in l.of /\ connections[p] # NoRow THEN l.rows[p] ELSE connections[p]])

FormNext ==
    \/ \E how \in {"new", "edit", "duplicate"}, p \in Profiles : OpenDialog(how, p)
    \/ CloseDialog
    \/ \E text \in SecretTexts : TypePassword(text) \/ TypePassphrase(text)
    \/ TypePath
    \/ \E mode \in Modes : changeCredentialMode(mode)
    \/ chooseCredential
    \/ \E protocol \in Protocols : changeProtocol(protocol)
    \/ \E kind \in AuthKinds : changeInlineAuthKind(kind) \/ revealInlineSecret(kind)
    \/ RevealReads \/ RevealAnswers
    \/ submitWithIntent \/ remove
    \/ \E s \in submits :
         \/ TunnelsStopped(s) \/ TunnelsFail(s)
         \/ connection_upsert(s) \/ connection_delete(s) \/ SubmitAnswers(s)
    \/ \E p \in Profiles : ReadList({p})
    \/ ReadList(Profiles)
    \/ \E l \in listing : ListAnswers(l)

FormSpec == FormInit /\ [][FormNext]_formVars

-----------------------------------------------------------------------------
(* A connection that logs in with a password of its own has that password in the vault:
   no sequence of edits, duplicates, changes of protocol and back, or late answers
   leaves one that could only fail with secret_missing. *)
PasswordIsStored ==
    \A p \in Profiles :
        rows[p].mode = "inline" /\ rows[p].kind = "password" =>
            rows[p].ref /\ slots[<<p, "password">>] # EmptyText

(* The form is honest while no save is under way: what its secret field shows, without the
   spaces around it, is what a save would store, a field that was emptied or blanked clears
   the secret, an untouched empty field keeps the one the connection had, and the test
   button connects with that same secret.  A passphrase typed before its kind was chosen
   again is the exception: the field shows it and a save leaves it out. *)
ShownIsSaved ==
    LET sent == normalizeForSubmit(form)
        input == normalizeConnectionInput(sent)
        shown == Trimmed[SecretField(sent)]
    IN  DialogOpen /\ submits = {} /\ ~rechosen /\ sent.mode = "inline" /\ SaveAccepted(input, dlg.of) =>
            /\ SavedSecret(input, dlg.of) =
                 IF shown # EmptyText THEN shown
                 ELSE IF SecretTouched(sent) \/ SourceRow(dlg.of).kind # sent.kind THEN EmptyText
                 ELSE KeptSecret(dlg.of, sent.kind)
            /\ sent.protocol = "ssh" => TestedSecret(sent, dlg.of) = SavedSecret(input, dlg.of)
=============================================================================
