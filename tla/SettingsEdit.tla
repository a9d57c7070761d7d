------------------------------ MODULE SettingsEdit ------------------------------
(***************************************************************************)
(* The Settings tab (settings_state.rs): fields that are edited as text,   *)
(* one buffer that is read and validated by Enter, and the state file      *)
(* every change is saved to.  A finished download or a finished swap of    *)
(* models selects a runtime profile, which replaces the launch settings    *)
(* (app.rs), also while a buffer is open; the buffer stays as it is.       *)
(*                                                                         *)
(* A text is a sequence of tokens, each a run of plain characters or one   *)
(* special character, and a value is the text it is shown as; the extra    *)
(* arguments are a sequence of texts.  Escape sequences of a terminal and  *)
(* the keys that change no setting are left out.  Onboarding, the choice   *)
(* of a runtime in the Models tab and a start with a bundle write settings *)
(* too, but none of them while there is a buffer: every key goes to it.    *)
(***************************************************************************)
EXTENDS Naturals, Sequences

CONSTANTS
  FieldOrder,    \* the fields of the tab, in order
  TextToken,     \* what texts are made of
  Token,         \* what may be typed into each field
  LoadedSetting, \* the settings a state file may hold
  ProfileSetting,   \* those of the runtime profiles, for the models they are for
  MaxText,       \* tokens in a buffer (a bound)
  MaxConfirms       \* edits that are confirmed (a bound)

Blank == "_"
Special == {Blank, "'", "\"", "\\"}
NoEdit == <<"none">>

NumberField ==
  {"port", "ctx_size", "n_gpu_layers", "batch_size", "ubatch_size", "threads"}

SettingsField ==
  {"build_runtime", "runtime", "host", "flash_attn", "mlock", "api_key", "jinja",
   "chat_template", "extra_args"} \union NumberField

IsBool(f) == f \in {"flash_attn", "mlock", "jinja"}

Fields == {FieldOrder[i] : i \in DOMAIN FieldOrder}

\* The values of a field: texts, the sequences of them, or what is a single token.
ValueOf(f) ==
  IF f = "extra_args" THEN Seq(Seq(TextToken))
  ELSE IF f \in {"host", "api_key", "chat_template"} THEN Seq(TextToken)
  ELSE {<<x>> : x \in TextToken \ {Blank}}

ASSUME SettingsAssumption ==
  /\ FieldOrder \in Seq(SettingsField) /\ FieldOrder # <<>>
  /\ \A i, j \in DOMAIN FieldOrder : FieldOrder[i] = FieldOrder[j] => i = j
  /\ Special \union {"true", "false"} \subseteq TextToken /\ "none" \notin TextToken
  /\ \A f \in Fields : Token[f] \subseteq TextToken
  /\ \A s \in LoadedSetting \union ProfileSetting :
       s = [f \in Fields |-> s[f]] /\ \A f \in Fields : s[f] \in ValueOf(f)
  /\ MaxText \in Nat /\ MaxConfirms \in Nat

VARIABLES
  settings, \* the values the panel holds
  stored,   \* those in the state file
  place,    \* selected_settings_field
  buffer,   \* settings_edit_buffer
  rejected, \* settings_validation_error
  confirms,    \* confirmed edits
  opened,   \* history: the field the buffer was opened for
  shown,    \* history: what the field held then, while there is a buffer
  typed     \* history: whether a key was typed since

settingsVars ==
  <<settings, stored, place, buffer, rejected, confirms, opened, shown, typed>>

--------------------------------------------------------------------------------

\* A text without the blanks around it.
Trim(t) ==
  LET kept == {i \in DOMAIN t : t[i] # Blank}
      start == CHOOSE i \in kept : \A j \in kept : i <= j
      end == CHOOSE i \in kept : \A j \in kept : j <= i
  IN IF kept = {} THEN <<>> ELSE SubSeq(t, start, end)

(* Numbers as they are printed.  Each field takes a range of them, within    *)
(* the width of its type; the tokens at the ends of the ranges stand for all *)
(* the others.                                                               *)
Numeral ==
  [n \in {"-1", "0", "1", "999", "1000", "1024", "1025", "65535", "65536", "65537",
          "1048576", "1048577"} |->
     CASE n = "-1" -> 0 - 1      [] n = "0" -> 0         [] n = "1" -> 1
       [] n = "999" -> 999       [] n = "1000" -> 1000   [] n = "1024" -> 1024
       [] n = "1025" -> 1025     [] n = "65535" -> 65535 [] n = "65536" -> 65536
       [] n = "65537" -> 65537   [] n = "1048576" -> 1048576
       [] n = "1048577" -> 1048577]

InNumberRange(f, n) ==
  CASE f = "port"                          -> 1 <= n /\ n <= 65535
    [] f = "ctx_size"                      -> 1 <= n /\ n <= 1048576
    [] f = "n_gpu_layers"                  -> 0 - 1 <= n /\ n <= 999
    [] f \in {"batch_size", "ubatch_size"} -> 1 <= n /\ n <= 65536
    [] f = "threads"                       -> 1 <= n /\ n <= 1024

(* A host name is a run of letters, digits and hyphens with no hyphen first. *)
ValidHost(t) ==
  /\ t # <<>> /\ t[1] # "-1"
  /\ \A i \in DOMAIN t : t[i] \notin Special

(* Words that blanks separate, as a shell reads them: quotes join, a         *)
(* backslash takes the next character as it is, and a word of no characters  *)
(* is dropped even if it was quoted.                                         *)
WordStep(s, c) ==
  LET Word(w) == [words |-> s.words, word |-> w, quote |-> s.quote, escaped |-> FALSE]
      Quote(q) == [words |-> s.words, word |-> s.word, quote |-> q, escaped |-> FALSE]
  IN IF s.escaped THEN Word(Append(s.word, c))
     ELSE IF s.quote = "" /\ c \in {"'", "\""} THEN Quote(c)
     ELSE IF s.quote # "" /\ c = s.quote THEN Quote("")
     ELSE IF s.quote = "" /\ c = Blank
          THEN [words |-> IF s.word = <<>> THEN s.words ELSE Append(s.words, s.word),
                word |-> <<>>, quote |-> "", escaped |-> FALSE]
     ELSE IF c = "\\" THEN [words |-> s.words, word |-> s.word, quote |-> s.quote, escaped |-> TRUE]
     ELSE Word(Append(s.word, c))

NoWords == [words |-> <<>>, word |-> <<>>, quote |-> "", escaped |-> FALSE]

SplitShellWords(t) ==
  LET read[n \in 0 .. Len(t)] == IF n = 0 THEN NoWords ELSE WordStep(read[n - 1], t[n])
      s == read[Len(t)]
  IN [ok    |-> ~s.escaped /\ s.quote = "",
      value |-> IF s.word = <<>> THEN s.words ELSE Append(s.words, s.word)]

--------------------------------------------------------------------------------

ArgumentsText(words) ==
  LET joined[n \in 0 .. Len(words)] ==
        IF n = 0 THEN <<>>
        ELSE IF n = 1 THEN words[1]
        ELSE Append(joined[n - 1], Blank) \o words[n]
  IN joined[Len(words)]

TextOf(f, v) == IF f = "extra_args" THEN ArgumentsText(v) ELSE v

\* Mutant: an edit begins with what is shown of the key.
FieldMasked(f) ==
  IF f = "api_key" /\ settings[f] # <<>> THEN <<"********">>
  ELSE TextOf(f, settings[f])

(* settings_field_value: what is shown, and what an edit begins with. *)
FieldValue(f) == TextOf(f, settings[f])

(* validate_setting: whether a text is a value of the field, and which one. *)
ValidateSetting(f, t) ==
  LET word == Trim(t)
      OneOf(S) == Len(word) = 1 /\ word[1] \in S
  IN CASE f = "build_runtime" -> [ok |-> OneOf({"upstream", "prism"}), value |-> word]
       [] f = "runtime"       -> [ok |-> OneOf({"auto", "upstream", "prism"}), value |-> word]
       [] f = "host"          -> [ok |-> ValidHost(word), value |-> word]
       [] f \in NumberField   -> [ok |-> /\ OneOf(DOMAIN Numeral)
                                        /\ InNumberRange(f, Numeral[word[1]]),
                                  value |-> word]
       [] IsBool(f)           -> [ok |-> OneOf({"true", "false"}), value |-> word]
       [] f = "extra_args"    -> SplitShellWords(t)
       [] OTHER               -> [ok |-> TRUE, value |-> t]

--------------------------------------------------------------------------------

(* Settings once a profile is selected: its own, but for the address and     *)
(* for the runtimes, which are none of a profile's settings.                 *)
Tuned(s, p) ==
  [f \in Fields |-> IF f \in {"build_runtime", "runtime", "host", "port"} THEN s[f] ELSE p[f]]

(* The panel starts with what is stored, or with the profile of the model    *)
(* used last.                                                                *)
Loaded(s) == {s} \union {Tuned(s, p) : p \in ProfileSetting}

SettingsInit ==
  /\ stored \in LoadedSetting /\ settings \in Loaded(stored)
  /\ place = 1 /\ buffer = NoEdit /\ rejected = FALSE
  /\ confirms = 0 /\ opened = 1 /\ shown = NoEdit /\ typed = FALSE

Editing == buffer # NoEdit
Selected == FieldOrder[place]

(* save_state_after: the whole state is written, or it fails and the panel *)
(* goes on with what it holds.                                             *)
Save(values) == stored' \in {values, stored}

NextField ==
  /\ ~Editing
  /\ place' = (place % Len(FieldOrder)) + 1
  /\ UNCHANGED <<settings, stored, buffer, rejected, confirms, opened, shown, typed>>

PreviousField ==
  /\ ~Editing
  /\ place' = IF place = 1 THEN Len(FieldOrder) ELSE place - 1
  /\ UNCHANGED <<settings, stored, buffer, rejected, confirms, opened, shown, typed>>

ToggleField ==
  /\ ~Editing /\ IsBool(Selected) /\ confirms < MaxConfirms
  /\ settings' = [settings EXCEPT ![Selected] =
                     IF settings[Selected] = <<"true">> THEN <<"false">> ELSE <<"true">>]
  /\ Save(settings') /\ confirms' = confirms + 1
  /\ UNCHANGED <<place, buffer, rejected, opened, shown, typed>>

OpenEdit ==
  /\ ~Editing /\ confirms < MaxConfirms
  /\ buffer' = FieldValue(Selected)
  /\ opened' = place /\ shown' = settings[Selected] /\ typed' = FALSE
  /\ UNCHANGED <<settings, stored, place, rejected, confirms>>

KeyChar ==
  /\ Editing /\ Len(buffer) < MaxText
  /\ \E c \in Token[Selected] : buffer' = Append(buffer, c)
  /\ typed' = TRUE
  /\ UNCHANGED <<settings, stored, place, rejected, confirms, opened, shown>>

KeyBackspace ==
  /\ Editing /\ buffer # <<>>
  /\ buffer' = SubSeq(buffer, 1, Len(buffer) - 1) /\ typed' = TRUE
  /\ UNCHANGED <<settings, stored, place, rejected, confirms, opened, shown>>

(* Esc leaves the message about an earlier text in place. *)
CancelEdit ==
  /\ Editing /\ buffer' = NoEdit /\ shown' = NoEdit
  /\ UNCHANGED <<settings, stored, place, rejected, confirms, opened, typed>>

ApplyEdit ==
  /\ Editing /\ confirms < MaxConfirms
  /\ LET entered == ValidateSetting(Selected, buffer)
     IN IF entered.ok
        THEN /\ settings' = [settings EXCEPT ![Selected] = entered.value]
             /\ Save(settings') /\ confirms' = confirms + 1
             /\ buffer' = NoEdit /\ shown' = NoEdit /\ rejected' = FALSE
        ELSE /\ rejected' = TRUE
             /\ UNCHANGED <<settings, stored, confirms, buffer, shown>>
  /\ UNCHANGED <<place, opened, typed>>

(* The key that saves, or an event of a probe or a build, which saves        *)
(* whatever is being edited.                                                 *)
SaveSettings ==
  /\ Save(settings)
  /\ UNCHANGED <<settings, place, buffer, rejected, confirms, opened, shown, typed>>

(* select_model_path for a model with a profile: by a download or a swap     *)
(* that ends, whatever is being edited, or by a key of another tab.          *)
ProfileSelected ==
  /\ \E p \in ProfileSetting : settings' = Tuned(settings, p)
  /\ Save(settings')
  /\ UNCHANGED <<place, buffer, rejected, confirms, opened, shown, typed>>

(* The panel ends and is started again. *)
RestartPanel ==
  /\ settings' \in Loaded(stored)
  /\ place' = 1 /\ buffer' = NoEdit /\ shown' = NoEdit /\ rejected' = FALSE
  /\ UNCHANGED <<stored, confirms, opened, typed>>

SettingsNext ==
  \/ NextField \/ PreviousField \/ ToggleField \/ OpenEdit \/ KeyChar \/ KeyBackspace
  \/ CancelEdit \/ ApplyEdit \/ SaveSettings \/ ProfileSelected \/ RestartPanel

SettingsSpec == SettingsInit /\ [][SettingsNext]_settingsVars

--------------------------------------------------------------------------------

Plain(f, v) ==
  CASE f = "extra_args" -> \A i \in DOMAIN v :
                             v[i] # <<>> /\ \A j \in DOMAIN v[i] : v[i][j] \notin Special
    [] f = "host"       -> Trim(v) = v
    [] OTHER            -> TRUE

(* An edit that is opened and confirmed with nothing typed puts back what    *)
(* the field held when it was opened, and leaves the other fields as they    *)
(* are by then, if the arguments have no blank, quote or backslash (they are *)
(* shown with blanks between them and read as a shell would) and the host no *)
(* blanks around it.  So it changes nothing, unless a profile was selected   *)
(* in between: then the older value of the one field comes back.             *)
LookingPutsBackWhatWasHeld ==
  [][Editing /\ ~typed /\ confirms' # confirms /\ Plain(Selected, shown)
       => settings' = [settings EXCEPT ![Selected] = shown]]_settingsVars

(* What is typed goes to the field the edit was opened for, and to no other: *)
(* nothing moves the selection while there is a buffer, and what a profile   *)
(* has replaced meanwhile stays.                                             *)
EnteredWhereOpened ==
  [][Editing /\ confirms' # confirms =>
       \A f \in Fields : settings'[f] # settings[f] => f = FieldOrder[opened]]_settingsVars

(* What is kept of an edit is what was entered, where it was entered. *)
EditsAreMeant == LookingPutsBackWhatWasHeld /\ EnteredWhereOpened

================================================================================
