----------------------------- MODULE Sequential -----------------------------
(***************************************************************************)
(* The smaller components side by side, each with constants and variables  *)
(* of its own: the rate limit, the configuration, the size of a request,   *)
(* the text of an answer, the quality events, and the provider that serves *)
(* the editor.  They share no state: a behaviour is about one of them, and *)
(* the variables of the others are idle.                                   *)
(***************************************************************************)
EXTENDS TokenBucket

CONSTANTS
    Unset, Garbage, Numbers, Environments,                                   \* Configuration
    Documents, Sources, Widths, SignalWidths, Settings, Focuses, Modes,      \* CompletionRequest
    Letters, Blank, Break, Fence, Announcement, Foreign, Inputs,             \* CompletionText
    MaxLines, MaxChars,
    Completions, Bucket, Percents, Recordings, Retention, Days, Day,         \* QualityEvents
    MaxNow, MaxEvents,
    Calls, Positions, MaxPlans, MaxVersion                                   \* InlineCompletion

VARIABLES
    component,   \* Static: what the behaviour is about
    at, config,
    stage, settings, focus, mode, windows, files, timedOut, signals, request,
    prefix, suffix, intent, raw, text,
    insights, shown, context, lastShown, wire, serial, server, table, now, report, lost,
    version, enabled, call, lookup, plans, items

Config == INSTANCE Configuration
Request == INSTANCE CompletionRequest WITH context <- windows, wire <- request
Text == INSTANCE CompletionText
Quality == INSTANCE QualityEvents
Inline == INSTANCE InlineCompletion

ASSUME ComponentsAssumption ==
    /\ Config!NumbersAssumption
    /\ Request!LengthAssumption /\ Request!WidthAssumption /\ Request!SettingsAssumption
    /\ Text!SignsAssumption /\ Text!InputsAssumption /\ Text!LimitAssumption
    /\ Quality!BucketAssumption /\ Quality!ServerAssumption /\ Quality!TimeAssumption
    /\ Quality!NoneAssumption
    /\ Inline!PlansAssumption /\ Inline!VersionAssumption

-----------------------------------------------------------------------------

BucketIdle == store = "memory" /\ Init

ConfigIdle == at = "idle" /\ config = "idle"

RequestIdle ==
    /\ stage = "idle" /\ settings = "idle" /\ focus = "idle" /\ mode = "idle" /\ windows = "idle"
    /\ files = "idle" /\ timedOut = "idle" /\ signals = "idle" /\ request = "idle"

TextIdle == prefix = "idle" /\ suffix = "idle" /\ intent = "idle" /\ raw = "idle" /\ text = "idle"

QualityIdle ==
    /\ insights = "idle" /\ shown = "idle" /\ context = "idle" /\ lastShown = "idle" /\ wire = "idle"
    /\ serial = "idle" /\ server = "idle" /\ table = "idle" /\ now = "idle" /\ report = "idle"
    /\ lost = "idle"

InlineIdle ==
    /\ version = "idle" /\ enabled = "idle" /\ call = "idle" /\ lookup = "idle" /\ plans = "idle"
    /\ items = "idle"

configVars == <<at, config>>
requestVars == <<stage, settings, focus, mode, windows, files, timedOut, signals, request>>
textVars == <<prefix, suffix, intent, raw, text>>
qualityVars == <<insights, shown, context, lastShown, wire, serial, server, table, now, report, lost>>
inlineVars == <<version, enabled, call, lookup, plans, items>>
allVars == <<component, vars, configVars, requestVars, textVars, qualityVars, inlineVars>>

ComponentsInit ==
    /\ component \in {"bucket", "config", "request", "text", "quality", "inline"}
    /\ IF component = "bucket" THEN Init ELSE BucketIdle
    /\ IF component = "config" THEN Config!Init ELSE ConfigIdle
    /\ IF component = "request" THEN Request!Init ELSE RequestIdle
    /\ IF component = "text" THEN Text!Init ELSE TextIdle
    /\ IF component = "quality" THEN Quality!Init ELSE QualityIdle
    /\ IF component = "inline" THEN Inline!Init ELSE InlineIdle

ComponentsNext ==
    /\ UNCHANGED component
    /\ IF component = "bucket" THEN Next ELSE UNCHANGED vars
    /\ IF component = "config" THEN Config!Next ELSE UNCHANGED configVars
    /\ IF component = "request" THEN Request!Next ELSE UNCHANGED requestVars
    /\ IF component = "text" THEN Text!Next ELSE UNCHANGED textVars
    /\ IF component = "quality" THEN Quality!Next ELSE UNCHANGED qualityVars
    /\ IF component = "inline" THEN Inline!Next ELSE UNCHANGED inlineVars

ComponentsSpec == ComponentsInit /\ [][ComponentsNext]_allVars

-----------------------------------------------------------------------------
(* Properties: the components' own *)

\* What starts is protected in production, has sections that fit together, and gives the
\* fallback the time-out of the primary provider (config.go).
StartsSound == component = "config" => Config!StartsSound

\* Source text the extension sends is never too long for the API, in any script
\* (toApiCompletionRequest against Validate).
SourceTextIsAccepted == component = "request" => Request!SourceTextIsAccepted

\* An answer that needs no repair reaches the editor as it is (sanitizer.go).
CleanIsUntouched == component = "text" => Text!CleanIsUntouched

\* A fenced answer counts as what stands between its fences (stripFence).
FencedAsPlain == component = "text" => Text!FencedAsPlain

\* Unless events are lost, every recorded acceptance or vote has its "shown" event
\* (qualityReporter.ts, handlers/quality.go).
PairsArrive == component = "quality" => Quality!PairsArrive

\* The parts of an administrator's report fit together (quality_repository.go).
ReportAddsUp == component = "quality" => Quality!ReportAddsUp

\* An item handed to the editor, and its import, fit the text as it is then
\* (inlineCompletionProvider.ts).
ItemsFitTheText == component = "inline" => Inline!ItemsFitTheText
=============================================================================
