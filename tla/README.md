# A verification development for scall

scall is a forwarding HTTP service: restbed takes requests in, a client built on libcurl sends them on,
signed or not, to a target.  This directory holds TLA+ models of what the repository contains of it,
TLC configurations that check them on small instances, and TLAPS proofs that hold for every instance.

    tlc -config <X>.cfg <MC module>      # the pairs are in the table of runs below
    tlapm <X>Proofs.tla

## 1. The system

| Component | Source | State | Operations |
|---|---|---|---|
| HTTP client | `deps/restclient-cpp/source/connection.cc` | settings, an easy handle and its options, `lastRequest`, the error buffer, the logger | setters, eight verbs, `performCurlRequest`, `SetLogger`, `Terminate` |
| its callbacks | `.../helpers.cc` | the `Response` and `UploadObject` of a request | `write_callback`, `header_callback`, `read_callback` |
| its simple API | `.../restclient.cc` | libcurl's global initialisation | `init`, `disable`, one call per verb |
| client logging | `src/restclient/*.cpp` | the piece `log` is trimming | `log_response`, `Log4cplus_logger::log` |
| correlation rule | `src/imp/app/restbed/log_correlation_rule.cpp` | the MDC of the thread | `action` |
| request log | `src/imp/app/restbed/message_log.cpp` | none | `log_request_message`, `log_request_body` |
| signatures | `src/imp/crypto/openssl_sign.cpp`, `digest.cpp` | an `EVP_MD_CTX`, a result buffer, its length; a key and the file it is read from | constructor, `update`, `finish`, `get_result`, destructor; `calculate_hmac_base64`, `pkey_from_file`; `digest` |
| Base64 | `src/imp/crypto/base64.cpp` | none | `base64_encode`, `base64_decode` |
| configuration | `src/imp/app/app_config.cpp` | one field per key | `set_config`, `get_restbed_settings`, `get_restbed_ssl_settings` |
| start-up | `src/main.cpp` | the exit code, libcrypto and libcurl | `read_config`, `main` |
| toolbox | `src/imp/toolbox/toolbox.cpp`, `toolbox.tcc` | none | dates, amounts, texts, lists and maps in text, i18n |
| log set-up, stopwatch, log adapter, ready handler | several | none worth a model | see "Not modelled" |
| forwarding service, request signer | `imp/scall`: **not in the repository** | | |

How they interact: `main` reads the configuration into the singleton `App_config`, initialises libcurl and
starts restbed with settings made of it.  restbed runs the correlation rule and the handler of a request on a
worker thread; what the handler does after it asked for the body runs later, on any worker.  A handler uses
a `Connection` of its own; libcurl calls back into it while a request runs.

What is hard here, and to test: options left on a handle that is used again; pointers a handle keeps to objects
of a finished request; settings changed from the progress callback of a running one; failures after half an
answer; lines logged by a thread that belongs to somebody else by then; what a throwing constructor leaves behind;
a configuration half applied.  `PROJECT.json` lists each under "hazards" at its line, with the property that would
catch it or the reason why none does.

What makes each correct: a request says what its call asked for and an answer is of its request (client); every line
shows the id of its request as far as the rule can see to it (correlation); a signature covers what was given and
memory, files and keys are accounted for (signing); a service that runs, runs on the whole of its file, and the exit code tells
how it went (start-up); what is written is read back, and a loop over a text ends (toolbox, Base64, the curl logger).

## 2. The modules

| Module | Models | Run by |
|---|---|---|
| `RequestTypes` | settings, requests, what a configuration means for a transfer | all of the client |
| `HttpExchange` | abstract: what a `Connection` promises, no handle in sight | refinement |
| `Connection` | `connection.cc`, `helpers.cc`; libcurl and the server as environment | `MCConnection` |
| `ConnectionProofs`, `AnswerProofs` | proofs about `Connection` | tlapm |
| `Correlation`, `CorrelationProofs` | the rule and the request log, on several workers | `MCCorrelation`, tlapm |
| `Signing` | `Openssl_digest_sign`, `calculate_hmac_base64`, `pkey_from_file` and `digest` | `MCToolbox`, `MCSigning` |
| `Startup`, `StartupProofs` | `main.cpp`, `app_config.cpp` | `MCStartup`, tlapm |
| `Calendar` | dates of `toolbox.cpp` | `MCToolbox` |
| `Amount` | its amounts | `MCToolbox` |
| `NumberProofs` | proofs about `Calendar` and `Amount` | tlapm |
| `Strings` | the text functions of `toolbox.cpp` and `toolbox.tcc` that are plain functions | through `SplitQuoted` |
| `SplitQuoted` | `split_quoted`, and what the functions of `Strings` make of its lists | `MCToolbox` |
| `Replacing` | `replace_all` | `MCToolbox` |
| `TextProofs` | proofs about `SplitQuoted`, `Strings`, `Replacing` and `Emplace` | tlapm |
| `Emplace` | `emplace`, `i18n_to_string` | `MCToolbox` |
| `Base64` | `base64.cpp` | `MCToolbox` |
| `CurlLogger` | `src/restclient/logger.cpp` | `MCToolbox` |
| `CodingProofs` | proofs about `Base64`, `CurlLogger` and `Signing` | tlapm |
| `Induction` | rules of induction and recursion that the proofs share | tlapm |

**Connection.**  A request takes many steps: a verb (`Get`, `GetInto`, `Post`, `Put`, `Patch`, `Del`, `HeadCall`,
`OptionsCall`) sets its options and, in the same step, everything `performCurlRequest` does up to
`curl_easy_perform`: nothing can happen in between.  Then come the callbacks (`SendUpload`, `InterimHead`,
`Redirected`, `FinalHead`, `WriteCallback`), the ways a transfer ends (`TransferDone`, `TransferFails`, `TimesOut`,
`RedirectFails`), and `Finish`, the rest of `performCurlRequest`.  A redirect repeats the request; since the code sets
`CURLOPT_FOLLOWLOCATION` and never `CURLOPT_POSTREDIR`, libcurl goes on with a GET instead, without the body, after a 301, 302 or
303 to a POST and a 303 to an upload (`DroppingStatus`; `xfer.via` remembers the statuses).  On a terminated connection every call throws;
`get(url, &response)` has cleared its caller's structure by then (`GetIntoThrows`), the others have changed nothing that anybody
can see.  `opt` holds the options of the easy handle,
those set under a condition keeping what the handle has; `OnWire` says which request libcurl makes of them.  `asked` is
a history variable: what the call asked for when it was made.  Setters act between requests or, if the handle has a
progress callback, during one.  Strings that are only copied are members of a small set; a header is a line and
a count, a body piece is the request it belongs to and its number.  `Connection` refines `HttpExchange`, where a call
puts a request on the wire and one answer, well coded, comes back, and a terminated connection may take the last answer back (`Refuse`).

**Correlation.**  `RuleAction` is the whole of `action` up to the callback, after which the handler runs on the same
worker below the rule (`inline`).  `FetchBody` either goes on at once, when the body is in, or gives the worker back;
`BodyArrives` continues on any free worker, where the rule has not run.  Lines are a set of records: whose the line is and
which id it shows.

**Signing.**  Every OpenSSL call may fail; failures inside the constructor and `digest` lose a context, others
unwind through the destructor.  A signer is updated, finished once and then read: the order its asserts on `m_finished` ask for is a
guard in both kinds of build, and what other orders would do without asserts is not modelled.  `Asserts` tells builds with assertions from those without.  A signer belongs to a `scope`:
its caller's, or that of `calculate_hmac_base64`, which updates once, finishes, reads and leaves.  The key comes from
`pkey_from_file` (`OpenKeyFile`, `ReadKey`, `ReadKeyFails`, `LeaveLoading`), whose file and key go with their scopes; a caller may
let go of it (`ReleaseKey`) while a signer made with it is alive, since the context has a reference of its own.

**Startup.**  `Reads` is the sequence of lookups in `set_config`.  `SetConfig` applies all of them up to the first
that throws.  A number is cut to the width of its field: a port to 16 bits, a `uint` to `UintRange` values, the timeout, read into a
`uint64_t`, to a signed number of the same width (`LongHalf`); nlohmann::json makes a number of a boolean for the first two and throws for
the third.  `keys_dir` gets its slash (for an empty string, where the code's look at the
last character is undefined, with or without), `verify_host` starts with any value, as its constructor leaves it.  `InitCrypto`
and `Leave` bracket it all with libcrypto's start and end.  `SetExitCode` is the last statement of each of the four handlers of `main`;
after the first (`InitializationFails`) it is that code which keeps the service from being started, and `ended` tells which of them
caught something.

**Toolbox.**  A clock walks through the days by the rules of the calendar next to a plain count of days; the code's
functions must agree with the count, those on local time with the count and the host's zone.  A year has four digits, since the code
reads it from four characters and the rest of a date from the places behind, and passes through a `short` (`is_leap_year`).  Amounts are written and read as
sequences of character codes; `std::stoll` throws beyond the width of an amount (`MaxAmount`).  `split_quoted` takes one step per character, on lists a peer wrote with quotes and escapes; at its
end the functions of `Strings` are applied to the list and to what was found in it, each as an operator that gives `<<>>` where the
code throws.  `replace_all` takes one step per occurrence.  `emplace` and the two `i18n_to_string` take one step per parameter,
in the order of their container; they differ in where base and parameters come from (`CallEmplace`, `CallI18nVector`,
`CallI18nMap`, and `CallWithoutBase` for a vector or a map that has none).

**Base64.**  The coding of three bytes as four characters is written out, as OpenSSL's.  `base64_encode` may return a beginning of
the text (nobody looks at what `BIO_write` says), a peer may cut it, and `base64_decode` reads what there is into the room it
reserved.

**CurlLogger.**  One step per newline trimmed.  The bytes before and after the data are any: the loop reads one of them.

These parts, and `Signing`, share nothing: `MCToolbox` picks one of them for each behaviour, so their states add up and do not multiply.

## 3. What is checked

| Run | Shows |
|---|---|
| `ConnectionSettings.cfg` (`MCConnection`) | `WireIsAsked`: verb, url, body and every setting on the wire are those of the call; `IdleHandleClean`: nothing stays on the handle |
| `ConnectionTransfers.cfg` | `ResponseOfThisRequest`, `AnswerClassified`, `ErrorTextIsOwn`, `AcceptedBodyIsWhole` (whole, or dropped whole by a redirect), and `ImplementsExchange` |
| `ConnectionCallbacks.cfg` | `WireIsAsked` and `DebugDataLive` with settings and loggers changed during a transfer; `TimeoutEndsRequest` with the limit changed and taken away by the progress callback |
| `Correlation.cfg` (`MCCorrelation`) | `InlineLinesOwn`, `GeneratedIdAnnounced` |
| `Startup.cfg` (`MCStartup`) | `RunsOnTheWholeFile`: each value found is of a type its field takes, and the field is that value if it can hold it; `PlainHttpAsConfigured`; `ExitCodeTells`: success is reported exactly if no handler caught anything; `MainGoesOn`: no file keeps `main` from serving or returning |
| `Toolbox.cfg` (`MCToolbox`) | dates: `WrittenTimeReadBack`, `DateCoversItsDay`, `LocalReadOffByZone`, `TodayIsAnyDay`; amounts: `AmountReadBack`, `PeerAmountExact`; texts: `EntriesFound`, `ListReadBack`, `ParametersReadBack`, `UnquotedKeepsTheQuotes`, `QuotedPairSplit`, `JoinedListSplits`, `LookupsAgree`, `EachReplacedOnce`, `LessToSearch`, `PlacesTakeTheirTexts`; Base64: `DecodeUndoesEncode`, `WholeGroupsComeBack`; the curl logger: `LinesAreThePieces`; signatures: `SignatureOfAllGiven`, `MemoryAccountedFor`, `KeyAccountedFor` |

Several of these say what the code does where a reader would expect something else, so that nobody relies on more: local times read
back off by the zone, `is_today` true of any day, `unquote` leaving the quotes on, an upload accepted without its body after a redirect, a number kept in part, a decoder that does not report a short text.

Six runs show a disagreement between the code and what a comment, an assertion or the documentation says:

* `ConnectionLogger.cfg`: `curl_easy_reset` after a request drops what `SetLogger` set; only the first request of a
  connection is logged.
* `ConnectionRedirectHeaders.cfg`: after a redirect or a `100 Continue` the headers of several responses are returned as one.
* `CorrelationAfterFetch.cfg`: a line written after the body was fetched shows the id of another request, or none.
* `SigningAsserts.cfg`: `assert(m_result_length == vlen)` fails for EC and DSA keys, whose signatures are often shorter than
  announced; without assertions the code handles them right.
* `StartupTls.cfg`: the documented `tlsv12_enabled` and its siblings are ignored; the code looks for `tlsv12Enabled`.
* `ToolboxDuplicate.cfg`: of two equal keys `to_map` keeps the first, where `toolbox.cpp:322` says "results in error if duplicated".

Met on the way, without a run: a custom user agent replaces the library's token (`connection.h:192` says it is followed by
it); `connection_timeout` is documented in seconds (`README.md:118`), read as milliseconds (`app_config.cpp:366`) and, like
`connection_limit`, `compressionEnabled` and the Diffie-Hellman switch, never given to restbed; the README's `m_path_max_depth` is looked for
as `path_max_depth`; with `https.enabled` false, plain HTTP is served even if `http.enabled` is false; `"enabled": "true"`
as in the README's mtls section throws; `digest` returns raw bytes where its comments (`digest.cpp:33`) say Base64; `calculate_hmac_base64`
looks an algorithm up in upper case, `digest` as it is given.

**Bounds.**  Two requests in a row on one connection, and any number of them since a finished request leaves a state already
seen, show what one leaves to the next: no counter in `Connection` grows over requests.  `MaxHeader = 1` repeats of a header,
`MaxRead` of 2 or 3 against bodies of up to three bytes (uploads in one slice, in several, and one byte at a time), `MaxHeads` for an
interim head and a redirect, `MaxChunks` for a body in pieces.  `HttpCode` has a redirect that drops the body of a POST, one that drops
that of an upload too, and one that drops none (302, 303, 307).  The vocabulary is split over three runs by what interacts: settings
with verbs, transfers with failures, callbacks with both.  `CurlError` has an error number below 100 and one above.
`Correlation`: two workers and two sessions let a worker be reused and a request move; `MaxRequests` stops the system,
so deadlock is not checked there, nor in `Startup` and `Toolbox`, which end.
`Signing`: keys with a fixed and with a variable signature length, two updates, and a cap on the failures that lose memory, whose
count would grow forever.  `Startup`: all files of up to two keys out of twelve, one for each type, each gate, and both
spellings of a TLS key, with values of every type; the keys are independent but for the version, which with its parameters makes two.  TLC's integers have 32 bits, so
`UintRange` and `LongHalf` are 131072 there, above the range of a port; the numbers are one below zero, one every field holds, and
131152, which none of them holds: a port or a `uint` becomes 80 of it, the timeout negative.  `StartupTls` needs one key.
`Toolbox`: 1970 to 2101, with 2000 (a leap year) and 2100 (none), and the days before 1970 mirrored; a zone ahead of UTC, which
moves midnight to the day before; amounts around every change of length, and no amount beyond `MaxAmount = 1000`, so that a
peer's may not fit; lists of two entries of up to two characters, all four
kinds of character in every place, and lists of two parameters, with equal keys (`ToolboxDuplicate` asks what becomes of them) and keys of different case; texts of four letters
out of two against search strings and replacements of up to two, so that matches overlap and replacements hold what is searched for
(`MaxSubject` ends the endless replacement of an empty string); two places and "id" in every order, with texts that name each other, and `$`
in every form; data of up to four bytes, so with every padding; pieces of two bytes before each of which a newline may lie.

**Symmetry** is used for workers and sessions in `MCCorrelation` only, with safety properties only.

**Fairness.**  Two assumptions in `Connection`, in `FairSpec`, for `TimeoutEndsRequest` and its run alone (`ConnectionCallbacks.cfg`): the calling thread goes on when
`curl_easy_perform` returns (`Finish`), and libcurl enforces a time limit that is on the handle (`TimesOut`); that is the
contract of `CURLOPT_TIMEOUT`.  Nothing is assumed of the server: without a limit a request may hang for ever.  In `Startup`, `WF_vars(Main)`: the main thread
goes on as long as it has a statement to execute; when a running service stops or fails is left open (`ServiceStops` and
`ServiceFails` are not part of `Main`).

## 4. What is proved

All theorems hold for every value of the constants, from the ASSUMEs of the modules (which TLC evaluates in every run).

| Theorem | Statement | Argument |
|---|---|---|
| `ConnectionProofs!TypeCorrect` | `Spec => []TypeOK` | one lemma per action; the fields of the option record one by one |
| `ConnectionProofs!HandleReset` | `Spec => []IdleHandleClean` | part of `WireInv` |
| `ConnectionProofs!RequestIsTheOneAsked` | `Spec => []WireIsAsked` | `WireInv`: only from a clean handle do the conditional options add up to exactly the settings of the call, and no step of a running transfer touches those options |
| `AnswerProofs!DebugLoggerAlive` | `Spec => []DebugDataLive` | `LoggerInv`, inductive with the clean handle |
| `AnswerProofs!AnswersClassified` | `Spec => []AnswerClassified` | `AnswerInv`: a status is seen before a transfer succeeds, an error number is positive; a code of 0 is that of a cleared structure on a terminated connection |
| `AnswerProofs!ErrorTextOfLastRequest` | `Spec => []ErrorTextIsOwn` | `AnswerInv`: while a request runs, the buffer is on the handle and about it |
| `AnswerProofs!ResponseUnmixed` | `Spec => []ResponseOfThisRequest` | `ReceivedInv`, below |
| `AnswerProofs!AcceptedBodyDelivered` | `Spec => []AcceptedBodyIsWhole` | `SentInv`, below |
| `AnswerProofs!ConnectionIsExchange` | `Spec => Exchange!Spec` | initial states map to initial states, every step to a step or a stutter, under `WireInv` and `AnswerInv` |
| `CorrelationProofs!CorrelationTypes` | `Spec => []TypeOK` | `CorrelationInv` |
| `CorrelationProofs!LinesBelowTheRuleTraced` | `Spec => []InlineLinesOwn` | `CorrelationInv`: a worker below the rule has its request's id in its context |
| `CorrelationProofs!GeneratedIdsExplained` | `Spec => []GeneratedIdAnnounced` | `CorrelationInv`: a generated id in any context has been announced |
| `CodingProofs!SignatureSafety` | `Spec => []SignatureOfAllGiven` | `IInv`: until a call fails, what the context has hashed is what was given; a finished signer's length is that of its signature |
| `CodingProofs!MemorySafety` | `Spec => []MemoryAccountedFor` | `IInv`: a buffer is allocated exactly while the signer has one |
| `CodingProofs!KeySafety` | `Spec => []KeyAccountedFor` | `IInv`: the file is open exactly while the key is being loaded |
| `StartupProofs!RunsOnWholeFile` | `Spec => []RunsOnTheWholeFile` | `IInv`: from the end of `set_config` on, no value threw and each field follows the value found for it; what restbed got is a function of the fields |
| `StartupProofs!PlainHttp` | `Spec => []PlainHttpAsConfigured` | `IInv`: without the key the field keeps the constructor's value, since no other key writes it |
| `StartupProofs!ExitCode` | `Spec => []ExitCodeTells` | `IInv`: the exit code is the success `main` began with exactly while no handler has caught anything |
| `NumberProofs!WrittenTimesReadBack` | `CalendarSpec => []WrittenTimeReadBack` | `DateCounted`: `mkgmtime` of the clock's date is the count of days; one lemma for the loop over months, one for that over years, whose numbers a `short` holds up to 9999 |
| `NumberProofs!DatesCoverTheirDays` | `CalendarSpec => []DateCoversItsDay` | the same, with what a division by the seconds of a day leaves |
| `NumberProofs!LocalReadsOffByZone` | `CalendarSpec => []LocalReadOffByZone` | the same, twice |
| `NumberProofs!AnyDayIsToday` | `CalendarSpec => []TodayIsAnyDay` | the same |
| `NumberProofs!AmountsReadBack` | `AmountSpec => []AmountReadBack` | `AmountInv`: a text is the one written of the amount; the point goes in `decimals` from the end and comes out there, and the digits of a number have its value |
| `NumberProofs!PeerAmountsExact` | `AmountSpec => []PeerAmountExact` | the same: moving the point multiplies by a power of ten, and what is cut off is zero exactly if that divides |
| `CodingProofs!DecodedAsEncoded` | `Base64Spec => []DecodeUndoesEncode` | `Base64Inv`, group by group: a group of four characters decodes to its bytes, and the room reserved is enough |
| `CodingProofs!CutTextDecoded` | `Base64Spec => []WholeGroupsComeBack` | the same: a beginning of the text has the first of its groups whole |
| `CodingProofs!LoggedLines` | `LoggerSpec => []LinesAreThePieces` | what `log` has taken off the end of a piece are newlines; a line is added exactly for a printed piece |
| `TextProofs!PositionInside` | `ReplacingSpec => []Inside` | replacing at `p` keeps the `p` characters before and the rest behind |
| `TextProofs!Progress` | `ReplacingSpec => LessToSearch` | `Inside`, and the length of three texts one behind the other |
| `TextProofs!ReplacedOnce` | `ReplacingSpec => []EachReplacedOnce` | `ReplacingInv`: what is done, and the rest of the subject with its occurrences replaced, are together what is to be returned |
| `TextProofs!EntriesKept`, `ListKept` | `SplitSpec => []EntriesFound`, `[]ListReadBack` | `SplitInv`, below |
| `TextProofs!ParametersKept` | `SplitSpec => []ParametersReadBack` | for keys that differ; `SplitInv` and `ParamsInv`; a key holds no `Assign`, so a pair is cut where it was joined |
| `TextProofs!QuotedPairsSplit` | `SplitSpec => []QuotedPairSplit` | the same cut; the three characters `splitStrQuoted` takes off are `Assign` and two quotes |
| `TextProofs!JoinedListsSplit` | `SplitSpec => []JoinedListSplits`, if `Delim` is not a space | `SplitTypes`; what `split` has cut off after each part of the joined text |
| `TextProofs!QuotesKept` | `SplitSpec => []UnquotedKeepsTheQuotes` | `ParamsWritten`, below |
| `TextProofs!TextsInTheirPlaces` | `EmplaceSpec => []PlacesTakeTheirTexts` | `EmplaceInv`, below |
| `TextProofs!SameLookup` | `SplitSpec => []LookupsAgree` | equal keys have equal hashes |

`WireIsAsked` is not inductive: with something left on an idle handle the next request would differ from what was asked,
so the invariant is about idle states as well.  `AnswerClassified` speaks of idle states only; what makes it true is
how a transfer got there, hence `AnswerInv` about the phases before.

`SignatureOfAllGiven` speaks of results: what makes it true is that a signer whose update or finish failed never gives one.

A service that is up is the end of a chain of stages, and each theorem about `Startup` needs what an earlier one left behind:
its `IInv` says for every stage what is known by then.  `OneKeyPerField` (no field is written from two keys) and `ReadsBefore`
carry `set_config`; no bound on the keys of a file is used, and of the widths of integers only that there are some.

`ResponseOfThisRequest` needs `ReceivedInv`: the headers so far are all of the running request, and with the library's writer the body
holds as many pieces as libcurl has delivered, since that count numbers the next one.  `AcceptedBodyIsWhole` needs `SentInv`: what the
server has is the body up to the reader's offset, or the post fields, never both; a redirect takes it back, and is followed
while nothing has been read, or if its status drops the body: from then on nothing is sent at all.

`SplitInv` relates what `split_quoted` has not read yet to what it has still to find.  In the middle of a list there is an entry of
which `oss` is the part read and `rest` what is to come, and `Position` says how the unread text begins with `rest`: bare up to where the
peer put its quote, inside the quotes, or behind an escape; behind that stand the delimiters and entries ahead.  The peer's text is a fold from the
left, so `FlattenFirst` takes it apart from the right once and for all.  `EntriesKept`, `ListKept` and `ParametersKept` assume
`Quote = DoubleQuote`: whatever quote it is given, the code compares with `'"'` behind an escape (`toolbox.cpp:199`), so that with another one an escaped
quote keeps its escape.  It is the default of the parameter, and nothing under `src/` passes another.

`QuotesKept` needs no such assumption.  `ParamsWritten` says that the list is the one written of the parameters; `ReachesEntry` says how
far `split`, which knows no quotes, has got in it before each entry.  A value without delimiters stays in one token, and `unquote` undoes
its escapes but keeps its quotes.  A delimiter inside a value cuts it: the part behind begins with no quote that `unquote` would accept,
because every quote in it stands behind an escape, so that it throws.  `JoinedListsSplit` leaves out one delimiter, the space: joined
with it, entries stand two spaces apart.

`EmplaceInv` says of a run of `emplace` that the passes still to come, done all at once, make of the text so far what there is to be in the end.
A pass keeps that because two passes are one (`SubFused`): what the first puts in, the second searches.  This holds only for texts that can
be taken apart without looking at what stands beside them, those in which every brace belongs to a place: `WholeTexts` is the least set of texts with
nothing in it but places and other characters, with its own rule of induction, and it is closed under concatenation, under a pass and under
what `"$&"` and `"$$"` make of a text.  What a place is to hold in the end is defined by recursion along the order of the names, and exists
because later names are fewer and fewer.

The proofs about amounts follow the point.  `DigitsOf` writes a number and `Value` reads digits, both recursive; `Value` of two texts one behind
the other is that of the first, times ten for each digit of the second, plus that of the second.  Leading zeros add nothing.

Many of these proofs are inductions over the length of a text, the digits, the years or the pieces.  The library's induction theorems take an
operator as a parameter, which the installed provers cannot instantiate; `Induction` states the rules with a set instead, from the
well-foundedness of `<` on `Nat`, and shows that a function defined by recursion exists.

Only model-checked:

* `TimeoutEndsRequest`, `MainGoesOn`: liveness under fairness, which these provers do not reach.

## 5. Not modelled

* `imp/scall` (the wrapper service and the cavage12 signer) is included by `main.cpp` but not in the repository.
* restbed, libcurl, OpenSSL, log4cplus and nlohmann::json are modelled by how the code uses them, and marked external.
* The log set-up, the stopwatch (`Perflogger`), the log adapter and the ready handler read or write and keep no state.  `log_if` of
  the adapter passes a `va_list` on to a variadic function, which takes it for the first argument (`log4cpluslogger.cpp:78`): what it
  prints is undefined, and nothing depends on it.  The status table of `log_response` and the environment check are wording.
* The simple API: each call is a short behaviour of `Connection`; its `init` and `disable` are called by nothing under `src/`, and
  `main` initialises libcurl itself.
* Of the toolbox: the clock (`now`, `elapsed_time`, `http_time`), reading a password from the terminal, names of types, hex dumps.
* Of `App_config`: the getters, and the setters of handlers, which nothing under `src/` calls.
* `Connection` is used by one thread, as its documentation demands; sharing one is undefined and not explored.

## 6. What is left

Every safety property of the runs that pass is a theorem; the two liveness properties are model-checked.  The modules leave out what section 5 lists.

A composition of `Correlation` with `HttpExchange` was planned (an id that was generated is not forwarded to the target); the code
that would do it is the forwarding service, which is not in the repository.
