# A verification project for MultiAddon-RSS

TLA+ models, TLC runs and TLAPS proofs for the plugin in this repository: a
Metamod plugin that makes a Counter-Strike 2 server mount extra workshop addons
and brings every client to download and mount them too. Paths below are relative
to the repository; `cpp` stands for `src/multiaddonmanager.cpp`.

- [What the system is](#what-the-system-is)
- [Modules](#modules)
- [Runs](#runs)
- [Where the code and its documentation disagree](#where-the-code-and-its-documentation-disagree)
- [Proofs](#proofs)
- [Assumptions about what is outside](#assumptions-about-what-is-outside)
- [Not modelled, and the plan](#not-modelled-and-the-plan)

## What the system is

Everything runs on the server's game thread: the engine calls hooks, Steam calls
one callback, other plugins call the interface of `public/imultiaddonmanager.h`,
the operator types commands. No two handlers run at once. What makes the plugin
hard is the order in which they come.

| Component | State | Operations | Hard because |
|---|---|---|---|
| **Client staging** (cpp 185-246, 766-973, 1186-1266, 1337-1477, 1512-1617) | `g_ClientAddons`: per Steam ID the addons to load, those believed downloaded, the pending one, connection state and two times; `m_GlobalClientAddons`; `m_TimedOutClients` | `Hook_ReplyConnection`, `Hook_ClientConnect`, `Hook_SendNetMessage`, `Hook_ClientActive`, `Hook_ClientDisconnect`, `Hook_GameFrame`, `AddClientAddon`, `RemoveClientAddon`, `ClearClientAddons` | The plugin never sees a client's disk: it infers from reconnects and their timing. Clients retry, give up, time out; lists, maps and preferences change in between; the belief is cached across connections |
| **RSS preference store** (cpp 895-941, 975-1102; `src/rss_asset_preferences.h`) | `m_RssAssetOptOutClients`, the writable latch, three files | `LoadRssAssetOptOutClients`, `SetClientRssAssetsEnabled`, `SaveRssAssetOptOutClientsLocked` | Any file operation may fail, the process may die between two, old data is migrated, refused documents must survive |
| **Server addons** (cpp 248-254, 469-764) | `m_ExtraAddons`, `m_MountedAddons`, the file system's search path, `m_DownloadQueue`, `m_ImportantDownloads` | `AddAddon`, `RemoveAddon`, `ClearAddons`, `RefreshAddons`, `DownloadAddon`, `OnAddonDownloaded`, `ReloadMap`, `mm_extra_addons` | Downloads end later, fail, or end in another order; a refresh may start downloads and a download's end may reload the map, which refreshes again |
| **Host state** (cpp 1167-1184, 1280-1335) | `m_sCurrentWorkshopMap`, the request's addon string | `Hook_SetPendingHostStateRequest`, `Hook_StartupServer` | Four kinds of map change describe the workshop map differently; what clients are told is fixed at the request, what is mounted at the start |
| **Preference documents** (`src/rss_asset_preferences.h`) | a position, what was read so far | `ParseRssAssetPreferences`, `BuildRssAssetPreferencesJson`, `CollectLegacyOptOutIds`, `ParseDecimalUll` | Strictness, duplicates, all or nothing, 64-bit edges; what is written must be accepted at the next start |
| **Virtual table lookup** (`src/utils/`) | a cursor | `SignatureIterator::FindNext`, `FindVirtualTable` | Several things look like the table; the scan runs past the end of its section |
| **Lifecycle** (cpp 292-467) | hooks installed or not | `Load`, `Unload`, `ParseCfg`, `OnMetamodQuery` | A plugin may come late, go while the engine keeps what it did, and come again |
| Filters (cpp 1479-1510, 1619-1630), commands, logging | none | `Hook_PostEvent`, `Hook_ScriptGetAddon`, `CON_COMMAND`s | nothing |

How they interact:

- Server addons and host state decide `m_MountedAddons` and
  `m_sCurrentWorkshopMap`; `GetClientAddons` reads both for every client.
- The preference store decides which addons `GetClientAddons` skips, and its
  success callback edits the client's record (`SetClientRssAssetsEnabled`).
- The host state request fixes the server's addon string, which the engine puts
  into the level-change message that `Hook_SendNetMessage` filters per client.
- Downloads reload the map through a server command, which comes back as a host
  state request and a server start.

What makes each correct: the staging must fetch one addon at a time, believe only
what is true, let a client in only when it has everything, respect the opt-out
and let everyone in eventually; the store must be an atomic durable register;
the server must mount its list in order, record what Steam is doing, start each
level with its addon and come to rest; both together must keep what a client is
told, required and believed to have in step while the server changes under it;
the readers must accept exactly their language, all or nothing; the table found
must be the class's.

## Modules

| Module | Models | EXTENDS / INSTANCE |
|---|---|---|
| `PreferenceRegister` | what the preference store promises: one atomic durable register | |
| `RssPreferences` | the store, one action per file operation | INSTANCE `PreferenceRegister` |
| `RssPreferencesProofs` | theorems about the store | `RssPreferences` |
| `ClientStaging` | the client side, one action per hook, branch of a hook, or interface call | |
| `ClientStagingProofs` | theorems about types, the opt-out and the belief, then about admission, messages, lateness and kicks | `ClientStaging` |
| `DownloadService` | what the download queue promises: a set of outstanding items, and a reload after the last important one | |
| `ServerAddons` | the server side with host state requests, loading and unloading | INSTANCE `DownloadService` |
| `ListLemmas` | lemmas: induction and recursion over the naturals, first elements of lists | |
| `ServerAddonsProofs` | theorems about the server side | `ServerAddons`, `ListLemmas` |
| `Plugin` | server side and client side over the state they share | INSTANCE `ServerAddons`, `ClientStaging` |
| `PluginProofs` | theorems about the two sides together | `Plugin`; INSTANCE `ServerAddonsProofs`, `ClientStagingProofs` |
| `RssDocuments` | parser, writer, legacy collector and decimal conversion, and their language | |
| `RssDocumentsProofs` | theorems about the numbers, the legacy list, the IDs and the writer | `RssDocuments`, `ListLemmas` |
| `RssLanguageProofs` | the theorem about the parser and its language | `RssDocumentsProofs` |
| `SignatureScan` | the search for a class's virtual table | |
| `SignatureScanProofs` | theorems about the search | `SignatureScan`, `ListLemmas` |
| `MC*` | bounded instances | the modules they are named after |

### RssPreferences

`main`, `temp` and `legacy` are the three documents; a document is absent, one
the reader rejects (`Torn`), or one that it maps to a set of opted-out IDs
(`Doc`), which is what `ParseRssAssetPreferences` and
`BuildRssAssetPreferencesJson` make of its text. `pc` is the file operation the
running call does next, `saving` the call and its set. `LoadMain`, `LoadLegacy`
and `LoadFresh` are the three branches of the loader; `OpenTemp`, `WriteTemp` and
`RenameTemp` the save, each of which may fail, upon which the caller rolls back
(`SaveFails`). `Crash` may come between any two; `OperatorEdits` only while the
server is down.

The refinement to `PreferenceRegister` maps the register's durable value to
`DiskView`, what a start that reads without error would find: the main document,
else the legacy list, else nobody opted out. Migration is a stutter there, and a
change becomes visible in one step, at the rename.

### ClientStaging

Per Steam ID, `info` is `ClientAddonInfo_t` with ages for its two times: `idle`
since `lastActiveTime`, `waiting` since `connectionStartTime`. `phase` says how
far the client has got with the server; `told` what the last message asks it to
download, `offer` the addons of its last connection response, which it mounts;
`installed` its disk, which no handler reads.

| Action | Code |
|---|---|
| `ReplyWithoutStaging`, `ReplyTimesOut`, `ReplyStages` | the three ways through `Hook_ReplyConnection` |
| `ClientConnect` | `Hook_ClientConnect` and `CheckClientAddons`, whose marking is `Shortcut` (opted-out branch) and `InTime` |
| `SendSignonRedirects`, `SendSignonPasses`, `SendMessage` | `Hook_SendNetMessage` for a signon message with and without something missing, and for any other message |
| `RequestMap`, `ChangeLevel` | `Hook_SetPendingHostStateRequest` as far as clients can see it; the CHANGELEVEL branch of `Hook_SendNetMessage` for everyone, with `Hook_StartupServer` |
| `ClientActive`, `ClientDisconnect`, `GameFrame` | the hooks of those names |
| `AddClientAddon`, `AddClientAddonRefreshes`, `RemoveClientAddon`, `ClearClientAddons`, `SetClientRssAssetsEnabled` | the interface and its commands |
| `Abandon`, `Download`, `Tick` | the client, Steam on its side, time |

`Global` is Steam ID 0 with the record that `AddClientAddon` gives it. What is
abstracted: duplicates in a list are kept in the sequence and ignored by every
use, since only membership and the first element matter; the players' IDs in a
message; the debug output.

### ServerAddons

`mounted` is `m_MountedAddons` and `paths` the GAME search path, so that the two
can be compared. `queue` and `important` are the plugin's, `downloading` is
Steam's. `commands` are the server commands that wait for the engine, `request`
the pending host state request. `MountAddon`, `UnmountAddon` and `StartDownload`
are functions on the record of the state they change, and `Remounted` applies them to
one list element after the other, as the loops of `RefreshAddons` do; it and `Kept`,
the elements of a list that are in a set, are recursive functions on numbers, which
the proofs can take apart. Levels are
identified with the addon they live in; `None` is a map shipped with the game.

`loaded` says whether the plugin is there. `Load` is the late `Load`, since a server
that starts with the plugin is `Init`; `Unload` is `Unload` and the end of the
library: what the plugin knew is gone (`Fresh`), the search path is what
`ClearAddons` could unmount (`UnloadedPaths`), and Steam's downloads, the level
and the pending request go on without it.

`Hook_SetPendingHostStateRequest` distinguishes what the code does: a request with
`map_workshop` or `map` (`"map"`), one without keyvalues (`"vote"`), and `"ChangeLevel"`.
`EngineAddons` is `m_Addons` as the engine sets it before the hook: the level's addon, or
nothing when a vote reloads the current workshop map. `KeepsMap` are the requests that leave
`m_sCurrentWorkshopMap` alone: a changelevel to *any* level but a community map, and
such a vote, unless the map is one of `SharedNames`, whose name a shipped map has as well,
in which case the record is cleared (cpp 1298). `HostAddons` puts the extra addons behind
the recorded map; with none the hook returns and the engine's addons stand.
`astray` is a history variable: since the last request that named its map to the
plugin, it was loaded late, or a request that keeps or clears the record led to a level
other than the one recorded (`Strays`).

The refinement to `DownloadService` maps its outstanding items to the set of the
queue, its urgent ones to `m_ImportantDownloads`, and its reload to a server
command on its way. The service promises more than `QueueFollowsSteam` says: an
item leaves only when this item ended, and the reload comes with the end of the
last urgent item and in no other step but one that asks for nothing urgent.

### Plugin

The server side and the client side over `mounted`, `wsMap`, `serverAddons` and
`request`. Either side acts alone (`ServerActs`, `ClientActs`), leaving the variables of
the other; `ChangeLevel` is a step of both: the engine tells every client to change
level with the list the request was given earlier (`TellLevel` of `ClientStaging`),
then `Hook_StartupServer` of `ServerAddons` mounts what there is by now. Between the
request and it preferences and lists may change. `required` is a history variable, what each
client needed when its last signon message passed; `misled` another one: who ever had
an addon pending that was not on its list.

### RssDocuments

A document is a sequence of units (punctuation, a quoted text, a word, a gap) that
arrive one by one, so that TLC reads every document of the alphabet up to a length.
`at` is the place in the two nested loops of `ParseRssAssetPreferences`, `Takes` what
is looked for there, `Goes` where the parser continues; every early return is
`rejected`. `ParseDecimalUll` is translated digit by digit with the width as a
constant. The writer's digits are the remainders of its quotients by ten, the last first,
and its entries a recursive function of the ID they come behind, so that the proofs can
take both apart. The reference is apart from it: `Sentences` builds the documents of the
language as a set, `IdOf` reads numbers in unbounded arithmetic.

### SignatureScan

An image is a sequence of words made of pieces (the class's name, its type_info, its
tables, a derived class's type_info, a pointer's), in three sections; its words and the
bases of its sections are recursive functions on the number of pieces. `Window` is
the range `FindNext` scans, which is the whole size of the section from wherever the
last match left the cursor. The scan overruns its section by as much as the offset of its
last match. Behind the last section `rest` is mapped, which may be empty, and nothing is
mapped behind that: `Faults` says that a scan gets to the first word that is not mapped,
also in the middle of a comparison, and ends the search in the phase `"faulted"`. In
`rest` there may be a reference, which looks like a table to the test of `FindTable`.

## Runs

Every run ends on its own; times are seconds, a minute for `plugin` and `readers` and one
and a half for `staging_live`.

| Run | Instance | Shows |
|---|---|---|
| `store` | 2 clients, documents of at most 1 ID accepted, every failure and crash, both old and new documents in every state | types; memory and disk agree; only a completed change moves the disk; a refused document is kept; the main document is never torn; the register is implemented |
| `staging` | 1 client, a workshop or shipped map, a global RSS asset, an extra addon the server has not mounted yet and that is listed for the client or for everyone meanwhile, with and without refresh; cache of 2 ticks, both timeouts, retries, departures, preference toggles | types; beliefs are true; one addon to fetch at most; late reconnects earn nothing; an opted-out client earns no RSS asset and is asked for none |
| `staging_live` | fairness, prompt client, a cache that does not expire; level changes between two workshop maps, an RSS asset on the server, a global extra addon that may be unlisted, both timeouts | once maps stop changing everyone gets in and stays; an unanswered client is freed; no later attempt is kicked; whoever becomes active has and mounts everything |
| `server` | one workshop map, one community map that may also be an extra addon, shipped maps; list edits, removals, refreshes, refused, failed and successful downloads, updates on mounting; commands, votes, changelevels to any level and reloads; the workshop map shares a shipped map's name; the plugin loaded late, unloaded and loaded again | types; the mounted list is the search order; the queue follows Steam and implements the service; the recorded map is the level, unless the plugin was led astray; the mounted list is what was told |
| `server_live` | fairness, 3 addons, one of them a legacy item, list edits, updates on mounting, downloads by the engine | listed addons end up mounted; reloads stop |
| `plugin` | one client, a server that lacks one of its two extra addons, one of them an RSS asset, in either order; list changes by `mm_extra_addons`, refreshes, shipped maps, client addons with and without refresh, preference toggles | beliefs stay true and who becomes active has what was required, for clients that were never misled; opted-out clients earn no RSS asset and are asked for none |
| `readers` | all documents of 21 units and one gap over 6 ID texts, all sets of one 8-bit ID and two larger ones written and read back, all legacy lists of two short lines; 8-bit IDs of 3 digits. All layouts of up to 4 of 5 pieces of data and of 2 or 3 names, with nothing, something or a reference mapped behind them | the parser reads its language and publishes all or nothing; what is written is read back; legacy lists are taken whole; the table found is the class's; a library that has the table is searched without leaving what is mapped, if the class's pieces come first |

Why the bounds are enough. Clients share only the global list, the lists of the
server, the record of ID 0 and the kick list, and no handler of one client writes
another's record except the level change and the frame, which treat each by
itself: one client shows what can happen to one, and the theorems below hold for
any number. Two clients are used where they matter (`staging_global`). Ages are
told apart up to `MaxAge`, one above the largest timeout, so every comparison of
the code takes both values on every path. In the staging, three or four addons give a workshop
map, an addon everyone needs and an RSS asset, with lists of up to three entries,
enough for a head that is downloaded while a later entry is not. In
`server`, two addons suffice to remove from the middle of a list and to end a download
while another waits; a third multiplies the states by two hundred and shows nothing new
(checked once, in a few minutes). `MaxCommands = 1`
makes the environment wait until the engine has run the last command, which is what
the command buffer does within a frame. `Calm` in `server` lets nothing come
between a reload's command and the server start it leads to: a request or an
edit in between does make the recorded map or the mounted list differ, and the
hazards in `PROJECT.json` say so; `server_live` is not calm. `LevelHasItsAddon` excepts
`astray`: a changelevel to another level and a reload of a map with a shared name do happen
in the run, and what is watched is that nothing else loses the map and that the
next named map mends it. In `server`, unloading waits
for running downloads too: a callback for an item of the plugin's last life would take
the head off the new queue (the run `server_foreign` shows what follows). The run `plugin` has shipped maps only,
because a workshop map is the head of every list and hides what the run is about,
the head of the extra list that is not mounted; workshop maps are in `staging`,
`staging_live` and `server`. Its qualifications are needed: without `misled`
`BeliefSound` fails, and without the exception for the engine's own answer
`OptOutRespected` does. In `readers` 8 bits and 3 digits stand for 64 bits and 20
digits: `MaxId` is not of the form 99..9, its last digit bounds the digit check, and
leading zeros and an overflow in the last digit occur; 21 units hold two entries,
both keys and trailing commas. Parser and scan are independent, and share a run with the
one idle while the other works. Three pieces that
point to the type_info before the table take the scan past its section by more than the
section is long, and the mapping may end anywhere behind it.
`KickedIsUnanswered` needs that nobody leaves before the frame and that no timed-out
client's needs are emptied; both are left out of `staging_live`, and level changes
and removals of one addon remain.

Fairness. `FairSpec` of `ClientStaging` asks for the hooks the engine does call
(a connection attempt is answered, a client with what it needs enters, gets its
signon messages, becomes active; frames run; an announced level change is
carried out). Downloads are strongly fair: an attempt that times out interrupts
the download, which resumes at the next. `Prompt` says that a client with
everything enters before another tick; without it a client may stay away longer
than `mm_extra_addons_timeout` every time and never be credited, by design.
`FairSpec` of `ServerAddons` asks that Steam comes up and ends each download,
the engine runs its commands and starts the requested servers; nothing obliges
anyone to call the interface.

## Where the code and its documentation disagree

Each of these has a run that TLC finds violated, and a finding in `PROJECT.json`
with the line it quotes.

| Run | Property | What the code does |
|---|---|---|
| `staging_collision` | `EveryoneJoins` | redirects an opted-out client for ever when the workshop map is on the RSS allowlist |
| `plugin_stale` | `EveryoneActiveHasRequired` | names the head of the extra list in a level change before the server has mounted it, credits it when the client returns without it, and later lets the client become active without it |
| `staging_global` | `GlobalRefreshReachesEveryone` | tells only the first client about an addition to the global list |
| `staging_zero_list` | `ZeroListMeansNoServerAddons` | reaches its own assertion with a server string that is not empty |
| `server_foreign` | `FinishedListIsExhausted` | drops the head of the queue for whichever download ended |

`BeliefSound` and `EveryoneJoins` also hold in passing runs, which leave out the one
ingredient that breaks them (an addon pending that is not on the client's list; a map
on the allowlist), so that every other way of breaking them stays watched.

Met while modelling, present in the models, and without a run of their own:

- the loader ignores a document above 1 MiB (cpp 990), the writer has no limit;
- a refresh names the added RSS asset to a client that opted out of it (cpp 822):
  `OptOutRespected` of `Plugin` excepts refreshes, and `staging` has none of an RSS
  asset;
- a client that is toggled between its answer and its last signon message becomes
  active with the need of the one and the mount list of the other, until it connects
  again ("this applies on the next addon connection flow", cpp 939): the run of
  `ActiveHasAll` and `ActiveMountsAll` has no toggles;
- the fast-mount branch of `CheckClientAddons` (cpp 1382) can never be taken,
  since skipped assets are never removed from the list it wants empty: `Shortcut`
  keeps the branch as it is written;
- an opted-out client that misses nothing else is credited before the timeout is
  looked at (cpp 1365), which takes a list change while it is away;
- an item downloaded by hand and then listed is neither important nor mounted
  when it arrives (cpp 603);
- `RefreshAddons(true)` does not reload if the list names the current workshop map
  (cpp 488);
- a listed item whose download always fails reloads the map again and again
  (cpp 713);
- an addon listed between a client's last signon message and `Hook_ClientActive`
  is staged only on its next connection, which is why `ActiveHasRequired` looks at
  what was required at that message;
- the same stale credit comes of an addon that is unlisted after a redirect
  (cpp 1580);
- before the server has mounted anything, the answer to a client on a shipped map is the
  engine's own string, which names RSS assets to an opted-out client as well (cpp 1545);
- a plugin that is loaded late does not know the workshop map that is running
  (cpp 383): neither `ReloadMap` nor a level change names it until a map is given by name;
- a vote that reloads a workshop map with the name of a shipped map clears the record, as
  the comment at cpp 1298 admits: clients are then told of the extra addons alone;
- a request named `ChangeLevel` keeps the recorded map wherever it leads, unless it names
  another community map (cpp 1301, 1313): after one from a community map to a shipped map,
  clients are still told of the community map's addon, and after one from a workshop map
  `ReloadMap` takes the server back to the workshop map (cpp 692). The comment at cpp 1285,
  "always be aware of what the original addon is", holds only while a changelevel stays within
  the addon; `LevelHasItsAddon` excepts it as `astray`, and is false without that;
- a plugin unloaded while Steam downloads for it, and loaded again, takes entries
  off its new queue for them (cpp 708);
- the parser accepts one trailing comma in either object: `bNeedPair` and
  `bInnerNeedPair` are true whenever they are tested (`rss_asset_preferences.h` 219,
  257), and the language of `RssDocuments` says so;
- `FindVirtualTable` would take the word behind a pointer's type_info for a table, and
  a string that ends in the class's name for its name (`plat_unix.cpp` 223, 252), if they
  came first in the library; data behind the sections that holds a zero before a pointer to
  the type_info would be taken for one where the scan overruns its section;
- in a library without the class's primary table the scan goes on behind a secondary one,
  over the whole size of the section again (`module.h` 47), and may leave what is mapped
  before `FindVirtualTable` comes to report that nothing was found (`plat_unix.cpp` 257):
  `TableStopsTheScan` asks for a table, and is false without that.

## Proofs

`tlapm` checks every leaf; there are no axioms. The constants are arbitrary,
within the assumptions stated beside their declaration. Some theorems have a
hypothesis about the constants besides, most of them about which of the interface's
calls are made at all; it is named in the third column, and each is satisfied by the
run that checks the same property, so that no theorem says less than its run.

| Module | Theorem | Property of `Spec`, and its hypothesis |
|---|---|---|
| `RssPreferencesProofs` | `TypeCorrect`, `MemoryAndDiskAgree` | `TypeOK`, `LiveMatchesDisk` |
| | `DiskChangesOnlyBySet`, `RefusedDocumentIsKept`, `MainStaysWhole` | the three action properties of the store |
| | `StoreIsARegister` | the store implements `PreferenceRegister` |
| `ClientStagingProofs` | `StagingTypeCorrect` | `TypeOK` |
| | `OptOutIsNeverCredited` | `OptedOutNeverCredited` |
| | `BeliefsAreSound` | `BeliefSound`, if maps stay and nothing is unlisted (`StableLists`) |
| | `ActiveClientsHaveAll`, `ActiveClientsMountAll` | `ActiveHasAll`, `ActiveMountsAll`, if nothing is added to a list and no preference changes (`NothingAdded`) |
| | `OptOutIsRespected` | `OptOutRespected`, if refreshes and the engine's own answer name no RSS asset (`NoRssPushed`) |
| | `OneAddonAtATime` | `AtMostOneToFetch`, under `StableLists`, and if a server without a map whose list is not mounted names one addon at most (`ServerNamesOne`) |
| | `LateReconnectsEarnNothing` | `LateReconnectEarnsNothing`, under `StableLists` |
| | `OnlyUnansweredAreKicked` | `KickedIsUnanswered`, on workshop maps and if nobody leaves or is told to reload (`NobodyLeaves`) |
| `ServerAddonsProofs` | `ServerTypeCorrect` | `TypeOK` |
| | `MountedIsSearched` | `MountOrderIsSearchOrder`, if every addon is packed with the `_dir` suffix (`NoSingleFile`) |
| | `QueueIsWhatSteamHas` | `QueueFollowsSteam`, if downloads end in order, the engine starts none, and an unload waits for them (`QueueIsSteams`) |
| | `QueueIsAService` | the server side implements `DownloadService`, under `QueueIsSteams` |
| | `StartedLevelIsRecorded` | `LevelHasItsAddon`, if nothing comes between a request and its start (`Calm`) |
| | `MountsWhatItTells` | `ServerMountsWhatItTells`, under `NoSingleFile` and `Calm`, for lists that name no addon twice (`NamedOnce`) |
| `PluginProofs` | `ServerSideIsTheServer` | `Spec` of `Plugin` implies that of its server side |
| | `OptOutIsNeverCredited`, `OptOutIsRespected` | `OptedOutNeverCredited`, `OptOutRespected` of `Plugin` |
| | `BeliefsAreSound`, `ActiveClientsHaveRequired` | `BeliefSound`, `ActiveHasRequired` of `Plugin` |
| `RssDocumentsProofs` | `LegacyListsAreWhole` | `LegacyListIsWhole` of `DocSpec` |
| | `AcceptedIdsAreDistinct` | an accepted document has distinct IDs and publishes the true ones, of `DocSpec` |
| | `DocTypeCorrect` | `DocTypeOK` of `DocSpec` |
| | `WrittenReadsBack` | `WrittenIsReadBack` of `DocSpec` |
| `RssLanguageProofs` | `ParserIsTheLanguage` | `ParserReadsTheLanguage` of `DocSpec` |
| `SignatureScanProofs` | `SearchTypeCorrect` | `SearchTypeOK` of `SearchSpec` |
| | `FindsTheTable` | `TableIsTheClass` of `SearchSpec` |
| | `ScansStopAtTheTable` | `TableStopsTheScan` of `SearchSpec` |

Why these hypotheses. They are the boundaries found while modelling, not
conveniences: without `StableLists` `BeliefSound` fails (`plugin_stale`; the
theorems about `Plugin` replace it by `misled`, which is exact); without
`QueueIsSteams` the queue loses entries (`server_foreign`); the others are behaviours
of the code listed under "Met while modelling": a refresh that names an RSS asset
(cpp 822), the engine's own answer (cpp 1545), a client toggled halfway (cpp 939), the
missing `_dir` suffix, a request that overtakes a reload. An addon named twice in
`mm_extra_addons` is told twice and mounted once. `PluginAssumption` says that the plugin
is there all along (`"reload"` is no event of `Plugin`).

**Store.** `IInv` adds to the types who may be saving in which step (`Saver`),
that a saving loader has no main document yet and writes what the next start
would read anyway (`LoaderSaves`), that a saving setter moves one client of a
writable store (`SetterSaves`), and that the temporary document is whole when it
is renamed (`TempIsWhole`). From these every step maps to a register step or a
stutter.

**Staging.** Types need two facts about lists, that `First` returns an element of
the set and `Without` a list of the same addons. `OptOutIsNeverCredited` follows
from types alone: each of the places that mark an addon looks at the opt-out
itself. `BeliefSound` is not inductive: a credit is right only because of what
the client was told before it came back. `BInv` adds, for every client
(`Honest`), that a pending addon is still in its full list; that a client which
has been answered was told its pending addon, or is opted out of it, in which case
it earns nothing; and that a client past `ClientConnect` has no pending addon
until it is redirected. The middle part is preserved by
an answer because a pending addon that is listed and not downloaded is always
named by it, and listed it stays: this is where the hypothesis is needed, and
`plugin_stale` shows what happens without it.

**Arrival.** `ActiveHasAll` rests on `SuppliedInv`. Beliefs may be wrong here, since
addons are unlisted and maps change; what saves the client is that its last answer
named all that is counted as had (`Counted`: believed downloaded or pending), that it
enters only with what it was told to have, and that it passes its last signon message
only when everything it needs is counted. `ServerInv` ties the server's string and the mounted list
to the map whenever no change is announced; it makes an answer, a redirect and a
level change name the addons of the need and no others, which is what
`OptOutRespected` asks. `FetchInv` adds to both that beliefs are true and that of what a
client was told one addon at most is missing (`FetchesOne`): the message names a head
that is not believed downloaded, and everything else it names is. `KickInv` says that a
client on the kick list is still ignored and still too late (`Overdue`), whatever is
unlisted meanwhile.

**Server.** The loops are recursive functions on the length of a list. `ListLemmas`
proves induction from the well-foundedness of the naturals, with a set of numbers for
the property and a function for the step, since the library's theorems want an operator;
`Steps` gives the run of a loop as a function, and every fact about a loop is an induction
over that run. `TypeInv` adds to the types that the level and a pending request have a
map. `MountInv` says that the mounted list without duplicates is the search path
(`InStep`): every `MountAddon` and `UnmountAddon` keeps it, hence the loop of
`RefreshAddons`. `QueueInv` says that the queue is Steam's list, that the important
downloads are in it and that Steam has nothing for a plugin that is gone; each step then
maps to a step of `DownloadService` or a stutter. `LevelInv` follows the recorded map
from the choice of a map through the request or the reload command to the start,
while the plugin is not astray: a request that keeps the record and does not stray names the
current level, and one that does not keep it records its own.
`TellInv` adds to `MountInv` and `LevelInv` that what a pending request tells the clients
is what would be told now, if there are extra addons; `KeptOfHostAddons` then shows that the told list without
what cannot be mounted is the extra list without it, which the loop mounts in order.

**Composition.** `PluginProofs` instantiates the proof modules of both sides with
the variables of `Plugin`, so that what is proved of a step there is cited here by name.
`Plugin` has its own instances of the two specifications; the lemmas `Same...`
expand both to show that they say the same. `ServerSideIsTheServer` makes every theorem
about `ServerAddons` one about the plugin. The client side has no such theorem, because
the server moves its map and lists under it: `BeliefInv` restates `Honest` for the clients
that are not misled, and adds that they have what their last signon message required and
that whoever has an addon pending which is not on its list is misled. A server step can take an addon off a list, and then the client is misled
from that step on; otherwise it leaves `Honest` alone.

**Readers.** `ParsesTheNumber` is the lemma behind all of them: the loop of
`ParseDecimalUll`, whose check divides before it multiplies, holds the number of the
digits so far while that is within the width and refuses from the first digit on
at which it is not, so it returns what unbounded arithmetic denotes. `LegacyInv` says
that what was collected is the set of the lines so far, all of them IDs and none twice.
`ReadInv` says of a document that the IDs met are those of its quoted texts, distinct and
not 0, that those parsed are the ones with a `true` before the next ID, and that in an
entry the ID read is the last one met.

**Writer.** `WrittenInv` cuts a written document into opening, entries and closing
(`Stage`) and says at each unit what is left to read and what the parser has then: in
the entry of `v`, the IDs below `v` as met and as true. The next entry is that of the
least ID above `v` (`BehindIsNext`); its digits are the remainders of the quotients of
`v` by ten (`DigitsOf`), fit the width (`DigitsFit`) and denote `v` again
(`DigitsDenote`), so that `ParsesTheNumber` applies. This needs that the width is that of
the largest ID (`WidthAssumption`) and that nothing is written but IDs
(`NumbersAssumption`). `DocTypes`, the inductive form of `DocTypeOK`, needs besides that a
key has been read where its value is looked for.

**Language.** `ParserReadsTheLanguage` compares the parser's loops with a set of
sequences. In between stand the *shapes*: which key comes first, how many units of
entries there are, whether a comma ends the outer object. `KindsAt` gives the kinds that
may stand at a place of a shape, `Fits` says that the units read are of these kinds, and
`StateAt` where the parser is after so many of them. `SentencesFit` and `FitsSentence` show
that the sentences are the documents with distinct IDs that fit a shape to its end.
`LangInv` says, of what has been read without its gaps, that the parser is where
`StateAt` puts it in *every* shape this fits (`Tracks`), and that it fits one, unless the
parser has met a key twice or the end of an object that lacks one (`Leads`, `Dead`) and
can only fail. The first half is preserved because what stands next in a shape is accepted
(`Follows`): so whatever is refused begins no sentence. The second half is preserved because what is
accepted stands next in some shape that agrees so far (`Chooses`): so what is accepted to the
end is a sentence. A document may be cut off, or left without a
key, in a way that no sentence begins with; the parser says so only at its end, which is
why the property asks of an incomplete document only that it is no sentence.

**Scan.** The image is a sequence of words laid out piece by piece. `Layout`, an induction
over the pieces, says which word of which piece stands at each address, and that
the pieces do not overlap. `NamePlaces`, `TypePlaces` and `TablePlaces` turn a match of the
scan (the class's string, a word that points to it, a word that points to its type_info)
back into a word of a piece. `SearchTypes` keeps the cursor and the target within memory.
`OnTheWay` says that, where the
class's pieces come first (`ClassFirst`), the table is still ahead of the cursor and the
target is the name, then the type_info, of the class; hence what is found is its table,
and nothing is found only if
there is no table or no type_info in `.data.rel.ro`, where alone the type_info is looked for.
The same invariant, with `FaultsBehind` (what a scan without a match reads when it leaves the
mapping), gives `TableStopsTheScan`: a table ahead of the cursor is in the window or the
window ends before the mapping does, so the scan stops before the end. `ImagesAssumption`: a library has each piece
once, and has the pieces that its pieces point to.

**Only model-checked.** The liveness properties (`EveryoneJoins`,
`UnansweredIsDisconnected`, `EveryExtraIsMounted`, `ReloadsStop`): fairness is out of
the prover's reach. Every safety property, action property and implementation of an
abstract specification that a passing run checks is a theorem, under the hypothesis that
the table above gives it, which the run satisfies.

## Assumptions about what is outside

- A client is in `Hook_ClientConnect` only with everything its last answer or
  message told it to download; the RSS assets added for mounting only
  (`FastMount`) need not be on its disk. It may ask for a connection again before
  it has downloaded anything, and the new answer replaces what it was told.
- No signon message follows `Hook_ClientActive` except a level change.
- The broadcast of a level change and the start of the next server are one step, with
  no connection served between the request and it; in `ServerAddons` and `Plugin` the
  request is a step of its own.
- A request by vote for the current workshop map, and for a shipped map, names no addon;
  every other request names the addon its level lives in (`EngineAddons`; the comments at
  cpp 1294-1295 and 1309).
- The `changelevel` command of `ReloadMap` makes a request named `ChangeLevel`, as
  `IVEngineServer::ChangeLevel` does. It names the current level, for which a request of any
  other name records the same, unless the plugin is astray.
- The engine's list of search paths, Steam's downloads and the pending request survive
  the plugin; its callback and its members do not.
- What a compiler puts into a library, each piece once, and in which section (the pieces of
  `SignatureScan`); matches that are not aligned to a word do not occur.
- `mm_client_extra_addons` at run time is a sequence of additions and removals.
- The file system finds a path it was given when asked to remove it with the
  `_dir` suffix; for an addon without that suffix on the disk it does not
  (`SingleFile`).
- Steam ends each download it accepted once. `InOrder` says whether in the order
  they began; `cpp 584-586` expects so.
- A file operation that reported success stands after the process dies; the loss
  of unsynced data in a power failure is outside the model.
- Configuration variables other than the two lists do not change while the
  server runs.

## Not modelled, and the plan

Not modelled: the Windows table lookup and the mapping of modules (their code is calls of
the system, and `KHook::LookupSignature` is not in this repository); listen servers
(which take early returns); clients with Steam ID 0; comma-separated
`customgamemode` values; what clients do while the plugin is unloaded;
`OnMetamodQuery`, the stateless filters (cpp 1479-1510, 1619-1630), logging and the
build. An HLTV client uses the handlers of any other.

A specification of what a client's admission promises, apart from the staging, was
considered and left out: with the client's disk as its state it says what
`ActiveHasAll` and `AtMostOneToFetch` say.

Order of work:

1. *(done)* The preference store with its abstract register and proofs; the client
   staging with its first proofs; the server addons.
2. *(done)* `Plugin`; `RssDocuments`; `SignatureScan`; the lifecycle in `ServerAddons`;
   `DownloadService` and its implementation.
3. *(done)* Proofs: the safety of `ClientStaging`, of `ServerAddons` with its loops and
   the implementation of `DownloadService`, of `Plugin`, of the readers, the writer and
   the language, and of the scan.
4. Not done: the order and the duplicates of `GetClientAddons` and of the fast-mount
   recombination. The staging keeps each list as a sequence where its head matters and
   as a set where only its members do; what a client is told to mount first is not a
   property of it.
