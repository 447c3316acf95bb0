# Formal models of the GROS data gathering system

This directory holds TLA+ specifications of the data gathering system in this
repository, TLC configurations that model-check them on small instances, and
proofs that TLAPS checks for every instance. Line numbers refer to the sources
beside which the project is kept (`src/`).

## The system

An *agent* is a container near the sources of a project (repositories, issue
tracker, build server, quality dashboards). It collects data and sends it to a
*controller* host, which imports it into a database.

| component | state it keeps | operations | what is hard |
| --- | --- | --- | --- |
| agent run (`scraper/agent/run.sh` and the scripts it calls) | key pairs, `known_hosts`, `secrets.json`, tracker and data files | POST key, preflight checks, fetch trackers, collect, upload, POST export | goes on after a refused request with what an earlier run left; a script that fails ends the run |
| scraper web service, cron (`scraper/agent/scraper.py`, `init.sh`) | none; looks for processes | `/scrape`, `/status` | looks and starts in two steps; a date that goes from the agent to the schedule of the controller by way of an export |
| provisioning API (`controller/auth/agent.py`) | etcd lock per project | the request of an agent: lock, key, home, trackers, salts, permissions | a sequence of calls to two daemons, each of which may fail; the process may be killed; the lease |
| controller daemon (`controller/controller_daemon.py`) | accounts, home directories, SSH directories and their modes | `update_public_key`, `create_agent`, `clean_home_subdirectories`, `update_permissions`, `get_permissions_status`, `update_status_file` | each operation is several `sudo` calls; files belong to an agent key, which projects may share |
| gatherer daemon (`controller/gatherer_daemon.py`, `gatherer/salt.py`, `gatherer/update.py`) | rows of `project_salt`, `update_tracker`, statuses | trackers, salts, schedule, encryption, statuses | read and insert in two statements; dates and drift |
| status API (`controller/auth/status.py`) | none | collects the status of the other parts; receives statuses | the checks hold at the moment of the check only; fall-back from database to file |
| export API, exporter daemon, `export.sh`, `jenkins.sh` | files of the agent and of the controller, imported data, trackers | copy, clear, wait, import, push trackers back, clean up | two exports at a time; the exit status of the import is lost in a pipe; tracker and data must stay together |
| other APIs (`access.py`, `encrypt.py`, `log.py`, `version.py`) | none | one stateless answer each | - |
| version control (`gatherer/version_control`, `git`, `svn`) | clones that stay for the next run, `latest_vcs_versions.json` | clone or pull, versions since the latest one, export | clone and latest version come from different places and runs; a source that fails while others go on; `--force` |
| Jira (`gatherer/jira`) | `jira-updated.txt` | issues updated since the last run, in batches; versions from the changelog | people change issues between batches; versions are made backwards; numbers over incremental runs |
| review systems (`gatherer/git/gitlab.py`, `github.py`, `tfs.py`) | one date per system as tracker | lists of requests, notes, events, issues, work items | several lists read at different moments, one date for all; pages that fail; dropin files |
| project definitions and metrics (`gatherer/project_definition`) | trackers and names of metrics | targets with their changes, measurements | changes undone from the latest values; a limited list of changes; two scripts, the second reads names the first wrote |
| sources of a project (`gatherer/domain`) | `data_sources.json`, `data_environments.json` | add, replace, delete; three programs one after the other | indexes by URL and environment; URLs that follow from credentials |
| Jenkins client (`gatherer/jenkins.py`) | objects that keep what they retrieved | last build of a branch, artifacts, counts, start of a job | builds start, end and go between the requests |
| job for all projects (`scraper/jenkins.sh`) | workspace with trackers and data between jobs | dropins, trackers of the database, all scripts, import | an error handler that cleans up after any failure; three places that know a tracker |
| tables, sprints, statistics (`table.py`, `utils.py`, `svn/difference.py`) | files per run | rows by key with encryption, merging; the sprint of a moment; lines of a difference | algorithms with state |

Components interact by HTTP requests (agent to controller), Pyro calls (CGI
scripts to daemons), `scp` (agent to and from its home on the controller),
processes that look for each other with `pgrep` or `psutil`, and files.

What makes the parts correct:

- provisioning: a login finds everything or is refused; all requests of a
  project get the same salts; no run collects without the trackers; a lock does
  not stay for good; a later request repairs what an earlier one left behind
  (it does not always, see below);
- the export: a version of a source that is below a tracker is in the database,
  because it is never collected again; what an export takes from the agent gets
  into the database; exports do not wait for each other for good;
- version control: no version of a repository that stays on its branch is left
  out, whatever the state of the clone and of the latest version;
- reviews and metrics: a date kept as tracker never passes an item that was
  neither collected nor known to be lost;
- the schedule: it follows collections that were imported, within the skew that
  its arithmetic allows;
- the library: sprints, tables, changelogs and batches against a reference
  definition.

## Modules

| module | what it models |
| --- | --- |
| `AgentProvisioning` | the request of an agent at `auth/agent.py` with the controller and the gatherer daemon behind it, and the part of `run.sh` up to the start of the collection |
| `AgentProvisioning_proofs` | theorems about it and about `KeyPublishing` |
| `MCAgentProvisioning` | its instances for TLC |
| `ExportPipeline` | the loop of `run.sh`, `auth/export.py`, `export.sh` and `jenkins.sh` over the versions of a source |
| `IncrementalCollection` | the abstract specification of the collection in batches |
| `Gathering_proofs` | theorems about the pipeline, its refinement, and about `GatherJob`, `JenkinsArtifact`, `JiraLinks` and `Tables` |
| `MCExportPipeline` | the instances of the pipeline for TLC |
| `StatusStore` | `auth/status.py` receiving statuses, `Statuses` of `gatherer/bigboat.py`, `update_status_file` of the controller daemon, and `import_bigboat_status.py` |
| `StatusAPI_proofs` | theorems about it and about `ScrapeSchedule` |
| `MCStatusStore` | its instances for TLC |
| `RepositoryUpdate` | `git_to_json.py`: `Repositories_Holder` with the Git and Subversion repositories and their clones, over any number of runs |
| `RepositoryUpdate_proofs` | theorems about it and about `SvnDifference` |
| `MCRepositoryUpdate` | its instances for TLC |
| `JiraChangelog` | `changelog.py`: the versions of an issue from its changelog, and what they should be |
| `JiraCollection` | `jira_to_json.py` over any number of runs: the tracker, the query in batches, the tables |
| `JiraCollection_proofs` | theorems about it and about `SprintCalendar` |
| `MCJiraCollection` | its instances for TLC |
| `ReviewUpdate` | the reviews of one repository at GitLab, GitHub, TFS and TFS 2013, over any number of runs: the lists, their dates, dropin files |
| `ReviewUpdate_proofs`, `MCReviewUpdate` | theorems about it; its instance for TLC |
| `SourceRegistry` | `Sources` with its indexes, and `project_sources.py`, `jira_to_json.py` and `environment_sources.py`, which change it and write its two files |
| `SourceRegistry_proofs`, `MCSourceRegistry` | theorems about it; its instance for TLC |
| `MetricOptions` | `metric_options_to_json.py` and `history_to_json.py` with Quality-time or SonarQube |
| `MetricOptions_proofs`, `MCMetricOptions` | theorems about it; its instance for TLC |
| `Tables` | `table.py`: rows by key, encryption, merging with the file of an earlier process |
| `JiraLinks` | `special_field.py`: the dates of links and components from the changelog |
| `SprintCalendar` | `Sprint_Parser` of `jira/parser.py` and `Sprint_Data` of `utils.py` |
| `SvnDifference` | `svn/difference.py`: the parser of `svn diff` and its statistics |
| `JenkinsArtifact` | `jenkins.py` with `retrieve_importer.py`, `jenkins_to_json.py` and `start_scrape` |
| `GatherJob` | `jenkins.sh` with `retrieve_dropins.py`, `retrieve_update_trackers.py` and `update.py` |
| `ScrapeSchedule` | cron, `scraper.py`, `scrape.sh`, `preflight.py`, the GET side of `status.py`, the schedule of the gatherer daemon |
| `KeyPublishing` | `generate_key.py` with `update_identity` of GitLab and the controller: key pairs, where their public keys are, `known_hosts` |
| `MCGatheringTools` | the last eight, which share no state, as parts of one instance for TLC |

### AgentProvisioning

State: `pc`, the place of each CGI process in `main` of `agent.py` and the
daemon operation that it is in; `lock`, the etcd key per project; per agent
`users` (accounts), `dirs` (home and subdirectories), `trackers`, `ssh` (mode of
the SSH directory), `key`; `saltRows`, rows of `gros.project_salt`; `cl`, the
place of each `run.sh`; `secrets` (`secrets.json`), and `fetched`, the runs that
got their trackers. `overtaken` has the runs whose trackers another request removed
between the login and the read, for the properties. A salt pair is named after the
request that made it.

Each `sudo` call or statement that changes state is an action of its own:

| code | actions |
| --- | --- |
| `agent.py` 177-187 | `Acquire`, `Refuse` |
| `update_public_key` | `OpenSsh`, `CompareKey`, `RemoveSsh`, `MakeSsh`, `WriteKey` |
| `create_agent` | `RemoveTrackers`, `RemoveHome` or `AddUser`, `MakeHomeDirectories` |
| `clean_home_subdirectories` | `OpenHome`, `RemoveExportArea`, `RemoveUpdateArea`, `MakeHomeDirectories` |
| `get_update_trackers`, `get_salts` | `GetUpdateTrackers`, `GetSalts`, `InsertSalt` |
| `update_permissions` | `OwnDirectories`, `CloseKey`, `CloseSsh` |
| any exception (203-210) | `Fail`, then `Release` or `ReleaseFails` |
| a killed process, the lease | `Crash`, `Expire` |
| `generate_key.py`, `ControllerSource.update_identity` | `Post`, `Answered`, `GiveUp` |
| `preflight.py`, `status.py` | `CheckPermissions`, `CheckLock`, `StopPreflight` |
| `retrieve_update_trackers.py` | `LogIn`, `ReadTrackers`, `FetchRefused` |

A guard such as "the home exists" in `OpenHome` is the condition under which
the call does not raise; when it raises only `Fail` is possible. `Fail` is also
possible when it holds, as any `sudo`, Pyro or database call may raise.

`LogIn` is the connection that `SSH_Tracker.retrieve` checks (`update.py` 191-197),
`ReadTrackers` the `scp` after it, which does not mind files that are missing. In
between another request of the same agent may remove the update directory, and the run
then collects everything from the start: `CollectsWithTrackers` allows this to the runs
in `overtaken` only, and to none when the runs follow each other (`Serial`).

The mode of the SSH directory is what makes the sequence atomic for the agent:
the SSH server refuses logins while it is 2770 (comment in
`controller_daemon.py` 40-44), the first step sets 2770 and the last one 2700.

Assumptions: a living CGI process needs less than the lease of 3600 seconds
(`Expire` is not possible before it ends); the lock status sees the lock of other
processes (`Lock_Status` uses `is_acquired` of an etcd3 lock object; a version of
that library that compares the identifier of the object itself would always answer
"not acquired", which removes the guard of `CheckLock`: `LoginComplete` and
`OneSaltPerProject` do not depend on it).

### ExportPipeline

State per project: `head`, the newest version at the sources; `imported` and
`tracker` in the database; the files in the export directory of the agent
(`agentDir`), in its update directory (`update`) and in the controller directory
(`workDir`); the run (`cl`, `got`, `waitsFor`). State per export process: `ex`,
`exFor`, `copied`, `failed`, and `undone`, those whose import died before its data was
in. `offered` and `dropped` name the versions that a tracker at the agent goes past
without their import, before and after a run has fetched that tracker. A data file is the set of versions in it and a
tracker the newest version that was seen; one data file and one tracker file
stand for those of all gathering scripts of a run.

Provisioning is one step here (`Provision`), with the outcomes that
`AgentProvisioning` shows: it is done, refused before it changes anything, or
breaks half-way so that no login works. The run is `Preflight`, `Fetch`,
`Collect`, `UploadData`, `UploadTracker`, `Post`, `Answered`, with `StopRun` for
the failure of any script. `perform_export` of `export.sh` is `Copy` or `CopyFails`,
`Clear`, `Check`, `Wait`, `Start`, `ImportData`, `ImportTracker`, `ImportFails` or
`ImportDies`, `ClearUpdate`, `PushTracker`, `Cleanup`. The exit status of `jenkins.sh`
is that of `tee` and thus always good: an import that failed goes on as a success does.
`ImportFails` is a failure of the importer, which `status_handler` gives to
`error_handler`: only the removal of the trackers there tells the difference.
`ImportDies` is a failure of anything else under `-e`, as of `retrieve_importer.py`
(line 289), or a kill: the trackers stay and are pushed to the agent. `CopyFails` is a
`cp` that leaves something behind, after which `export.sh`, which has no `-e`, removes
the files of the agent all the same.

`Patient` says whether agents wait for the answer of `export.py`, which comes
when the export has ended. Without it an agent, for example behind a gateway
with a time-out, starts the next run while its export goes on.

`IncrementalCollection` says what this is all for: the database gets versions
that exist, in any order and more than once, and the tracker only moves forward
over versions that are imported, or that were named as dropped before.

### StatusStore

State: the database of a project (`known`, `source`, and `rows`, how often the
statuses of each POST were inserted); `pc`, the place of each POST; the
controller directory of the project and the file in it as the sequence of
`write` calls that made it; the import script (`import`, `connected`, `batch`,
`at`, `imports`). `before` and `goal` remember the database and the file as they
were when the script was started, for the properties.

| code | actions |
| --- | --- |
| `receive_status` of `status.py` | `Post`; the answers are `accepted`, `raised`, `failed` |
| `add_bigboat_status` of the gatherer daemon, `Statuses.update` | `Connect`, `Unavailable`, `FindSource`, `InsertSource`, `InsertRows`, `DatabaseRaises` |
| `update_status_file` of the controller daemon | `FindDirectory`, `MakeDirectory`, `OwnDirectory`, `AppendLine` or `AppendBegin` and `AppendEnd`, `ControllerRaises` |
| `import_bigboat_status.py`, `Statuses.add_batch` | `StartImport`, `AddToBatch`, `UpdateAndAdd`, `BatchRefused`, `EndOfFile`, `LastUpdate`, `ImportFails` |

The statuses of one POST are one line of the file and one member of the batch,
and `MAX_BATCH_SIZE` is counted in lines: the code adds a whole line at a time
too. A line of at most 8 KiB, the buffer of a Python text file, is one `write`
that appends as a whole; a longer one (`Large`) is two, between which another
request can write. A directory that was made and not given to the exporter stays
with root, and the daemon, which only looks whether it exists, cannot write in
it. `Register` stands for the import that adds the project to the database. The
schema is not in this repository; a row without a project is taken to raise.

### RepositoryUpdate

State per source: the remote repository (`made`, `history`, `head`, and `master`,
where the branch of that name is); the clone (`clone`, `local`, `at`); `latest`,
the file `latest_vcs_versions.json`, and `collected`, what completed runs have
exported. State of the run: `pc`, `force`, `todo`, `current`, and what the holder has
in memory, `newest` (`_latest_versions`) and `versions` (the table). A version is
the number of its making: the identifiers of the code have no order, and the
order of the model is that of the branch.

| code | actions |
| --- | --- |
| `_check_up_to_date`, `is_up_to_date` | `SkipUpToDate`, `RetrieveNew`, `CheckFails` |
| `from_source` of Subversion | `Connect` |
| `from_source` of Git: `clone` | `Clone`, `CloneFails` |
| `from_source` of Git: `pull`, `_cleanup` | `PullEmpty`, `Pull`, `PullRaises`, `PullForced`, `CleanupFails` |
| `is_empty` | `SkipEmpty`, `InfoFails`, `Process` |
| `get_data`, `get_versions` | `GetGitVersions`, `GetSubversionLog`, `DataRaises`, `DataForced` |
| `get_latest_version` | `GetLatestVersion` (`GetGitLatest`, `GetSubversionLatest`), `LatestFails` |
| `_export`; any other end | `Export`; `Abort` |
| other people | `Push`, `Rewrite`, `Elsewhere` |

One action is one call to a source: others may push in between. A history is
linear (merges bring in several versions at once, which a push of several
versions is here too) and a forced push replaces its newest version. `Elsewhere` makes a
revision of a Subversion repository outside its trunk: the log that is collected is that
of the trunk (`svn/repo.py` 265), the latest version that of the root (425-427), so the
latest version of Subversion need not be one that was collected. `Abort` also
stands for a run whose files do not get into the database, as `ExportPipeline`
shows that trackers and data are lost together. `git fetch` refuses to replace
versions (`CanPull`), and `git rev-list` refuses a range from a version that is not
in the clone (`KnowsLatest`). Runs of the agent have `--force` (`run.sh` 59), those
of Jenkins do not (`jenkins.sh` 314).

### JiraCollection

State: the issues in Jira (`created`, `updated`, `data`, `history`, `comments`) and
the clock `now`; the file `jira-updated.txt` (`tracker`), and `exported` and
`remarked`, what completed runs have written. State of the run: `pc`, `since` (the
time it collects from), `latest` (`Query._latest_update`), `skip` and `size` of
`Iterator_Limiter`, and the tables `versions` and `remarks`. `started` remembers when
the run started, for the properties.

| code | actions |
| --- | --- |
| `Update_Tracker.get_updated_since`, `Query.__init__` | `Start`, with `--updated-since` when its argument is `TRUE` |
| `search_issues` with `perform_batched_query` and `Iterator_Limiter` | `CollectBatch`, `LastBatch`, `StopAtLimit` |
| `write_tables`, `save_updated_since` | `WriteTables`, `SaveUpdatedSince` |
| any exception, a killed process | `Abort` |
| the users of Jira | `CreateIssue`, `Change`, `AddComment` |

`JiraChangelog` holds the algorithm: an entry of the changelog tells what was there
before; `fetch_changelog` makes one `Difference` of the entries of a second, and
`get_versions` starts from the newest data and applies the differences backwards
(`Transition`, `Reestablished`) as far as the tracker. The title stands for fields
with an older value, the attachments for fields that are counted, the rank for
those that belong to the change itself. `TrueVersion` is the reference definition: the version
computed forwards from the first entry.

One action is one query of a batch with the conversion of its issues: people change
issues between two batches. The time is in seconds and a minute, the precision of
the tracker and of the query, is `Minute` of them. The search has no order in its
text; Jira then gives the newest issues first, and changelogs with the oldest entry
first. `--updated-since` is modelled with the default of a project that was never
collected, which asks for everything.

### ReviewUpdate

State of the site: `made`, what happened when, per stream (pushes, comments on
commits, work items, notes of people and of bots); `date`, when a thread (a request
or an issue) was last changed; `closed`; `late`, notes on closed TFS requests. Kept
between runs: `tracker`, `version`, the rows in `db`, and `dropin`. Of the run: its
place, `trackerDate`, `latest`, the entries of a list (`todo`) and the `rows`.

| code | actions |
| --- | --- |
| the update tracker, `is_up_to_date`, `_check_up_to_date` | `Begin`, `UpToDate` |
| `get_data` of the three repositories, dropin files | `GetData`, `ProvideDropin`, `RemoveDropin` |
| lists of requests and issues | `GetList`, `EndOfList` |
| one entry with its notes, `set_latest_date` | `AddEntry`, `SetLatestDate` |
| events, comments on commits, work item revisions | `AddEvents`, `AddCommitComments`, `AddWorkItemRevisions` |
| any exception; the people | `Fail`; `Open`, `CloseOrReopen`, `Note`, `Act` |

An action is one answer of the review system: people work in between. The revisions of
work items come in batches in the order of their dates (`AddBatch`); the loop of
`_get_continuation` ends after a batch that is the last and has something in it, and
otherwise asks for ever (`tfs.py` 182-192). `RunEnds` therefore allows a run to stay there,
but only when it has every revision. `busy` has the
seconds in which a run went on and `cut` the requests that a list was without because
a page failed or because they moved between the two lists of TFS 2013: the code
promises nothing of either, and `NothingQuietIsSkipped` is about all the rest.

### SourceRegistry

State: `remote`, what the review systems have; the two files; the collection `all`
with the indexes `urls` and `environments`; what the program at hand has still to do.
The programs are `ProjectSources`, `StartJira` and `EnvironmentSources`; `AddSource`
is one source with its environment and the replacement it leads to, `ExportSources`
and `ExportEnvironments` are the two writes, with `Raise` in between. A source is a
record of type, name and the parts of its URL; `Url`, `Environment` and `SourceOf` say
what follows from the credentials of its host.

### MetricOptions

State of the site: when metrics were `born`, their `first` values, the `log` of
changes and what was `measured`. Saved: the tracker of the options, the names of
metrics, the tracker of the measurements (`cutoff`), the imported rows. Of the run:
the version it is at and what it found. `CollectOptions` and `FailOptions` are
`metric_options_to_json.py`, `CollectMeasurements` and `FailMeasurements`
`history_to_json.py`, `Abandon` a run that ends without an import. The clock counts
half seconds: a version has a fraction of a second, which `parse_date` drops. `Offset` is
the time zone of the dates of reports, which are read as UTC: it may be behind or ahead.
The rows of Quality-time are `TargetChanges`, each a change since the tracker in the answer
of the site, told by `RowOf`; `ComesBefore` is the order in which they reach
`Metric_Difference.add_version`, which leaves a row out that is like the one before it
(`Repeats`). The order of the metrics in a report is any (`Orders`).

### The parts of MCGatheringTools

- `Tables`: `AppendRow`, `UpdateRow` and `SetItem` are `append`, `update` and
  `table[key] = value` of the kinds of tables; `Write` begins to write, `LoadRow` merges
  one row of the file into those in memory, `Dump` writes the file, `NextProcess` is
  another script or run, with or without `secrets.json`.
- `JiraLinks`: `ChangeLink` is a change in Jira, `Collect` reads the links that there
  are, `CheckChangelog` one entry of the changelog, in any order.
- `SprintCalendar`: `PrefetchSprint` and `ParseSprint` write the table, `LoadSprints`
  reads and sorts it in a stable order (`Sorts`), `FindSprint` is `find_sprint` with its
  bisection: `Latest` is one search, `Bisect` the function that repeats it.
- `SvnDifference`: an action is a line of the output (`IndexLine`, `OldLine`,
  `NewLine`, `HunkLine`, `ContentLine`), its end (`GetData`), or a failure.
- `JenkinsArtifact`: an action is one request (`GetJob`, `GetLastBuild`,
  `GetLastBranchBuild`, `CheckResult`, `Download`, `CountJobs`, `CountNodes`,
  `StartScrape`, `BuildJob`), with `RequestFails`; builds start, end and are discarded
  in between.
- `GatherJob`: `StartJob` chooses the scripts and `importerTasks`, among them `skip`; then
  per project `FetchDropins`, per script `Skip`, `Dropin` or `NoDropin`, `RetrieveTrackers`
  and `RunScript`, and in the end `Import` or `ImporterFails`. `Fails` is a failure of a
  command that `status_handler` runs, which calls `ErrorHandler`; `Dies` is one of any
  other command under `-e`, or a kill, after which the update files stay. `unrestored` has
  the update files that a job left behind without the import of what is before them, and
  `skipped` those of which the tracker got into the database.
- `ScrapeSchedule`: `Scrape` is the look for a run and the start by cron or the web
  service, `NextProject` the loop of `scrape.sh`, `Preflight` the check with every
  single fault of the controller (`Answer` goes through the parts of the status page),
  `CollectAll` and `CollectFails` the rest of `run.sh`, `ImportTrackers` the import,
  `UpdateTrackerSchedule` a date set by hand, `RestartGatherer` a new process of the
  daemon, in which `hash` of a text is another one. Ages stand for dates: they grow at
  each `Tick` up to an age that every schedule lets through, and the day of the year is
  kept modulo two periods, so that the clock needs no bound.
- `KeyPublishing`: `StartPublishing` is a run of `generate_key.py` with the options of
  `run.sh` or `start.sh`, `UpdateSource` takes its sources one by one (`MakeSource`,
  `GitLabSources`), `StoreKey`, `MovePublic` and `ReadKey` are the files of the key
  pair, `PublishToController` and `OpenKeyring`, `ListPage`, `CreateKey` are
  `update_identity`, `RemoveOldHostKeys` and `AppendHostKeys` are `_scan_host`;
  `CannotPublish`, `NoPublicPart` and `CannotScan` are what the log complains of,
  `BreakOff` is any other exception or the end of the process, `Meanwhile` what others
  do to the files and hosts between the runs. GitLab gives the list of keys page by
  page, and a key that is deleted moves those behind it.

## Runs

| run | result | what it shows |
| --- | --- | --- |
| `provisioning` | pass | `LoginComplete`, `OneSaltPerProject`, `CollectsWithTrackers` for three overlapping runs of one project, one with another key, one with `--skip` |
| `provisioning_live` | pass | `EveryRequestEnds`, `LockIsFreed` for two runs |
| `pipeline` | pass | `NoVersionIsSkipped`, `ExportImportsItsData`, and the refinement `CollectsIncrementally` |
| `waiting_exports` | pass | `EveryExportEnds` for two exports of an impatient agent |
| `status_store` | pass | `AcceptedIsStored`, `ImportedOnce`, `ReadIsIntact` for four POSTs, one of them large, and two starts of the import |
| `repositories` | pass | `LatestIsCollected`, `NoCommitIsSkipped`, `EveryVersionIsCollected` for a Git repository, which may be empty at first, and a Subversion repository |
| `jira` | pass | `RunIsComplete`, `NothingIsSkipped`, `VersionsAreTrue`, `VersionsAreStable` for two issues in batches of one, one of which changes during runs |
| `reviews` | pass | `NothingQuietIsSkipped`, `RunEnds`, `EverythingQuietIsCollected` for a request and an issue at each of the four systems |
| `sources` | pass | `IndexesAreExact`, `NothingIsForgotten`, `EnvironmentsOfSources` for repositories that moved, that a team has and that have two spellings |
| `metrics` | pass | `RowsAreTrue`, `ChangesAreCollected`, `MeasurementsAreCollected`, `RowsAreNew` for two metrics in both kinds of sources |
| `tools` | pass | the properties of the eight parts: `KeysAreUnique`, `EncryptedOnce`, `MergeKeepsBoth` (tables), `DatesOfLinksAreTrue`, `SprintIsTheLatest`, `StatisticsAddUp`, `ArtifactWasChecked`, `NothingIsSkipped` (of `GatherJob`), `ScheduleFollowsCollections`, `SkewIsBounded`, `UnreportedMeansPublished` |
| `schedule_drift` | violation | `SkewIsWithinDrift`: the schedule is skewed by up to three times the drift, where the configuration guide and a comment promise the drift |

Bounds. Three runs are enough for a request, one that breaks it and one that
finds what both have left; two keys tell a same key from a new one; one or two
projects tell a lock that is shared from one that is not. Each run of
`AgentProvisioning` happens once, so the system stops (`CHECK_DEADLOCK FALSE`).
In the pipeline runs repeat without bound; versions are bounded by `MaxVersion`:
3 allow a batch that is imported, one that fails and one that comes after it. What the history variables keep is
noted for patient agents only (`Noted`), as no property of others is about it.
Two exports can exist at the same time. Projects share nothing but the wait for
each other's imports, in which two exports of an agent that does not wait show
the same, so that one project is enough; the proofs hold for any number.
In `status_store` a batch holds one line before it is too large, so that a file
of three lines has a batch in the middle and one at the end; the file may grow
while it is read, and the second start of the import reads it again.
In `repositories` the number of runs is not bounded; each repository gets at most
three versions, and both together five (`MaxMade`): one that is collected, one that a forced push replaces and its
replacement. A batch has two versions and a run at most four, so that a log needs
two batches and the limit of a run is not reached. The two sources share the run
and its export, which is where a failure of one can do harm to the other.
In `jira` time goes up to 5 seconds in minutes of 2: a run that starts within a
minute, one in the next, and the seconds between which the precision makes a
difference. Two changes of the whole project, each of two kinds of fields, make
issues with three versions and changes in the same second; the maximum of the
limiter is the number of issues, where it must not be reached. Runs are not bounded.
An issue in `Quiet` changes only while there is no run and after the minute of the
tracker: for others `NothingIsSkipped` is false, because the tracker gets the time
of the last query and not that of the batch of the issue. What was changed before a
run started is collected for all issues (`RunIsComplete`).

In `reviews` three seconds, three acts of people and one failure let a thread change
before, between and after the lists of one run and before the next; one request and
one issue are enough, as dates relate a thread to the tracker and not to other threads
(the proof is for any number). Work items get up to three revisions, in one to three batches.
In `sources` the instance has a source of every kind that the code treats on its own: a
host that was renamed with a group, a team, two spellings, definitions and Jira. Runs of
the programs are not bounded; one exception falls between any two writes.
In `metrics` there are two metrics, three changes or measurements, two runs and one
failure over two seconds of two halves; metrics of Quality-time that are there from the
start have one change already, and a request gives three, so that a fourth is lost, which
is what ten are in the code. The time zone is half a second behind UTC, the least that is
behind: there a change in the second of a version can look older than it, which it cannot
ahead of UTC. Each exception of `ChangesAreCollected` is needed: TLC finds the property
violated without it. The proof is for any time zone.
In `tools` a table gets two rows in each of two processes, with every kind of key; a
link four changes, which is added, removed, added and removed; sprints are three, so
that one can lie around two others; a difference has two files and three lines; the
server lists two of three builds; a project has one or two versions over two jobs, whose
`importerTasks` are all, all but the trackers, the tasks of one script or none (`SomeTasks`);
and a
schedule has two periods of two days of two ticks with a drift of one tick, so that
the toggle takes the values -1, 0, 1 and 2 (3 is the limit that it never reaches).
In `KeyPublishing` GitLab has one key on a page and the agent two projects, two key
pairs and one GitLab host under two names; one key pair is renewed or one host gets new
keys; runs are not bounded.
In `ScrapeSchedule` scrapes keep apart (`ApartRuns`) and one fault at a time is at the
controller.

Fairness. A CGI process that is not killed goes on, as does one of `export.sh`:
weak fairness of `Provision` and `PerformExport`. A lease runs out by itself:
weak fairness of `Expire`. An export polls with `pgrep` every second, and is
assumed to hit a moment without an import if there are such moments again and
again: strong fairness of `Wait`. Nothing is assumed of the agents, of crashes
and of failures. For `EveryVersionIsCollected` a run goes on (weak fairness of
`Step`, a script that is not killed), runs with `--force` are started again and
again by the schedule of the agent, also if others are started in between (strong
fairness of `Start(TRUE)`), and from some moment on only those steps fail that have
to (`NoTrouble`): without that nothing can be promised. For
`RunEnds` and `EverythingQuietIsCollected` cron starts runs of the review systems again
and again (weak fairness of `Begin`) and a run goes on as long as the system answers
(weak fairness of `GetReviews`). The others are safety properties and assume nothing.

## Proofs

The type invariants of the modules with proofs are proved (`TypeCorrect`; for
`MetricOptions` as a part of `InvariantHolds`), so that no run has them as a property.

`AgentProvisioning_proofs` shows for any sets of runs, projects, agents and
keys, and for any choice of `--skip`:

- `TypeCorrect`: `Spec => []TypeOK`;
- `InvariantHolds`: `Spec => []IInv` under `OneProjectPerAgent`;
- `LoginIsComplete`, `SaltsAgree`, `TrackersAreUsed`: its consequences. The last says that
  a run that collects has its trackers or was overtaken by another request between its login
  and its read, and that no run is when the runs follow each other.

`OneProjectPerAgent`, no two projects with the same agent, is needed: TLC finds a
login that is not complete without it (see below). It is a hypothesis of the
theorems and not an assumption of the module, because the module is also
checked without it.

`LoginComplete` is not inductive: that the directories are there when the SSH
directory is closed depends on what the request did before. `IInv` says what is
true at each place of the request: it has the lock of its project (`HoldsLock`)
and so no other request works on the files of its agent; the SSH directory is
not closed after the first step (`SshIsOpen`), so that the other steps may do
what they want; the key, the trackers and the directories are there after the
steps that put them there (`KeyIsStored`, `TrackersAreThere`,
`DirectoriesAreThere`). `NoSaltYet`, `OneRow` and `GivenIsStored` do the same
for the salts. A run that is logged in and not overtaken has its trackers
(`ReadingIsComplete`), and runs that follow each other are not at their login while a
request of the agent goes on (`RequestIsAlone`). `OtherRuns` is the central lemma: a request that works excludes
all others with its agent. The steps are then split by operation (`PlaceKeeps`,
`ServerStep`, `AgentStep`, `InvariantStep`). `IInv` was model-checked before it
was proved.

`Gathering_proofs` shows of the pipeline, for any sets of projects and exports and any
number of versions:

- `TypeCorrect`: `Spec => []TypeOK`;
- `InvariantHolds`: `Spec => []IInv` when `Patient`;
- `SkipsNothing`, `ExportsImport`: its consequences `NoVersionIsSkipped` and
  `ExportImportsItsData`;
- `Implements`: every step of the pipeline is one of `IncrementalCollection` or
  does not change what that specification sees.

`Patient` is needed: without it two exports of a project overlap, and TLC
finds a batch that the cleanup of the first one removes. `NoVersionIsSkipped` is not
inductive, because it says nothing of the data on its way. `IInv` adds that a
run and its export exclude each other (`ExportIsAwaited`, `RunAwaits`,
`NoSharedExport`), so that nobody else touches the files of an export; that
wherever a tracker is on its way, the versions up to it are imported or in
the data beside it (`FetchedIsSound`, `CollectedIsSound`, `FilesAreSound`);
that nothing of an earlier export is left in the controller directory
(`WorkDirIsClean`); what an export has done at each of its places
(`ExportGoesOn`); and that an export whose import died is past it (`UndoneIsOver`). All of
them speak of versions that are imported or that were named: `dropped` for good, `offered`
until the tracker at the agent is replaced. The refinement follows: an import only adds
versions that exist, and moves the tracker only over versions that are imported or dropped;
a run that fetches the tracker of an import that died drops what is before it.

`StatusAPI_proofs` shows of the statuses, for any POSTs, batch size and number of imports, and
without any hypothesis:

- `TypeCorrect`: `Spec => []TypeOK`;
- `InvariantHolds`: `Spec => []IInv`;
- `NothingIsLost`, `NothingIsDoubled`, `BatchIsIntact`: its consequences
  `AcceptedIsStored`, `ImportedOnce` and `ReadIsIntact`.

The database and the file exclude each other for a POST (`NothingWrittenYet`,
`OwnRows`), a POST has one line in the file (`OneLine`, `RestIsMissing`,
`LastWrite`), and the rows that an import added are exactly those of the lines
it read that are not in its batch (`BatchIsRead`, `ImportedRows`,
`BeforeIsPast`). Nothing of this depends on the order of the requests.

`RepositoryUpdate_proofs` shows for any sources, Git or Subversion, and any number
of versions:

- `TypeCorrect`: `Spec => []TypeOK`, without any hypothesis;
- `InvariantHolds`: `Spec => []IInv` under `SubversionIsQuiet` and `NothingIsLimited`;
- `NothingIsSkipped`, `LatestWasCollected`: its consequences `NoCommitIsSkipped` and
  `LatestIsCollected`, of which the second is about the Git repositories.

`SubversionIsQuiet` is needed because the server is asked for the latest revision
after the log (revisions outside trunk may be made at any time, see `Elsewhere`);
`NothingIsLimited` because a run that stops at `MAX_SIZE` leaves out
the oldest versions of a Git repository. `NoCommitIsSkipped` says nothing of the
run: `IInv` adds that what the run has in memory is as good as the file
(`NewestIsSound`), at every step and thus also when it is exported after failures;
that a clone has all versions of the source up to its own newest one, unless they
were replaced (`CloneIsOld`, `HeadIsNewest`); and that between the two calls of
`_process_repo` the table has all versions after the latest one (`ReadIsComplete`).
`GetLatestStep` is where these meet: the head of the clone becomes the latest
version, all of whose predecessors are in the table or were collected before; it
fails when a range from a version unknown to the clone were not refused.

The module also shows, for any output of `svn diff` and without a hypothesis:

- `StatisticsAgree`: `DifferenceInit /\ [][DifferenceNext]_differenceVars => []StatisticsAddUp`.

While the output is read, the totals are the sums of the rows so far, the file at hand
makes up the rest (`Counted`), and the first file is read as what it is because its head is
not over before its first hunk (`Place`). `Sum` is a recursive function; `SumsExist` shows that it
is one, and `SumOfMore` and `SumOfLast` what a row more and another last row add to it.

`JiraCollection_proofs` shows for any number of issues, batch size, minute, and any
changes:

- `InvariantHolds`: `Spec => []IInv` under `NothingIsLimited`, and its consequences
  `RunCollectsAll` (`RunIsComplete`) and `NothingSkipped` (`NothingIsSkipped`);
- `ContentHolds`: `Spec => []ContentInv`, without any hypothesis, and its consequences
  `TypeCorrect`, `VersionsTrue` (`VersionsAreTrue`) and `VersionsStable` (`VersionsAreStable`);
- `VersionsOrdered` (`DatesAreOrdered`): the dates of the versions of an issue go up with
  their numbers.

`NothingIsLimited`, no more issues than the maximum of the limiter, is needed
because a run that stops there saves its time all the same. The invariant for the
run is `BatchesAreComplete`: an issue has been collected, or its position in the
answer is not before `skip`. It is kept because a change can only bring issues into
the answer, so that positions grow (`PositionGrows`); a quiet issue does not change
at all. At the end a batch is empty, and then every position is before `skip`: the
positions of the answer have no gap, which is shown with a smallest counterexample.
`LimitIsExact` says that the limiter stops beyond all issues only.

`ContentInv` relates the changelog to the issue: an entry tells what was there before it
(`HistoriesAreTrue`), and a version in the tables has what its issue had after as many
entries as its number says (`VersionsHold`), if no second has two of them. `DataAfter` is
the closed form for the data after a number of entries. `GetVersions` goes back from the
newest data by a recursive function; that it meets the closed form at each second
(`SecondIsUndone`) is shown with a greatest counterexample, and a version that an incremental
run makes is therefore the one that a full run makes.

For the dates, `DatedInv` adds that a version's date is between its second and the one
after it (`RowDated`): the newest version has the date of the last update, and a later
change is not before it (`ChangeKeepsDates`). No run checks `DatesAreOrdered` since it
is proved.

The module also shows, for any sprints and moments and without a hypothesis:

- `SprintIsRight`: `CalendarInit /\ [][CalendarNext]_calendarVars => []SprintIsTheLatest`.

The sprints that have begun are the first of the sorted ones (`BegunAreFirst`), so that one
search finds the last of them if it has not ended (`LatestIs`). `Bisect` repeats it among
fewer and fewer sprints: what it finds fits (`FoundFits`), and where no sprint lies within
another nothing that fits is left out after it (`LastIsFound`), both with a smallest
counterexample.

`ReviewUpdate_proofs` shows for any systems, threads, numbers of acts, failures and
seconds, and without any hypothesis:

- `TypeCorrect`: `Spec => []TypeOK`;
- `QuietIsKept`: `Spec => []NothingQuietIsSkipped`.

The invariant says that what is not after the tracker that a run began with is in the
database or in the rows of the run (`OldIsSafe`), and that what is after it is there
too or still to be read (`NewIsReadOrListable`): `Listable` gives for each table the
places of the run before its list, and the entries of the list at hand. It needs that a
thread is not older than its notes (`NotesChangeDates`), that a dropin file has all
before its own date (`DropinIsComplete`), and that a second without a run is behind the
clock once a run begins (`NowIsLater`, `RunIsBusy`).

`SourceRegistry_proofs` shows for any sources, hosts and credentials, also when the
programs break off between their files:

- `TypeCorrect`, and `IndexesHold`, `SourcesAreKept`, `FilesAgree`: `Spec => []P` for
  `IndexesAreExact`, `NothingIsForgotten` and `EnvironmentsOfSources`.

`IInv` adds `FoundIsHeld`, that every URL which a program found is still in its
collection. The operations have lemmas of their own (`IncludeIsExact`,
`ReplaceIsExact`, `DeleteIsExact`, `LoadIsExact`): each keeps both indexes those of the
collection.

`MetricOptions_proofs` shows for both kinds of sources, any metrics and numbers of
changes, failures and runs:

- `InvariantHolds`: `Spec => []IInv`;
- `ValuesAreTrue`: `Spec => []RowsAreTrue`;
- `ChangesAreSafe`: `Spec => []ChangesAreCollected`;
- `MeasurementsAreSafe`: `Spec => []MeasurementsAreCollected`;
- `RowsStayNew`: `Spec => RowsAreNew`, an action property.

`IInv` says that each entry of a changelog has as old value what was there before it
(`LogHolds`); that the rows in the tables and in the run are true and that a change
before the tracker, or before the version of the run, has its row or one of the
excuses of `ChangesAreCollected` (`TablesHold`); that the entries are in the order of their
times (`InOrder`); it relates the rows to the tracker
(`ChangesHold`), the names that the options left to the metrics that existed at that
version (`NamesHold`), and the measurements to both trackers (`PointsHold`). The code
goes back from the values that are shown and undoes each change in turn; the model
writes this as a recursive function, and `UndoIsTrue` shows that it finds the
values in effect after each change, for a changelog of any length: the closed form
(`Between`) solves the equation, and a largest index at which another solution
differs cannot exist (`UndoneHolds`). A row that `Metric_Difference` leaves out as equal to
the one before it (`Repeats`) is shown to bring back the values of an earlier second, with
nothing but changes of these two seconds between (`RepeatsReverts`): one of the same second
would have been undone before. A target of which the version shows the default is not undone;
`DefaultMeansUnchanged` shows why that is no harm.

The parts of `MCGatheringTools` have modules of their own and are proved in the modules
of the components that they belong to. `AgentProvisioning_proofs` shows of the keys, for
any sources, hosts, options and page size:

- `PublishTypeCorrect`: `PublishSpec => [](PublishTypeOK /\ HasSource)`;
- `RunsPublish`: `PublishSpec => []UnreportedMeansPublished`.

`PublishInv` says that a process has read what the key files have (`FilesInv`); that the
keys of the agent at a GitLab host are one for a project, in the order of their making and
none newer than the file, and that the keys of others are kept (`KeyringInv`); that the
pages behind the one at hand have no key of the project left (`PageInv`), where keys move
up when one is deleted; and that every source that the process is behind of is published
and known, or reported (`CheckedInv`, `DoneInv`).

`StatusAPI_proofs` shows of the schedule, for any projects, days and drift:

- `ScheduleTypeCorrect`: `ScheduleSpec => []ScheduleTypeOK`;
- `SkewHolds`: `ScheduleSpec => []SkewIsBounded`, by the arithmetic of `CalculateDrift`;
- `ScheduleFollows`: `ScheduleSpec => []ScheduleFollowsCollections` under `ApartRuns`.

`DatesFollow` says that a date in the database or on its way is not newer than the last
collection (`RowsAreNoNewer`, `NoNewer`), and that the file of a run that collects is as old as the
run (`RunsAreNoOlder`), which holds because only one scrape is not idle (`OneScrape`).
Without `ApartRuns` it does not (see below).

`Gathering_proofs` further shows, each without a hypothesis:

- `GatherTypeCorrect`, `NoGap`: `GatherSpec => []NothingIsSkipped` for any projects, scripts,
  `importerTasks` and number of jobs. All versions up to an update file are in the database,
  or the job at hand wrote it and has the data before it in its export file, which it will
  import, or which it notes when it does not (`Pending`, `GatherInv`). What a job leaves
  behind without its import is what `unrestored` names: all it wrote when the shell died, the
  dropins when the error handler removed what the scripts wrote, and what `importerTasks` has
  no task for. A tracker that the importer takes from such a file is in `skipped`.
- `CheckedIsTaken`: `JenkinsSpec => []ArtifactWasChecked` for any branches and builds. What
  the client keeps of a build was true when it was read, and what was true of a build that
  has ended stays so (`JenkinsInv`, `DataIsTrue`).
- `DatesAreKept`: `LinksSpec => []DatesOfLinksAreTrue` for any kinds of links and any order
  of the changelog: what was read so far has its first date of addition and its last of
  removal (`ReadInv`).
- `KeysStayUnique`, `EncryptsOnce`, `MergeIsComplete`: `TablesSpec => []P` for `KeysAreUnique`,
  `EncryptedOnce` and `MergeKeepsBoth`, for any kinds of tables, rows and processes.
  `LoadInv` is what makes a second row of a person impossible: a row of the file is found
  by its key as it stands in the file, plain or encrypted, if that person has a row in memory.

Assumptions on constants, which TLC evaluates: a name of a link occurs in itself
(`LinksAssumption`: `Within` stands for the `in` of Python); a job has at least one
project and one script and names a script once (`GatherJobAssumption`, as `jenkins.sh`
does); the keys of others are not those of the agent, and a page has at
least one key (`PublishingAssumption`); the days and the drift are not zero (`ScheduleAssumption`).

Only model-checked are the properties of liveness under fairness (`EveryRequestEnds`,
`LockIsFreed`, `EveryExportEnds`, `EveryVersionIsCollected`, `RunEnds`,
`EverythingQuietIsCollected`), as these are beyond what the prover does. Every invariant and
action property that a run checks is stated by a theorem. The induction theorems of the library
take an operator, which the provers cannot instantiate; where a property depends on what a
recursion over a sequence computes (a changelog, a bisection, a sum, a list of options), the model
writes it as a recursive function, and the proof shows first that the function exists and then
what it computes, by the first number at which it would not.

## Divergences met while modelling

The run `schedule_drift` is the one that TLC reports on each check. The others were
found in the same way, by a property that the models still state where it is named here
and that no run spends time on:

- Two projects with the same agent key that overlap get a login that is not complete:
  the lock is per project, the files per agent (`LoginComplete` without
  `OneProjectPerAgent`).
- A request that stopped between `rm -rf` and `mkdir` of a home leaves an account that
  the next one tries to add: `useradd` fails, and so does every request after it
  (`AddsMissingUserOnly`, `controller_daemon.py` 169-181).
- A run that is logged in while another request of its agent removes the update directory
  reads no trackers, which is no error, and collects everything from the start (`update.py`
  191-210; `CollectsWithTrackers` without `overtaken`).
- An import that ends without `error_handler`, by a `retrieve_importer.py` that fails
  (`jenkins.sh` 289) or a kill, leaves its trackers, and `export.sh` 65-79 pushes them to the
  agent, as it sees the status of `tee`. If the provisioning of the next run is refused, the
  run goes on with them and the versions before them are skipped for good
  (`NoVersionIsSkipped` without `dropped` and `offered`). So are those of a data file that
  `cp` did not copy while it copied the tracker (`export.sh` 50-51).
- A job of `jenkins.sh` that dies outside of `status_handler` (168-169, 221, 237, 289) or
  whose `importerTasks` leave the data of a script out (86-99, 326) keeps the newer update
  files. `retrieve_update_trackers.py` does not overwrite a local file that is newer than
  the one in the database (`update.py` 71-105), so the next job continues after what was
  never imported (`NothingIsSkipped` without `unrestored` and `skipped`).
- The cleanup of an export removes the data of the next one of an agent that does not
  wait (`ExportImportsItsData` with `Patient` FALSE, `export.sh` 93).
- An error of a database statement does not lead to the file of statuses, although
  `status.py` 399 says so for any database problem, nor does an unknown project, whose
  identifier `None` is compared to `False` (`DatabaseProblemsGoToFile`, `bigboat.py` 174).
- A clone that was made of an empty repository is never updated, as it has no branch to
  pull (`SourceIsUpToDate`, `git/repo.py` 297).
- The latest version of a Subversion repository is the last revision of its root, which may
  lie outside the trunk whose log is collected: it is then not a version "that has been
  collected previously" (`version_control/repo.py` 134; `LatestIsCollected` for all sources).
- The work item revisions of TFS end only with a last batch that is not empty: a project
  without revisions after the date, or with an empty batch after the others, is asked for
  ever (`tfs.py` 182-192; `RunEnds` without its second part).
- TFS repositories count as up to date by their versions alone: requests that change
  without a push wait for one (`UpToDateMeansNoNews`, `tfs.py` 422).
- `get_environments` walks over sets that its caller changes; an environment that
  becomes empty ends it early (`EachEnvironmentIsGiven`, `sources.py` 197).
- The tracker of the metric options moves past a version that could not be read
  (`EndWasParsed`, `collector.py` 223).
- The dates of reports of Quality-time are local times that are compared to the tracker as
  if they were UTC (`quality_time/parser.py` 253-254, `data.py` 153-155): behind UTC a change
  that looks older than the last version is never collected; ahead of UTC a report is only
  read again for nothing (`ChangesAreCollected` without `LooksOld`).
- `Metric_Difference.add_version` leaves out a row that is like the one before it
  (`metric.py` 48-64). The changes of a second reach it with the newest first, so that a
  newer change which reverts one of the same second is compared to the rows of an earlier
  second, and is lost when it brings back these values (`ChangesAreCollected` without
  `Reverted`).
- From the second file of a Subversion difference on the two lines that name its
  versions count as a deletion and an insertion (`InsertionsAreCounted`,
  `svn/difference.py` 61: `_head` is never set back).
- A dropin of a job that failed after copying it counts as imported in the next job
  (`NothingIsSkipped` without `unrestored`, `jenkins.sh` 215).
- With runs that do not keep apart (`ApartRuns` FALSE) a run exports the date that
  another one wrote, and the schedule then waits for a collection that broke off
  (`ScheduleFollowsCollections`; `pgrep` does not see `scrape.sh` before `run.sh` nor in
  its pause between two projects, so `/scrape` may start a second one although
  `doc/source/api.md` 34 says it answers 503).
- A GitLab host that the credentials name twice, as one that was changed and as what it
  was changed to, has one environment: its keys are published once, and only the name
  that came first is scanned for `known_hosts` (`generate_key.py` 202-208; therefore
  `UnreportedMeansPublished` asks for one of the names).
- A key pair of which only the private half was moved when the process ended is taken
  for a deploy key by all later runs, which publish nothing and only warn
  (`generate_key.py` 153-166).
- A renewed key that another project of the agent published already can be moved past
  by the deletion of the old one on the page before it; GitLab refuses the second copy
  with an exception that ends the run, and the next run finds it (`gitlab.py` 325-343).
- Smaller ones: with `--skip` a controller that cannot be reached still ends the
  preflight check by an exception (`preflight.py` 78-80); a `pymonetdb` error in the query of the tracker
  breaks the status page, where a refused connection does not; a sprint around two
  later ones is not found between them, and a sprint without dates is a `KeyError` for
  all that ask for one; the artifact of a `lastBuild` link may be of a later build than
  the result that was checked; `start_scrape` comes before `export_data`, so that a
  Jenkins request that fails breaks the export off.

## What is not modelled

Layout of messages, logging, HTTP status codes other than the difference between
good and bad, the web front-end, host names and certificates. `project_id`
creation, user name patterns and additional tracker files of `get_update_trackers`
do not affect the properties. Of the gathering library: statistics of Git commits,
tags, the parsers of simple Jira fields, conversions of user names, project metadata
and versions of servers: each of these
converts one answer to one row and keeps nothing. The LDAP, Topdesk and seat count
scripts read a file or a server once. The APIs `access.py`, `encrypt.py`, `log.py` and
`version.py` give one answer each and keep no state. The database and request wrappers,
logging and configuration are thin layers over libraries; maintenance scripts are used
once; schemas are data. The importer is not in this repository: it is modelled as the
steps that import data and trackers.

Simplifications that matter: one clock where the code compares times of several
machines (the tracker of Jira and the date of the schedule are local times); one
fault at a time at the status page; in the pipeline one data file and one tracker for
those of all scripts, whose own trackers are in the modules about them.
