# WestDrive: a TLA+ model of the rental back end

WestDrive (`src/`) is a NestJS API over PostgreSQL (TypeORM 0.3) for a vehicle
rental company: reservations of vehicles, the fleet behind them, accounts,
sessions and permissions. This directory holds TLA+ modules translated from its
services, the TLC configurations that check them, and proofs for TLAPS.

The central fact about the program: **a handler is a chain of awaited SQL
statements outside any transaction**. Node runs handlers concurrently, the
database runs each statement atomically, so every decision a handler takes on
what it has read may be out of date when it writes. The models therefore take
one step per statement.

## 1. Inventory

| Component (source) | State | Operations that change it | Hard behaviour |
|---|---|---|---|
| Reservations (`src/reservations/reservations.service.ts`) | `reservations`, `reservation_events` | create, update, updateStatus, createStripePreauth, createEvent, remove | check-then-write over several awaits, stale `save()`, several rows per operation without a transaction |
| Fleet (`src/fleet/fleet.service.ts`) | `vehicles.operational_status`, `fleet_incidents`, `vehicle_schedule_slots` | updateVehicleStatus, create/update/removeIncident, create/update/removeScheduleSlot | the rule that a critical incident blocks its vehicle spans two tables; no look at the reservations |
| Vehicles (`src/vehicles/vehicles.service.ts`, `src/shared/storage`) | `vehicles`, `vehicle_images`, files at Cloudinary | create, update, remove, uploadImage, removeImage | database and file store change one after the other; update saves the status it loaded |
| Auth (`src/auth/auth.service.ts`) | `auth_otps`, `refresh_tokens` | requestRegisterOtp, confirmRegisterOtp, login, refresh, forgotPassword, resetPassword | one-time use, rotation, revocation racing issue, mail failure |
| Users (`src/users/users.service.ts`) | `users`, `company_profiles` | createUser, create, update, updateStatus, updatePasswordHash | unique e-mail, suspension against open sessions |
| IAM (`src/iam/iam.service.ts`, guards) | `roles`, `permissions`, `role_permissions`, `user_roles` | bootstrap, createRole, updateRolePermissions, assignRoleToUser | replacement in two statements, permissions frozen in tokens |
| Pagination (`src/shared/pagination`) | none | pure arithmetic | boundaries |
| Mail (`src/shared/mail`) | none | sends or throws | failure after the OTP is stored |
| HTTP plumbing (`src/main.ts`, pipes, interceptor, filter, `src/config`) | none | formatting | none |
| Database (`src/database`) | schema, seed data | migrations, `seed:all` run by hand | keys and cascades matter to the handlers; the script may run beside the API |

Interaction: controllers call one service method per request, behind
`JwtAuthGuard` and `PermissionsGuard`. Services share state only through the
database: ReservationsService reads `vehicles` and `vehicle_schedule_slots`,
which FleetService and VehiclesService write; AuthService calls UsersService,
IamService and MailService; VehiclesService calls CloudinaryService. There are
no queues, timers or callbacks; time enters through expiry dates. The one thing
the program does on its own is the seed of `IamService.onApplicationBootstrap`,
after every start and before the first request is served.

What makes each component correct: no vehicle promised twice, a status that
follows `ALLOWED_TRANSITIONS`, a timeline that accounts for it (Reservations);
an unresolved critical incident keeps its vehicle out of booking, slots are
ordered (Fleet); no row without its file and no file without its row
(Vehicles); an OTP and a refresh token used once, no session surviving a
password reset (Auth); an administrator who has every permission whenever the
API serves, and a role with the list that was asked for (IAM).

`PROJECT.json` lists the hazards line by line, with the properties that catch
them, or the reason why none does.

## 2. Plan

1. `Lifecycle`, `Reservations`: the core. *Done.*
2. `ReservationsProofs`: types, lifecycle, finality of removal, ordered ranges,
   the calendar; `TimelineProofs`: the four properties of the timeline. *Done.*
3. `FleetView`, `Fleet`, `FleetProofs`: incidents, operational status and slots
   with the same treatment of `save()`; the abstract `FleetView` holds exactly
   what Reservations sees, and `Fleet` is shown to implement it. *Done.*
4. `Calendar`, `CalendarProofs`: the abstract promise of Reservations (disjoint
   bookings per vehicle, placed, moved and ended in one step), implemented by
   `Reservations` under `Isolation = "serial"`; and `BookingRespectsFleet`.
   *Done.*
5. `Sessions`: codes, sessions, rotation, password reset and what an
   administrator does to an account. `SessionsProofs`: what holds for every
   interleaving; `SessionsAccountProofs`: what holds for one request at a time
   per account. *Done.*
6. `Iam`: the seed at every start, the seeding script beside it, and the
   requests, with failures, crashes and restarts. `IamProofs`: all but its
   liveness. *Done.*
7. `VehicleImages`: rows and files of the galleries, with failures on both
   sides. `VehicleImagesProofs`: its three properties. *Done.*

Every safety property of a passing run is now stated by a theorem; liveness
stays with TLC. Extensions that would be worth their run: a finer model of
`save()` of a vehicle (its SELECT and its transaction apart), and the seeding of
vehicles by the script beside VehiclesService.

## 3. Modules

| Module | Contents |
|---|---|
| `Lifecycle` | constant tables of the service: statuses, blocking statuses, transitions, status events, the interval test |
| `FleetView` | abstract: what the rest of the system may rely on about vehicles and schedule slots |
| `Reservations` | ReservationsService and its tables, acting beside `FleetView` |
| `Fleet` | FleetService and the update and deletion of vehicles, over their three tables; implements `FleetView` |
| `Calendar` | abstract: what ReservationsService promises about the vehicles |
| `Sessions` | AuthService and UsersService over accounts, codes and sessions |
| `Iam` | IamService, its seed at the start of the API, and the script `seed-all`, over roles, permissions and their links |
| `VehicleImages` | VehiclesService and CloudinaryService over vehicles, rows of images and files |
| `MCReservations`, `MCFleet`, `MCSessions`, `MCIam`, `MCVehicleImages` | small instances for TLC |
| `ReservationsProofs`, `TimelineProofs`, `CalendarProofs`, `FleetProofs`, `SessionsProofs`, `SessionsAccountProofs`, `VehicleImagesProofs`, `IamProofs` | proofs checked by TLAPS |

`Reservations` and `Fleet` are composed through `FleetView`: `Reservations`
takes its fleet actions from it (`View!SetVehicle` and so on), and
`Fleet` maps its tables onto it (`ImplementsFleetView`). So the fleet that the
booking properties are checked against allows everything the handlers of
FleetService do, requests interleaved, as long as no two are about one slot and
no vehicle is removed while another request holds it. `Calendar` is on the other side: it is
what a caller of ReservationsService may think of, and `ImplementsCalendar` maps
the reservations onto it. A row under a blocking status that has a vehicle is a
booking; a row under another status, or a removed one, is over for good. The
other three modules share no table with these but `vehicles`, of which
`VehicleImages` only needs to know which rows exist.

### State of `Reservations`

- `reservations`, `events`: the two tables. A row keeps status, vehicle and the
  two dates; names, amounts and texts play no part in any decision of the
  service and are left out. `publicReference` only matters through its UNIQUE
  constraint, whose violation is one of the failures of `MayFail`.
- `issued`: the uuids ever handed out, because the database never reuses one.
- `vehicles`: each vehicle is `assignable`, `blocked` (inactive, INDISPONIBLE
  or MAINTENANCE) or `gone`, which is all `ensureVehicleAssignable` tells apart.
- `slots`: `vehicle_schedule_slots`.
- A timeline row keeps its type, the status in its payload, the request that
  inserted it (`by`) and whether a client wrote it (`client`). `POST
  /reservations/:id/events` takes any string for a type and any object for a
  payload, so a client may add a row that looks like one of the service's own:
  `EventBodies` has such bodies, and what is said of announcements is said of
  the rows of `appendSystemEvent`.
- `requests`: one record per HTTP request, with the statement to run next
  (`pc`), the entity in memory (`want`), its loaded `events` relation (`seen`),
  the columns `save()` found different (`diff`), the timeline rows it found
  (`found`) and the timeline rows left to insert (`todo`).

### Actions of `Reservations`

| Code | Actions, in order |
|---|---|
| `create` :90 | `Create`, `CheckVehicle`, `CheckSlots`, `CountBlocking`, `CheckOverlap`, `Insert`, three `AppendEvent` |
| `update` :178 | `LoadUpdate`, the same checks (without `CheckVehicle` when the body names no vehicle, without any when there is none), `SaveSelect`, `SaveUpdate` or `Reinsert`, `AppendEvent` |
| `updateStatus` :237 | `LoadUpdateStatus`, `SaveSelect`, `SaveUpdate` or `Reinsert`, two `AppendEvent` |
| `createStripePreauth` :270 | `LoadPreauth`, `AppendEvent`, `ConfirmPreauth`, `AppendEvent` |
| `createEvent` :305 | `LoadStatusEvent` (the types that move the status) then as `updateStatus`; or `LoadNote` (any other type), `AppendEvent` |
| `remove` :380 | `LoadRemove`, `Delete` |
| an await that throws | `Fail` |
| fleet and vehicle services | `SetVehicle`, `DeleteVehicle`, `AddSlot`, `MoveSlot`, `RemoveSlot` of `FleetView` |

A request that is refused before its first write changes nothing and is not an
action. The final `findOne` of each handler only reads and is left out, and so
is the check that a start lies in the future: which requests occur is the
environment's choice.

### State and actions of `Fleet`

- `vehicles`: the operational status of each vehicle, or `gone`. `isActive`,
  which FleetService never writes, is constant and left out.
- `rows`: `fleet_incidents` and `vehicle_schedule_slots`, by uuid. An incident
  keeps vehicle, severity and status; a slot keeps vehicle and dates.
- `issued`, `requests`: as in `Reservations`.

| Code | Actions, in order |
|---|---|
| `updateVehicleStatus` :88 | `UpdateVehicleStatus`, `VehicleSelect`, `VehicleSave` |
| `VehiclesService.update` :99 | `UpdateVehicle`, `VehicleSelect`, `VehicleSave` |
| `createIncident` :98 | `CreateIncident`, `Insert`, and for a critical one `VehicleSelect`, `VehicleSave` |
| `updateIncident` :155 | `UpdateIncident`, `FindVehicle` when the body names a vehicle, `SaveSelect`, `SaveUpdate` or `Reinsert`, and for a critical unresolved one `FindBlockedVehicle` and the save of the vehicle |
| `createScheduleSlot` :213 | `CreateSlot`, `Insert` |
| `updateScheduleSlot` :265 | `UpdateSlot`, `FindVehicle` when the body names a vehicle, `SaveSelect`, `SaveUpdate` or `Reinsert` |
| `removeIncident` :200, `removeScheduleSlot` :291 | `LoadRemoval`, `Delete` |
| `VehiclesService.remove` :149 | `LoadVehicleRemoval`, `VehicleDelete` (with the cascades on both tables) |
| an await that throws | `Fail` |

`VehicleSelect` finds out whether the status differs, and whether the vehicle is
still there; `VehicleSave` is the UPDATE, or the INSERT of a vehicle that is
gone. `VehiclesService.update` saves the whole vehicle it loaded: without a
status in the body it still writes the one it read, if the row has another by
then (`UpdateVehicle`). Both update handlers of the fleet load the `vehicle`
relation and assign `vehicleId` only, so by rule 5 below the row keeps its
vehicle; but the entity `save()` returns still carries the assigned
`vehicleId`, and that is the vehicle `updateIncident` goes on to block.

### State and actions of `Sessions`

- `users`: e-mail, password and status of each account. A password is the name
  of the request that chose it; whether a hash matches is whether the names are
  equal.
- `otps`: `auth_otps`, with `at` for the order of `createdAt`; `sessions`:
  `refresh_tokens`, with `next` for `replacedByJti`. `expired` is set by an
  action of the environment, at any time, since `expiresAt` is only compared
  with the clock.
- `requests`: `pc`, the locals of the handler, the account it will store
  (`want`), and `after`, the password resets
  already answered when the request arrived, which no handler reads and which
  `ResetEndsSessions` needs.

A request makes at most one account, code, session or password, so what it
makes bears its name.

| Code | Actions, in order |
|---|---|
| `requestRegisterOtp` :49, `forgotPassword` :237 | `RequestRegisterOtp` or `ForgotPassword`, then createOtp :359: `ClearOtps`, `InsertOtp`, `SendOtpEmail`, and `DiscardOtp` when the mail fails |
| `confirmRegisterOtp` :105 | `ConfirmRegisterOtp` (validateOtp :435), `FindAccount`, `CreateUser`, `ConsumeSelect`, `ConsumeOtp` or `ReinsertOtp`, `OpenSession` |
| `login` :177 | `Login`, `OpenSession` |
| `refresh` :192 | `Refresh`, `CheckUser`, `OpenSession`, `RotateSelect`, `RotateSession` or `ReinsertSession` |
| `resetPassword` :261 | `ResetPassword`, `FindAccount`, `SetPassword`, `ConsumeSelect`, `ConsumeOtp` or `ReinsertOtp`, `RevokeSessions` |
| `UsersService.create` :85 | `CreateByAdmin`, `CreateUser` |
| `UsersService.update` :111, `updateStatus` :150 | `Update` or `UpdateStatus`, `SaveSelect`, `SaveUser` or `ReinsertUser` |
| `UsersService.remove` :140 | `Remove`, `DeleteUser` (sessions cascade, codes keep a NULL user) |
| an await that throws | `Fail`; always possible for a violated constraint (`Violates`) |

A client presents a code or a refresh token that was delivered to it, or, with
`FixedCode` (`OTP_FIXED_ENABLED`), any code, since all are the same. Reads that
follow one another without a decision between them (the roles and permissions
put in a token) are folded into the step before.

`POST /users` stores the status of its body, ACTIF without one; a registration
always ACTIF. The code of a reset is saved with the account it was loaded with:
when the account was removed meanwhile its column is NULL, `save()` writes the
old value back, and the foreign key refuses it (`Violates`). An account is loaded
with its roles, so its `save()` fails on a role IamService added since; as the
roles are in `Iam`, `MayOrphanRole` lets that UPDATE fail whenever the account is
there.

### State and actions of `Iam`

- `permissions`, `roles`, `accounts`: which of the known names exist;
  `grants`, `links`: `role_permissions` and `user_roles` as sets of pairs. Every
  row is known by a UNIQUE name, and nothing of the module deletes one except
  `role_permissions`.
- `procs`: one process for the API's start-up, one for the script, one per
  request; `faults`: the failing statements and crashes so far.

| Code | Actions, in order |
|---|---|
| `onApplicationBootstrap` :44 | `StartApi`; `FindPermission` and `InsertPermission` for each code :200; `FindRole`, `InsertRole`, `ReadPermissions`, `DeleteGrants`, `InsertGrants` :217; `FindUser`, `InsertUser`, `FindLink`, `InsertLink` :241 |
| `seed-all.ts` :269 | `StartSeeder`; the same for permissions and accounts; for each role `FindRole`, `InsertRole`, `ReadPermissions`, `ReadGrants`, one `Grant` per missing permission |
| `createRole` :96 | `CreateRole`, `InsertRole`, `DeleteGrants`, `InsertGrants` |
| `updateRolePermissions` :122 | `UpdateRolePermissions`, `DeleteGrants`, `InsertGrants` |
| `assignRoleToUser` :141 | `AssignRoleToUser`, `FindLink`, `InsertLink` |
| a statement that fails | `Fail`: a 500, the end of the script, or, in the start-up, the end of the API |
| the API is killed | `Crash`: its requests die with it, what they wrote stays |

Loops over permissions, roles and accounts take their elements in any order,
which allows more than the fixed order of the code. The API serves once
`procs[Api].pc = "done"` (`main.ts` listens after the start-up), and is started
again whenever it is down (`restart: always`).

### State and actions of `VehicleImages`

- `vehicles`: those that exist; `rows`: `vehicle_images`, whose `url` is a file
  at Cloudinary or a link of a body; `files`: the assets at Cloudinary.
- `requests`: `pc`, the images of the body (`list`), the rows loaded with the
  vehicle (`loaded`), and the files left to delete (`assets`).

| Code | Actions, in order |
|---|---|
| `create` :29 | `Create`, `SaveVehicle`, `InsertLinks`, `Reload` |
| `update` :99 | `LoadUpdate`, `SaveVehicle`; with images also `FindOld`, `DeleteAssets`, `DeleteRows`, `InsertLinks`; `Reload` |
| `remove` :149 | `LoadRemoval`, `FindOld`, `DeleteAssets`, `DeleteVehicle` |
| `uploadImage` :169 | `LoadUpload`, `Upload`, `InsertImage` |
| `removeImage` :193 | `LoadImageRemoval`, `DeleteAssets`, `DeleteRow` |
| a refused statement, a failing one | `Refuse`, `Fail`; a failing call to Cloudinary may have done its work |

`save()` of a vehicle is one step here: its SELECT and its transaction are not
separated, because what it writes is decided by the images in memory. It
cascades over them: the images of a body are stored by `SaveVehicle` and a
second time by `InsertLinks`, which is what the code does; after `create` a
gallery holds each link of the body twice. Rows that are not in memory are
orphaned by the cascade, which the NOT NULL `vehicle_id` refuses: `update` with
images answers 500 whenever the vehicle already has one, although
`vehicles.service.ts:121` announces a "Full replacement" (run
`gallery_replaced`).

### What is assumed of TypeORM's `save()`

1. `save()` of an entity that has an id first SELECTs the row, its timeline ids
   and its relations, then writes in one transaction.
2. It UPDATEs only the columns that differ between the entity and that SELECT.
   An UPDATE that matches no row is no error.
3. If the SELECT finds no row, it INSERTs the entity with its loaded events
   (the relation has `cascade: true`): `Reinsert`.
4. Events in the table but not in the loaded `events` relation are orphaned:
   their `reservation_id` is set to NULL, which the NOT NULL column refuses, and
   the transaction fails: `Violates`. This protects a dossier whose timeline
   grew between load and save, by accident.
5. The column `vehicle_id` is taken from the loaded relation `vehicle` when
   that is not null, and from `vehicleId` otherwise. `update()` assigns only
   `vehicleId`, so a reservation that has a vehicle keeps it: `LoadUpdate`.
6. `save()` of an entity without an id is one INSERT: `Insert`.

### Environment parameters

- `Isolation` says how requests overlap: `"none"` (freely, as the code allows),
  `"dossier"` (one at a time per reservation), `"serial"` (one at a time), and
  in `Fleet` `"record"` (freely, but no two requests about one slot, and no
  removal of a vehicle another request holds: `Interfere`). The code imposes
  nothing; the restrictions separate what the handlers guarantee on their own
  from what they lose by interleaving. A hazard that is a race is only met where
  its run allows the race: `PROJECT.json` lists no property for those the
  isolation excludes, and says what they refute.
- `MayFail`: a statement may fail, or the process die, at any await.
- `Retargets`: an update may name another vehicle than the stored one.
- `SettableStatuses` (`Fleet`): the statuses the requests about a vehicle name.
- `EventBodies` (`Reservations`): the events clients post.
- `Isolation` of the other modules: `"account"` (one request at a time for an
  e-mail address, `Sessions`), `"role"` (one request at a time for a role, and
  none beside the script, `Iam`), `"vehicle"` (one at a time for a vehicle,
  `VehicleImages`).
- `UuidsLeft` bounds creations by the size of `ReservationIds`; `MaxFaults`
  bounds the failures and crashes of a run of `Iam`; requests are handled once
  each. These are the only bounds besides the constants.

## 4. Runs

Two reservations, one or two vehicles, instants 1..3, two requests (three in
`reservations_concurrent`). Two reservations and two requests are enough for
every conflict the code can have, since each check and each write concerns one
reservation against the others; three instants give ranges that are disjoint,
touch, overlap and contain one another; three requests let a third one meet
the leftovers of a race. `Quiet` lets the finished system stutter, so deadlock
stays checked.

| Run | Environment | Shows |
|---|---|---|
| `reservations_serial` | serial, failures, fleet | `TypeOK`, `NoDoubleBooking`, `RangesOrdered`, `BookingRespectsFleet`, `ImplementsCalendar` |
| `reservations_dossier` | dossier, failures, fleet, retargets, `FairSpec` | `LegalTransitions`, `StatusAnnouncedOnce`, `SinglePreauth`, `EveryRequestEnds` |
| `reservations_concurrent` | free, no failures | `TimelineExplainsStatus`, `CreationRecorded`, `GoneForGood` |
| `fleet_record` | record, failures, retargets, `FairSpec` | `TypeOK`, `SlotsOrdered`, `ImplementsFleetView`, `BlockedWhenAnswered`, `StaysOutOfService`, `EveryRequestEnds` |
| `sessions_account` | one at a time per address, failures, expiry | `TypeOK`, `RefreshedOnce`, `ResetEndsSessions`, `OtpUsedOnce`, `OneLiveOtp`, `PasswordKept` |
| `sessions_free` | free, no failures, `FairSpec` | `RotationChain`, `RevokedForCause`, `RevocationFinal`, `EveryRequestEnds` |
| `iam_restart` | any database, two faults, restarts, the script, `FairSpec` | `TypeOK`, `AssignIdempotent`, `BootRestoresAdmin`, `ListAsAsked`, `SeedComplete`, `BootCompletes` |
| `images_vehicle` | one at a time per vehicle, failures | `TypeOK`, `OrphansFromUploads`, `DanglingFromRemovals` |
| `race_double_booking` | free creations | **violated** `NoDoubleBooking` |
| `race_stale_vehicle` | an update of a vehicle beside an incident | **violated** `CriticalBlocks` |
| `race_refresh` | free refreshes | **violated** `RefreshedOnce` |
| `gallery_replaced` | one update of a gallery | **violated** `ReplacesGallery` |

`fleet_record` has two vehicles, so that an update may name the other one, an
incident, a slot and two requests of any kind, each of which is met in the middle
by the other; it starts from every status of the vehicles that its incident
allows. Nobody asks for DISPONIBLE in it, which `StaysOutOfService` needs, but a
PATCH that names no status may write one back. `BlockedWhenAnswered` and
`StaysOutOfService` say what the code guarantees of its rule in every interleaving:
an answer for a critical incident finds the vehicle it names blocked, and only
copies loaded before can undo a block. `CriticalBlocks` is the rule itself, stated
of the moments when no request is in flight, since createIncident stores the
incident first; the code does not keep it (`race_stale_vehicle`).

`reservations_concurrent` has clients that post events of the service's own types,
`reservations_dossier` too. `TimelineExplainsStatus` and `CreationRecorded` leave
out the behaviours with a removal; `GoneForGood` is about them.

`sessions_account` and `sessions_free` have one account with a session, a second
address that is free, and three requests of any kind: enough for a code to be
asked, mailed and used, for a reset between two uses of one session, and for an
account to be removed and its address taken again. `iam_restart` starts from
any set of permissions, roles and accounts an earlier release can have left, with
all their grants and links or none, with two permissions so that a list can
be half there, and two faults so that a start that repairs an interrupted one
may be interrupted itself. `images_vehicle` has one vehicle with any gallery of
two kinds of image, and three requests: an operation that failed, one that
repeats it and one that meets them.

The violated runs state what the repository says of itself (an e2e test, a
comment, an error message) and show a behaviour of the code that contradicts it;
`PROJECT.json` quotes the lines. The three races have one cause: nothing in the
code keeps two requests about one record apart. `gallery_replaced` needs one
request only. The passing runs say what holds when requests are kept apart, and
what holds anyway.

The restrictions of the passing runs and of the theorems are needed; each line
below is an instance that refutes a property, to be had from the cfg of the
passing run by the change it names.

Reservations and fleet:

- `NoDoubleBooking` with `Isolation = "serial"`, two vehicles, `Retargets = TRUE`
  and `Updates <- AllUpdates`: an update that names another vehicle and new dates
  is checked on that vehicle and stored on the old one. No concurrency is
  needed. `BookingRespectsFleet` is refuted by the same change, with a slot of
  the old vehicle in the place of a booking.
- `BookingRespectsFleet` with `Isolation = "dossier"`, operations create and fleet:
  the vehicle is blocked, or a slot is added, between the check and the INSERT.
- `StatusAnnouncedOnce` with `Isolation = "none"`, operation updateStatus, and
  `SinglePreauth` with operation preauth: two handlers read the same status and
  both announce what follows it.
- `LegalTransitions` with `Isolation = "none"`: two status changes are checked
  against one status, and the second overwrites the first along a transition the
  table forbids; createStripePreauth stores CONFIRMEE over an ANNULEE.
- `GoneForGood` allows a stale `save()` to insert a removed row again, since that
  happens with `Isolation = "none"`, operations updateStatus and remove: what it
  says is that nothing else does.
- `CreationRecorded` with `MayFail`: a failure after the INSERT of a reservation
  leaves it without "First timeline event is always emitted at creation"
  (`reservations.service.ts:113`).
- `CriticalBlocks`, beside its own run, with DISPONIBLE among `SettableStatuses`,
  serial: nothing keeps updateVehicleStatus from releasing a vehicle under an open
  critical incident, against `fleet.service.ts:187`; with `StaysOutOfService` the
  same, so the theorem about it assumes that nobody asks for DISPONIBLE.
- `RangesOrdered` and `SlotsOrdered` with `Isolation = "none"`: two updates,
  each of one date, each valid against the other stored date, are both written
  since `save()` writes only the column that differs.
- `CriticalBlocks` with operation updateIncident alone: one update raises the
  severity of a closed incident while another reopens it, and neither sees an
  incident to block for. With `Retargets`: the body names another vehicle, which
  updateIncident blocks, while the incident stays on its own. With `MayFail`: the
  incident is stored and the vehicle not.
- `ImplementsFleetView` with `Isolation = "none"`: a vehicle deleted between
  the load and the `save()` of updateVehicleStatus is inserted again, which no
  step of FleetView does.
- `SinglePreauth` is stated of runs where no handler failed: a failure between
  the preauthorisation and the status lets a retry record a second one.
- `CreationRecorded` and `TimelineExplainsStatus` need every statement to
  succeed, so `reservations_concurrent` has no failures. They leave removals out,
  because the `Reinsert` of a row removed meanwhile brings back the timeline as it
  was at the load: with operations create, updateStatus and remove (update,
  updateStatus and remove), three requests would refute them.
- `StatusAnnouncedOnce` is about the rows the service inserts: a client may post a
  `reservation_status_changed` of a status already announced, which `EventBodies`
  has.

Sessions, with `Isolation = "none"`:

- `PasswordKept`, operations reset and updateStatus: `save()` of the account
  loaded before the reset finds the hash changed and writes the old one back.
- `ResetEndsSessions`, operations reset and login: a login that verified the old
  password opens its session after the revocation.
- `OtpUsedOnce`, operation reset: two resets validate one code before either
  has marked it.
- `OneLiveOtp`, operation register: two requests each delete what is there and
  each insert a code.
- `RotationChain` says nothing of removed accounts: remove, a stale `save()` of
  the account and a refresh in flight bring back an account with a session that
  names a successor which is not stored.

`RefreshedOnce` is violated in `race_refresh` itself.

Iam, with `Isolation = "none"` and two requests, no fault:

- `ListAsAsked`, operation updateRole: two replacements delete, then both
  insert, and the role ends with both lists, against `iam.controller.ts:133`.
- `AssignIdempotent`, operation assign: both find no link and the second INSERT
  violates the UNIQUE constraint: a 500, against `iam.controller.ts:154`.

VehicleImages, with `Isolation = "none"` and two requests, no failure:

- `OrphansFromUploads`: an upload between `FindOld` and `DeleteRows` of an update
  loses its row and keeps its file.
- `DanglingFromRemovals`: the `save()` of an update racing a removeImage inserts
  the deleted row again, whose file is gone.

`ReplacesGallery` needs no second request (`gallery_replaced`).

Fairness: `FairSpec` is weak fairness of each request's own step (in `Reservations` and
`Fleet` of `Progress`, the steps other than a failure no constraint calls for, so
that an answer is not owed to a chance failure). Node resumes
a handler once its statement has an answer, PostgreSQL answers or fails, and no
handler waits for another one, so a step that stays possible is taken; in
`Sessions` this includes nodemailer, which sends or throws. In `Iam` the start of
the API is weakly fair too, since the container restarts it (`restart: always` in
`docker-compose.prod.yml`); with `MaxFaults` that is what `BootCompletes` needs.
The start of a request, the script, the fleet and the clock are not fair.

Each property has a mutant in `PROJECT.json`: an operator next to the
definition it replaces, commented as such, never used by the specification.

## 5. Proofs

`ReservationsProofs` proves for every set of reservations, vehicles, requests,
instants and inputs allowed by the ASSUMEs of `Reservations`:

| Theorem | Assumes | Proves |
|---|---|---|
| `TypeCorrect` | nothing | `Spec => []TypeOK` |
| `LifecycleRespected` | `Isolation # "none"` | `Spec => LegalTransitions` |
| `RemovalIsFinal` | nothing | `Spec => GoneForGood` |
| `RangesStayOrdered` | `Isolation # "none"` | `Spec => []RangesOrdered` |
| `CalendarKept` | `Isolation = "serial"`, `~Retargets` | `Spec => []NoDoubleBooking` |

Each hypothesis is needed: section 4 names the behaviour that refutes the
statement without it. `RemovalIsFinal` needs none, as it says itself what a save()
of a copy loaded before the removal may do.

The argument is in three layers of inductive invariants.

- `TypeInv` adds to `TypeOK` the `Shape` of a handler: which fields its `pc`
  makes meaningful (an entity until it is stored, a reservation id once the row
  exists, a timeline row left to insert until the end). Without it `Head(todo)`
  and `want.start` would have no type.
- `DossierInv` adds that no two handlers in flight are about one reservation
  (`Alone`), that ids in use were issued (`IdsIssued`), and that the entity a
  handler holds still `Agrees` with the row: the row exists, the entity's
  status is the row's or a legal successor (`Follows`), and the dates `save()`
  leaves out are the same in both (`WritesDates`), so the stored pair is the
  validated pair. `LegalTransitions` does not follow from the guards alone
  because the guard is evaluated at the load and the write happens later.
- `CalendarInv` adds that at most one handler is in flight (`AtMostOne`), that
  the vehicle checked is the vehicle stored, and that an entity past its checks
  `Fits`: it clashes with no other reservation (`Cleared`). A change of status
  cannot create a clash because only blocking statuses have successors
  (`OnlyBlockingMoves`), which ties the two tables of the service together.

`FleetProofs` does the same for `Fleet`:

| Theorem | Assumes | Proves |
|---|---|---|
| `TypeCorrect` | nothing | `Spec => []TypeOK` |
| `SlotsStayOrdered` | `Isolation # "none"` | `Spec => []SlotsOrdered` |
| `CriticalAnswersBlock` | nothing | `Spec => BlockedWhenAnswered` |
| `OnlyOldCopiesRelease` | `DISPONIBLE` not settable | `Spec => StaysOutOfService` |
| `FleetImplementsView` | `Isolation # "none"` | `Spec => ImplementsFleetView` |

Here too each hypothesis is needed (section 4).

- `TypeInv` is again `TypeOK` with the `Shape` of a handler.
- `CriticalAnswersBlock` and `OnlyOldCopiesRelease` follow from `TypeInv` alone, so
  they hold whatever overlaps: the `Shape` of a handler of an incident says that the
  status it writes is INDISPONIBLE, and its last statement is the one that finds or
  writes that status (`AnswerBlocks`); a step leaves the copies of the other
  handlers as they are (`StepFrame`) and writes to a vehicle the status of the
  copy it has (`StepVehicles`).
- `RecordInv`: no two handlers in flight `Interfere` (`Apart`), and the slot a
  handler holds (`Holds`) agrees with the row on the columns `save()` leaves out.
- `ViewInv`: the slots are on vehicles that exist (`KeysHold`), and so is the
  vehicle a handler is about to write (`Current`). Then every statement of `Fleet`
  is a step of `FleetView` or a stutter: the only visible ones are `Insert`,
  `SaveUpdate`, `Reinsert` and `Delete` of a slot, `VehicleSave` and
  `VehicleDelete`.

`CalendarProofs` builds on `ReservationsProofs`:

| Theorem | Assumes | Proves |
|---|---|---|
| `ReservationsKeepCalendar` | `Isolation = "serial"`, `~Retargets` | `Spec => ImplementsCalendar` |
| `BookingsHeedFleet` | `Isolation = "serial"`, `~Retargets` | `Spec => BookingRespectsFleet` |

- `BookingInv` adds to `CalendarInv` that an entity past its load is on the
  vehicle of its row, if the row has one (`KeepsVehicle`): rule 5 of `save()`,
  carried to the statement that writes.
- A step writes at most one row (`StepRefines`), and a row before and after a
  step can only differ in the ways of `Place`, `Move` and `Close` (`RowRefines`):
  `NoDoubleBooking'` and `RangesOrdered'` give the guards, `LifecycleStep` and
  `OnlyBlockingMoves` that what is over stays over. The one step that changes
  several rows is the removal of a vehicle, which is `Withdraw` (`FleetRefines`).
- `FleetInv` adds what the checks found of the vehicle and its slots, as long as
  the entity is in memory (`HeedsFleet`). An entity that skips a check must be
  excused from it: `update` without a vehicle in its body does not look whether
  the vehicle is assignable, and does not put the reservation on another one
  (`Places`); a change of status looks at nothing, and moves nothing (`Moves`).

`TimelineProofs`, also over `ReservationsProofs`:

| Theorem | Assumes | Proves |
|---|---|---|
| `CreationsRecorded` | `~MayFail` | `Spec => []CreationRecorded` |
| `TimelineExplains` | `~MayFail` | `Spec => []TimelineExplainsStatus` |
| `StatusesAnnouncedOnce` | `Isolation # "none"` | `Spec => []StatusAnnouncedOnce` |
| `SinglePreauthorisation` | `Isolation # "none"` | `Spec => []SinglePreauth` |

The first two hold for every interleaving, the fleet included; statements that
violate a constraint still fail. The last two hold with failures and removals at
any await.

- `LedgerInv`: the status of every row, and every status a handler is about to
  store, is announced, or a handler that is past its write still has the
  announcement to insert, or (for a status not stored yet) the handler will
  announce it itself (`Accounted`, `Backed`). What makes this inductive although
  handlers overwrite each other's status is that it only grows: timelines lose
  nothing, and an owed announcement is inserted or still owed (`Keeps`).
- `AnnounceInv`: the lifecycle has no cycle, so its statuses can be numbered
  (`Stage`, `StagesGrow`). No announcement is ahead of the stored status
  (`ToldAt`), and one still to be made is beyond all those made (`Past`), which a
  handler can only know because no other one is about its reservation.
- `ChargeInv`: as long as no handler has failed, a reservation with a
  preauthorisation is confirmed or beyond, or the handler that recorded it is about
  to confirm it (`Charged`). A second handler could only record another one while
  the status is `EN_ATTENTE_PAIEMENT`, hence beside that handler.

`SessionsProofs`, for every number of requests, accounts and addresses, every
interleaving and every failure:

| Theorem | Assumes | Proves |
|---|---|---|
| `TypeCorrect` | nothing | `Spec => []TypeOK` |
| `ChainKept` | nothing | `Spec => []RotationChain` |
| `RevocationsHaveCause` | nothing | `Spec => []RevokedForCause` |
| `RevocationIsFinal` | nothing | `Spec => RevocationFinal` |

- `SessionInv`: a session bears the name of the request that opens it and is not
  there before (`Unopened`), a client presents only sessions that were answered
  (`Given`), every refresh of a session is about its account (`Owned`), and a refresh
  rotates its session only once the new one is stored (`Successor`). So the
  `save()` of a session loaded several statements earlier, and the reinsertion of
  one deleted since, write nothing but this rotation; `RotationChain` is not
  inductive without it, since it says nothing of the handler in between.

`SessionsAccountProofs`, with one request at a time for an account and the
addresses it has or gets (`Isolation = "account"`); requests of other accounts
overlap and any statement may fail:

| Theorem | Assumes | Proves |
|---|---|---|
| `RefreshesOnce` | `Isolation = "account"` | `Spec => []RefreshedOnce` |
| `ResetsEndSessions` | `Isolation = "account"` | `Spec => []ResetEndsSessions` |
| `CodesUsedOnce` | `Isolation = "account"` | `Spec => []OtpUsedOnce` |
| `OneLiveCode` | `Isolation = "account"` | `Spec => []OneLiveOtp` |
| `PasswordsKept` | `Isolation = "account"` | `Spec => PasswordKept` |

- `IsolationInv` is what the isolation gives: no address in two hands (`Apart`),
  and what a handler has loaded is of its own addresses and still stored
  (`Concerns`), so that a step of one request leaves alone what the others hold.
- `CodeInv`: a code bears the name of the request that sent it (`Issued`), is
  spent before its user goes on (`Consumed`), and none is left when one is
  inserted (`Cleared`).
- `Chosen`: `save()` of an account writes a password only if it is the one its
  request chose. `Rotates`: a session stays good until its refresh is answered, and
  no longer. `Before`: whoever is about to open a session arrived after every
  reset answered so far, for the account it opens it for.

`VehicleImagesProofs`, for every number of vehicles, requests and images:

| Theorem | Assumes | Proves |
|---|---|---|
| `TypeCorrect` | nothing | `Spec => []TypeOK` |
| `NoOrphanOfRemovals` | `Isolation = "vehicle"` | `Spec => []OrphansFromUploads` |
| `DanglingExplained` | `Isolation = "vehicle"` | `Spec => []DanglingFromRemovals` |

- `TypeInv` is `TypeOK`, foreign key included, with the `Shape` of a handler.
- `GalleryInv` relates rows and files at every phase. A file has one row at most,
  that of its vehicle and its upload (`Named`); the handler in flight for a
  vehicle is alone with it (`Alone`); what it has loaded is what is stored, the
  files it has left to delete are all that remain of the rows it will delete
  (`Removal`), and a replacement has emptied the gallery before it fills it
  (`Holds`). The two properties are not inductive without this: that the rows
  a handler deletes have no file left rests on the SELECT several statements
  before. `Explained` is `DanglingFromRemovals` with the removal named.
- A step is summed up in `Effect`: it touches its own vehicle only, deletes a file
  before its row and brings no row whose file is gone. Each action has a lemma
  for `Effect`, and `Effect` preserves the invariant (`EffectGallery`), so that the
  requests about other vehicles are dealt with once (`OthersHold`).

`IamProofs`, for every set of permissions, roles, accounts and requests, every
database `Init` allows (any permissions, roles and accounts, with all the grants
and links among them or none) and any number of faults:

| Theorem | Assumes | Proves |
|---|---|---|
| `TypeCorrect` | nothing | `Spec => []TypeOK` |
| `AdminRestored` | nothing | `Spec => BootRestoresAdmin` |
| `ScriptCompletes` | `Isolation = "role"` | `Spec => SeedComplete` |
| `ListsReplaced` | `Isolation = "role"` | `Spec => ListAsAsked` |
| `AssignmentsIdempotent` | `Isolation = "role"` | `Spec => []AssignIdempotent` |

- `TypeInv` is `TypeOK` with the phases each kind of process goes through
  (`Phases`): the start-up replaces a list, the script adds to it, a request
  never looks for permissions.
- `BootInv` says where the start-up has got to: what it has done is in the
  tables, what is left is in its locals (`BootAt`), and no request is in flight
  before it is done (`Serving`). That is why `AdminRestored` needs no isolation:
  the only process beside it is the script, which never deletes
  (`SeederGrows`). Nothing is said of an administrator's role that requests
  change afterwards.
- `RoleInv` adds the same for the script (`ScriptAt`), what a request relies on
  (`RequestAt`: an emptied list until it fills it, no link until it inserts it)
  and that they are `Apart`. A statement only touches the rows of the role at
  hand (`StepTouches`), and the start-up only empties the administrator's
  (`ApiSpares`), so each holds while the others work. A
  start-up that fails without a fault, on a row the script inserted first, takes
  no assignment with it because none is in flight (`Serving`).

Only model-checked: the liveness properties `EveryRequestEnds` (of
`Reservations`, `Fleet` and `Sessions`) and `BootCompletes` (of `Iam`). Liveness
under fairness is out of the prover's reach. What the violated runs show is
TLC's too.

## 6. Not modelled

- Reading endpoints, formatting and validation of bodies, the pagination helpers
  (two pure functions), the stateless HTTP plumbing, the SMTP transport.
- Access tokens: they are stateless, and the permissions they carry stay what
  they were when the token was issued. `PermissionsGuard` reads no state of the
  server, so a withdrawn permission lasts until the token expires; the code
  promises nothing else.
- In `Sessions`: names, phone, role label and company profile; `user_roles`,
  which `Iam` has. That neither a suspension nor a password set by `update()`
  revokes the sessions of an account is in the model (`CheckUser` looks at the
  status, nothing looks at the password) and no document claims otherwise.
- In `Iam`: the removal of accounts, which is in `Sessions`; `ADMIN_EMAIL` as it
  is written (the start-up looks it up without lower-casing it); `seedVehicles`
  of the script, which inserts rows nothing else reads; `seed-admin.ts`, a part
  of the start-up run by hand; the reset of the database by the entry point.
- In `VehicleImages`: the descriptive columns; Cloudinary switched off, where
  an upload answers a fixed address and a deletion does nothing.
- Migrations other than their constraints.

A crash of the process is `Fail` for the requests in flight of every module but
`Iam`: nothing is kept in memory between requests, so a restart has no other
effect than the seed of the start-up, which is in `Iam`.
