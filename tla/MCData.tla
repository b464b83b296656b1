-------------------------------- MODULE MCData --------------------------------
(* What D1 holds and what is derived from it: the migration of a table, the *)
(* drives of a user with their copies, and the tasks of one media group; and *)
(* what rclone does with the login that a drive's row holds.  A behaviour is *)
(* of one of them.                                                          *)
EXTENDS Schema, Drives, TaskGroup, DriveSession, RcloneUpload

VARIABLE part

DataInit ==
  /\ part \in {"schema", "drives", "group", "login", "upload"}
  /\ SchemaInit /\ DrivesInit /\ GroupInit /\ SessionInit /\ UploadInit
  /\ part # "schema" => table = "tasks" /\ written = {}
  /\ part # "drives" => rows = [t \in Types |-> None]
  /\ part # "upload" => cred = [format |-> "plain", text |-> "plain"] /\ right

Of(name, A, others) == part = name /\ A /\ UNCHANGED others

DataNext ==
  /\ UNCHANGED part
  /\ \/ Of("schema", SchemaNext, <<driveVars, groupVars, sessionVars, uploadVars>>)
     \/ Of("drives", DrivesNext, <<schemaVars, groupVars, sessionVars, uploadVars>>)
     \/ Of("group", GroupNext, <<schemaVars, driveVars, sessionVars, uploadVars>>)
     \/ Of("login", SessionNext, <<schemaVars, driveVars, groupVars, uploadVars>>)
     \/ Of("upload", UploadNext, <<schemaVars, driveVars, groupVars, sessionVars>>)

DataSpec == DataInit /\ [][DataNext]_<<part, schemaVars, driveVars, groupVars, sessionVars, uploadVars>>

=============================================================================
