-------------------------- MODULE MCFileReplication --------------------------
EXTENDS FileReplication

CONSTANTS s, m      \* a release file on a private index, one on a mirror

Row(p, kind) == [path |-> p, kind |-> kind]

\* A file of each sort and a deletion; an index which is deleted; a mirror which learns of
\* a file, downloads and loses it; a file which is deleted and uploaded again.
DeletionHistories ==
    {<<Row(s, "file"), Row(m, "file"), Row(s, "deleted")>>,
     <<Row(s, "file"), Row(s, "dropped"), Row(m, "file")>>,
     <<Row(m, "link"), Row(m, "file"), Row(m, "deleted")>>,
     <<Row(s, "file"), Row(s, "deleted"), Row(s, "file")>>,
     <<Row(m, "file"), Row(m, "deleted"), Row(m, "file")>>}

\* A file which is deleted and uploaded again.
ReuploadHistories == {<<Row(s, "file"), Row(s, "deleted"), Row(s, "file")>>}
=============================================================================
