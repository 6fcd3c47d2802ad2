------------------------------ MODULE MCS3Demo ------------------------------
(* A 2-byte buffer and objects of 0 to 5 bytes: empty, shorter than the   *)
(* buffer, exact multiples of it and in between.  Paths: empty, without a *)
(* '/', bucket/key, and with the s3: scheme WriteFile rejects.             *)
EXTENDS S3Demo

MCPaths == {<<>>, <<"b">>, <<"b", "/", "k">>, <<"s", "3", ":", "b", "/", "k">>}
MCObjSizes == 0..5
=============================================================================
