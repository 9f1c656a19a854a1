------------------------------ MODULE MCStartup ------------------------------
(* The server started with the files of MCConfigFile.                        *)
EXTENDS MCConfigFile, Startup

MCTextLength == [t \in Texts \cup Names \cup {VERSION, SERVER_PORT} |->
                    IF t = "other" THEN 400 ELSE IF t = "host" THEN 9 ELSE 0]

\* Sizes at which nothing, the brackets, one, two or three lines begin to fit.
MCJsonSizes == {1, 3, 4, 5, 354, 355, 405, 406, 460, 520, 1200}

=============================================================================
