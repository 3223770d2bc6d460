---------------------------- MODULE MCProductBuild ----------------------------
EXTENDS ProductBuild

MCWritten == [skill |-> {"guide"}, manifest |-> {"canonical"}, source |-> {"parser"}, plan |-> {"checks"}]
MCMarks == [guide |-> {"source_inventory"}, parser |-> {"typed_parser", "runtime_duplicates"}, torn |-> {}]
MCCommands == [checks |-> {"runtime_duplicates", "runtime_other"}]
MCJobs == {[request |-> {"runtime_helper", "local_file_safety", "structured_input"}, reviewed |-> FALSE],
           [request |-> {}, reviewed |-> TRUE]}
===============================================================================
