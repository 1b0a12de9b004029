----------------------------- MODULE MCBackend ------------------------------
EXTENDS Backend

TwoRuntimes == {1, 2}

\* Two runtimes whose servers want one port, and each kind of backend on its own.
SharedPort == {<<"trtllm_serve", "sglang_serve">>, <<"vllm_serve", "llama_server">>}

Alone == {<<b, "unused">> : b \in ServeBackends \cup {"openai_remote"}}

Assignments == SharedPort \cup Alone

Asked == {<<a, 1>> : a \in Alone} \cup {<< <<"vllm_serve", "llama_server">>, 2>>}
=============================================================================
