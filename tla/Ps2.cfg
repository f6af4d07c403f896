SPECIFICATION Spec
INVARIANTS TypeOK NothingStuck EnabledIsTrue
\* A key typed while enable_mouse asks for the mode byte may turn off its own
\* interrupt: its byte then blocks all input for good.
CHECK_DEADLOCK FALSE
