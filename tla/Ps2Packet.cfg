SPECIFICATION Spec
PROPERTY CompletePacket
\* A key typed while enable_mouse asks for the mode byte may turn off its own
\* interrupt: its byte then blocks all input for good.
CHECK_DEADLOCK FALSE
